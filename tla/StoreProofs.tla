---------------------------- MODULE StoreProofs ----------------------------
(***************************************************************************)
(* Proofs of Store's properties for every value of its constants.          *)
(***************************************************************************)
EXTENDS Store, SequenceTheorems, TLAPS

(* An environment without a row has no deployments (the cascade).          *)
RowsOnlyPresent == \A e \in Env : envState[e] # "present" => deps[e] = << >>

IInv == /\ TypeOK
        /\ LivePointer
        /\ ActiveIsNewest
        /\ RolloutFitsLive
        /\ RowsMatchState
        /\ RowsOnlyPresent

(* Every environment's deployments are numbered 1, 2, ... without a gap.   *)
LEMMA Numbered ==
    ASSUME TypeOK, NEW e \in Env
    PROVE  /\ Len(deps[e]) \in Nat
           /\ DOMAIN deps[e] = 1..Len(deps[e])
           /\ \A r \in DOMAIN deps[e] : deps[e][r] \in DeploymentRow
<1>1. deps[e] \in Seq(DeploymentRow)
  BY DEF TypeOK
<1>2. QED
  BY <1>1, LenProperties, ElementOfSeq

(* What replacing one row does to the deployments table.                   *)
LEMMA RowReplaced ==
    ASSUME TypeOK, NEW e \in Env, NEW r \in Revisions(e),
           NEW row \in DeploymentRow, deps' = WithRow(e, r, row)
    PROVE  /\ deps' \in [Env -> Seq(DeploymentRow)]
           /\ \A f \in Env : /\ DOMAIN deps'[f] = DOMAIN deps[f]
                             /\ Len(deps'[f]) = Len(deps[f])
           /\ \A f \in Env : \A q \in DOMAIN deps[f] :
                 deps'[f][q] = IF f = e /\ q = r THEN row ELSE deps[f][q]
<1> DEFINE s == [deps[e] EXCEPT ![r] = row]
<1>1. deps[e] \in Seq(DeploymentRow)
  BY DEF TypeOK
<1>2. r \in 1..Len(deps[e])
  BY Numbered DEF Revisions
<1>3. /\ s \in Seq(DeploymentRow)
      /\ Len(s) = Len(deps[e])
      /\ \A q \in 1..Len(deps[e]) : s[q] = IF q = r THEN row ELSE deps[e][q]
  BY <1>1, <1>2, ExceptSeq
<1>4. DOMAIN s = DOMAIN deps[e]
  OBVIOUS
<1>5. deps' = [deps EXCEPT ![e] = s]
  BY DEF WithRow
<1> HIDE DEF s
<1>6. deps'[e] = s /\ \A f \in Env : f # e => deps'[f] = deps[f]
  BY <1>5 DEF TypeOK
<1>7. deps' \in [Env -> Seq(DeploymentRow)]
  BY <1>3, <1>5 DEF TypeOK
<1>8. QED
  BY <1>3, <1>4, <1>6, <1>7, Numbered

(* RowsMatchState, of one row.                                             *)
Consistent(row) ==
    /\ row.state \in Desired => row.node # None
    /\ row.state = "pending" => row.node = None
    /\ \A s \in Service : row.inst[s] # "absent"
            <=> row.node # None /\ s \in DOMAIN Spec[row.version]

(* RolloutFitsLive in the next state, with PinnedKept left folded.         *)
LEMMA FitsLiveNext ==
    ASSUME \A f \in Env : \A q \in DOMAIN deps'[f] :
              deps'[f][q].state \in Active /\ ~deps'[f][q].blind /\ live'[f] # 0
                => /\ deps'[f][q].slot # deps'[f][live'[f]].slot
                   /\ PinnedKept(deps'[f][live'[f]].version, deps'[f][q].version)
    PROVE  RolloutFitsLive'
BY DEF RolloutFitsLive, Revisions, Row, PinnedKept, PinnedServices

(* A step that replaces one row keeps the invariant when it neither makes  *)
(* nor unmakes a live revision, starts no rollout and keeps version, slot  *)
(* and what its create saw: UpdateDeploymentState, PlaceDeployment, ReportInstance and        *)
(* DeleteInstances are such steps.                                         *)
LEMMA RowStep ==
    ASSUME IInv, TypeOK', NEW e \in Env, NEW r \in Revisions(e),
           NEW row \in DeploymentRow, deps' = WithRow(e, r, row),
           live' = live, envState' = envState,
           row.version = Row(e, r).version, row.slot = Row(e, r).slot,
           row.blind = Row(e, r).blind,
           row.state = "live" <=> Row(e, r).state = "live",
           row.state \in Active => Row(e, r).state \in Active,
           Consistent(row)
    PROVE  IInv'
<1>1. /\ \A f \in Env : /\ DOMAIN deps'[f] = DOMAIN deps[f]
                        /\ Len(deps'[f]) = Len(deps[f])
      /\ \A f \in Env : \A q \in DOMAIN deps[f] :
            deps'[f][q] = IF f = e /\ q = r THEN row ELSE deps[f][q]
  BY RowReplaced DEF IInv
<1>2. LivePointer'
  BY <1>1 DEF IInv, LivePointer, Revisions, Row
<1>3. ActiveIsNewest'
  BY <1>1 DEF IInv, ActiveIsNewest, Revisions, Row
<1>4. RolloutFitsLive'
  <2> SUFFICES ASSUME NEW f \in Env, NEW q \in DOMAIN deps'[f],
                      deps'[f][q].state \in Active, ~deps'[f][q].blind, live'[f] # 0
               PROVE  /\ deps'[f][q].slot # deps'[f][live'[f]].slot
                      /\ PinnedKept(deps'[f][live'[f]].version, deps'[f][q].version)
    BY FitsLiveNext
  <2>1. q \in DOMAIN deps[f] /\ live[f] \in DOMAIN deps[f]
    BY <1>1 DEF IInv, LivePointer, Revisions
  <2>2. /\ deps[f][q].state \in Active
        /\ deps'[f][q].slot = deps[f][q].slot
        /\ deps'[f][q].version = deps[f][q].version
        /\ ~deps[f][q].blind
    BY <1>1, <2>1 DEF Row
  <2>3. /\ deps'[f][live[f]].slot = deps[f][live[f]].slot
        /\ deps'[f][live[f]].version = deps[f][live[f]].version
    BY <1>1, <2>1 DEF Row
  <2>4. QED
    BY <2>1, <2>2, <2>3 DEF IInv, RolloutFitsLive, Revisions, Row
<1>5. RowsMatchState'
  BY <1>1 DEF IInv, RowsMatchState, Revisions, Row, Consistent
<1>6. RowsOnlyPresent'
  <2> SUFFICES ASSUME NEW f \in Env, envState'[f] # "present"
               PROVE  deps'[f] = << >>
    BY DEF RowsOnlyPresent
  <2>1. deps[f] = << >>
    BY DEF IInv, RowsOnlyPresent
  <2>2. Len(deps'[f]) = 0 /\ deps'[f] \in Seq(DeploymentRow)
    BY <1>1, <2>1, EmptySeq DEF TypeOK
  <2>3. QED
    BY <2>2, EmptySeq
<1>7. QED
  BY <1>2, <1>3, <1>4, <1>5, <1>6 DEF IInv

----------------------------------------------------------------------------
(* Empty tables satisfy the inductive invariant.                           *)
LEMMA InitIInv == Init => IInv
<1> SUFFICES ASSUME Init PROVE IInv
  OBVIOUS
<1>1. \A e \in Env : DOMAIN deps[e] = {} /\ Len(deps[e]) = 0
  BY DEF Init
<1>2. TypeOK
  BY DEF Init, TypeOK, NodeState
<1>3. QED
  BY <1>1, <1>2 DEF Init, IInv, LivePointer, ActiveIsNewest, RolloutFitsLive,
                    RowsMatchState, RowsOnlyPresent, Revisions, Row

(* The part of the invariant that is not about types reads three tables.   *)
LEMMA SameRows ==
    ASSUME IInv, TypeOK', deps' = deps, live' = live, envState' = envState
    PROVE  IInv'
<1>1. LivePointer'
  BY DEF IInv, LivePointer, Revisions, Row
<1>2. ActiveIsNewest'
  BY DEF IInv, ActiveIsNewest, Revisions, Row
<1>3. RolloutFitsLive'
  BY DEF IInv, RolloutFitsLive, Revisions, Row, PinnedKept, PinnedServices
<1>4. RowsMatchState'
  BY DEF IInv, RowsMatchState, Revisions, Row
<1>5. RowsOnlyPresent'
  BY DEF IInv, RowsOnlyPresent
<1>6. QED
  BY <1>1, <1>2, <1>3, <1>4, <1>5 DEF IInv

(* Node registration, heartbeats, drains and uncordons leave it true.      *)
LEMMA NodeStepIInv == IInv /\ NodeStep => IInv'
<1> SUFFICES ASSUME IInv, NodeStep PROVE IInv'
  OBVIOUS
<1>1. CASE MarkStaleNodesUnreachable
  <2>1. TypeOK'
    BY <1>1 DEF IInv, TypeOK, MarkStaleNodesUnreachable, envVars, NodeState
  <2>2. QED
    BY <1>1, <2>1, SameRows DEF MarkStaleNodesUnreachable, envVars
<1>2. ASSUME NEW n \in Node, NEW c \in Capacity[n], RegisterNode(n, c) PROVE IInv'
  <2>1. TypeOK'
    BY <1>2, CapacityAssumption DEF IInv, TypeOK, RegisterNode, envVars, NodeState
  <2>2. QED
    BY <1>2, <2>1, SameRows DEF RegisterNode, envVars
<1>3. ASSUME NEW n \in Node, Heartbeat(n) PROVE IInv'
  <2>1. TypeOK'
    BY <1>3 DEF IInv, TypeOK, Heartbeat, envVars, NodeState
  <2>2. QED
    BY <1>3, <2>1, SameRows DEF Heartbeat, envVars
<1>4. ASSUME NEW n \in Node, HeartbeatAges(n) PROVE IInv'
  <2>1. silence[n] + 1 \in 0..2
    <3>1. silence[n] \in 0..2
      BY DEF IInv, TypeOK
    <3>2. silence[n] < 2
      BY <1>4 DEF HeartbeatAges
    <3>3. QED
      BY <3>1, <3>2
  <2>2. TypeOK'
    BY <1>4, <2>1 DEF IInv, TypeOK, HeartbeatAges, envVars
  <2>3. QED
    BY <1>4, <2>2, SameRows DEF HeartbeatAges, envVars
<1>5. ASSUME NEW n \in Node, DrainNode(n) PROVE IInv'
  <2>1. TypeOK'
    BY <1>5 DEF IInv, TypeOK, DrainNode, envVars, NodeState
  <2>2. QED
    BY <1>5, <2>1, SameRows DEF DrainNode, envVars
<1>6. ASSUME NEW n \in Node, UncordonNode(n) PROVE IInv'
  <2>1. TypeOK'
    BY <1>6 DEF IInv, TypeOK, UncordonNode, envVars, NodeState
  <2>2. QED
    BY <1>6, <2>1, SameRows DEF UncordonNode, envVars
<1>7. QED
  BY <1>1, <1>2, <1>3, <1>4, <1>5, <1>6 DEF NodeStep

----------------------------------------------------------------------------
(* UpdateDeploymentState preserves it: the targets its callers ask for     *)
(* are active or failed.                                                   *)
LEMMA UpdateIInv ==
    ASSUME IInv, NEW e \in Env, NEW r, NEW to \in {"starting", "healthy", "failed"},
           UpdateDeploymentState(e, r, to)
    PROVE  IInv'
<1> DEFINE row == [Row(e, r) EXCEPT !.state = to]
<1>1. r \in Revisions(e) /\ deps' = WithRow(e, r, row)
  BY DEF UpdateDeploymentState
<1>2. Row(e, r) \in DeploymentRow /\ Consistent(Row(e, r))
  BY <1>1, Numbered DEF IInv, Revisions, Row, RowsMatchState, Consistent
<1>3. /\ ValidMove(Row(e, r).state, to)
      /\ Row(e, r).state \in Active
      /\ to \in {"starting", "healthy"} => Row(e, r).state \in Desired
  BY DEF UpdateDeploymentState, ValidMove, ValidTransitions, Active, Desired
<1>4. /\ row \in DeploymentRow
      /\ row.state = to /\ row.version = Row(e, r).version /\ row.slot = Row(e, r).slot
      /\ row.node = Row(e, r).node /\ row.inst = Row(e, r).inst
      /\ row.blind = Row(e, r).blind
  BY <1>2 DEF DeploymentRow, DeploymentState, Active, Terminal
<1>5. Consistent(row)
  BY <1>2, <1>3, <1>4 DEF Consistent, Desired
<1> HIDE DEF row
<1>6. TypeOK'
  BY <1>1, <1>4, RowReplaced, Zenon DEF IInv, TypeOK, UpdateDeploymentState, envVars, nodeVars
<1>7. live' = live /\ envState' = envState
  BY DEF UpdateDeploymentState, envVars
<1>8. row.state # "live" /\ Row(e, r).state # "live"
  BY <1>3, <1>4 DEF Active
<1>9. QED
  BY <1>1, <1>3, <1>4, <1>5, <1>6, <1>7, <1>8, RowStep

(* PlaceDeployment preserves it: the rows it writes are the ones its       *)
(* state asks for.                                                         *)
LEMMA PlaceIInv ==
    ASSUME IInv, NEW e \in Env, NEW r, NEW n \in Node, PlaceDeployment(e, r, n)
    PROVE  IInv'
<1> DEFINE v == Row(e, r).version
           inst == [s \in Service |-> IF s \in DOMAIN Spec[v] THEN "pending" ELSE "absent"]
           row == [Row(e, r) EXCEPT !.state = "scheduling", !.node = n, !.inst = inst]
<1>1. /\ r \in Revisions(e) /\ deps' = WithRow(e, r, row)
      /\ Row(e, r).state = "pending"
  BY DEF PlaceDeployment, Pending
<1>2. Row(e, r) \in DeploymentRow
  BY <1>1, Numbered DEF IInv, Revisions, Row
<1>3. inst \in [Service -> InstanceState \cup {"absent"}]
  BY DEF InstanceState
<1>4. /\ row \in DeploymentRow
      /\ row.state = "scheduling" /\ row.version = v /\ row.slot = Row(e, r).slot
      /\ row.node = n /\ row.inst = inst /\ row.blind = Row(e, r).blind
  BY <1>2, <1>3, Zenon DEF DeploymentRow, DeploymentState, Active, Terminal
<1>5. Consistent(row)
  BY <1>4, NoneAssumption DEF Consistent, Desired
<1> HIDE DEF row
<1>6. [res \in Resource |-> alloc[n][res] + Peak(v, res)] \in [Resource -> Nat]
  <2>1. v \in Version
    BY <1>2 DEF DeploymentRow
  <2>2. \A res \in Resource : Peak(v, res) \in Nat /\ alloc[n][res] \in Nat
    BY <2>1, PeakAssumption DEF IInv, TypeOK
  <2>3. QED
    BY <2>2
<1>7. TypeOK'
  <2>1. deps' \in [Env -> Seq(DeploymentRow)]
    BY <1>1, <1>4, RowReplaced DEF IInv
  <2>2. QED
    BY <1>6, <2>1, Zenon DEF IInv, TypeOK, PlaceDeployment, nodeVars
<1>8. live' = live /\ envState' = envState
  BY DEF PlaceDeployment
<1>9. QED
  BY <1>1, <1>4, <1>5, <1>7, <1>8, RowStep DEF Active

(* ReportInstance preserves it: it only touches a row that exists.         *)
LEMMA ReportIInv ==
    ASSUME IInv, NEW e \in Env, NEW r, NEW n \in Node, NEW s \in Service,
           NEW st \in Reported, NEW port \in BOOLEAN, ReportInstance(n, e, r, s, st, port)
    PROVE  IInv'
<1> DEFINE pub == IF Spec[Row(e, r).version][s].ingress THEN port ELSE Row(e, r).published
           inst == [Row(e, r).inst EXCEPT ![s] = st]
           row == [Row(e, r) EXCEPT !.inst = inst, !.published = pub]
<1>1. r \in Revisions(e) /\ Row(e, r).inst[s] # "absent"
  BY DEF ReportInstance
<1>2. Row(e, r) \in DeploymentRow /\ Consistent(Row(e, r))
  BY <1>1, Numbered DEF IInv, Revisions, Row, RowsMatchState, Consistent
<1>3. deps' = WithRow(e, r, row)
  BY <1>2 DEF ReportInstance, DeploymentRow
<1>4. inst \in [Service -> InstanceState \cup {"absent"}] /\ pub \in BOOLEAN
  BY <1>2 DEF DeploymentRow, Reported
<1>5. /\ row \in DeploymentRow
      /\ row.state = Row(e, r).state /\ row.version = Row(e, r).version
      /\ row.slot = Row(e, r).slot /\ row.node = Row(e, r).node /\ row.inst = inst
      /\ row.blind = Row(e, r).blind
  BY <1>2, <1>4, Zenon DEF DeploymentRow
<1>6. \A t \in Service : inst[t] # "absent" <=> Row(e, r).inst[t] # "absent"
  BY <1>1, <1>2 DEF DeploymentRow, Reported, InstanceState
<1> HIDE DEF row, inst
<1>7. Consistent(row)
  BY <1>2, <1>5, <1>6 DEF Consistent
<1>8. TypeOK'
  BY <1>1, <1>3, <1>5, RowReplaced DEF IInv, TypeOK, ReportInstance, envVars, nodeVars
<1>9. live' = live /\ envState' = envState
  BY DEF ReportInstance, envVars
<1>10. QED
  BY <1>1, <1>3, <1>5, <1>7, <1>8, <1>9, RowStep

(* DeleteInstances of a terminal deployment preserves it.                  *)
LEMMA DeleteIInv ==
    ASSUME IInv, NEW e \in Env, NEW r, DeleteTerminal(e, r)
    PROVE  IInv'
<1> DEFINE row == [Row(e, r) EXCEPT !.node = None, !.inst = NoInstances, !.published = FALSE]
           n == Row(e, r).node
           back == [res \in Resource |->
                      IF alloc[n][res] >= Peak(Row(e, r).version, res)
                      THEN alloc[n][res] - Peak(Row(e, r).version, res) ELSE 0]
<1>1. /\ r \in Revisions(e) /\ deps' = WithRow(e, r, row)
      /\ Row(e, r).state \in Terminal /\ n # None
      /\ alloc' = [alloc EXCEPT ![n] = back]
  BY DEF DeleteTerminal, DeleteInstances
<1>2. Row(e, r) \in DeploymentRow
  BY <1>1, Numbered DEF IInv, Revisions, Row
<1>3. /\ row \in DeploymentRow
      /\ row.state = Row(e, r).state /\ row.version = Row(e, r).version
      /\ row.slot = Row(e, r).slot /\ row.node = None /\ row.inst = NoInstances
      /\ row.blind = Row(e, r).blind
  BY <1>2, Zenon DEF DeploymentRow, NoInstances
<1>4. Consistent(row)
  BY <1>1, <1>3 DEF Consistent, Terminal, Desired, NoInstances
<1>5. back \in [Resource -> Nat]
  <2>1. n \in Node /\ Row(e, r).version \in Version
    BY <1>1, <1>2 DEF DeploymentRow
  <2>2. \A res \in Resource : alloc[n][res] \in Nat /\ Peak(Row(e, r).version, res) \in Nat
    BY <2>1, PeakAssumption DEF IInv, TypeOK
  <2>3. QED
    BY <2>2
<1> HIDE DEF row, back
<1>6. TypeOK'
  <2>1. deps' \in [Env -> Seq(DeploymentRow)]
    BY <1>1, <1>3, RowReplaced DEF IInv
  <2>2. QED
    BY <1>1, <1>5, <2>1, Zenon DEF IInv, TypeOK, DeleteTerminal, DeleteInstances, envVars, nodeVars
<1>7. live' = live /\ envState' = envState
  BY DEF DeleteTerminal, DeleteInstances, envVars
<1>8. QED
  BY <1>1, <1>3, <1>4, <1>6, <1>7, RowStep

(* A new row at the end: what CreateDeployment and CreatePreview do.  The  *)
(* environment has no other active row.                                    *)
LEMMA NewRowStep ==
    ASSUME IInv, TypeOK', NEW e \in Env, NEW row \in DeploymentRow,
           ~HasActive(e), live' = live,
           deps' = [deps EXCEPT ![e] = Append(deps[e], row)],
           envState'[e] = "present",
           \A f \in Env \ {e} : envState'[f] = envState[f],
           row.state = "pending", Consistent(row),
           ~row.blind /\ live[e] # 0
             => /\ row.slot # Row(e, live[e]).slot
                /\ PinnedKept(Row(e, live[e]).version, row.version)
    PROVE  IInv'
<1> DEFINE k == Len(deps[e]) + 1
<1>1. /\ Len(deps[e]) \in Nat /\ DOMAIN deps[e] = 1..Len(deps[e])
      /\ deps[e] \in Seq(DeploymentRow)
  BY Numbered DEF IInv, TypeOK
<1>2. /\ deps'[e] = Append(deps[e], row)
      /\ \A f \in Env \ {e} : deps'[f] = deps[f]
  BY DEF IInv, TypeOK
<1>3. /\ Len(deps'[e]) = k
      /\ deps'[e][k] = row
      /\ \A q \in DOMAIN deps[e] : deps'[e][q] = deps[e][q]
  BY <1>1, <1>2, AppendProperties
<1>4. DOMAIN deps'[e] = 1..k
  BY <1>3, Numbered, LenProperties DEF TypeOK
<1>5. k \in Nat /\ k # 0 /\ k \notin DOMAIN deps[e] /\ 1..k = DOMAIN deps[e] \cup {k}
  BY <1>1
<1> HIDE DEF k
<1>6. live[e] \in DOMAIN deps[e] \cup {0}
  BY DEF IInv, LivePointer, Revisions
<1>7. LivePointer'
  BY <1>2, <1>3, <1>4, <1>5, <1>6 DEF IInv, LivePointer, Revisions, Row
<1>8. ActiveIsNewest'
  BY <1>2, <1>3, <1>4, <1>5 DEF IInv, ActiveIsNewest, HasActive, Revisions, Row
<1>9. RolloutFitsLive'
  <2> SUFFICES ASSUME NEW f \in Env, NEW q \in DOMAIN deps'[f],
                      deps'[f][q].state \in Active, ~deps'[f][q].blind, live'[f] # 0
               PROVE  /\ deps'[f][q].slot # deps'[f][live'[f]].slot
                      /\ PinnedKept(deps'[f][live'[f]].version, deps'[f][q].version)
    BY FitsLiveNext, Zenon
  <2>1. CASE f # e
    BY <1>2, <2>1 DEF IInv, RolloutFitsLive, Revisions, Row
  <2>2. CASE f = e
    <3>1. q = k
      BY <1>3, <1>4, <1>5, <2>2 DEF HasActive, Revisions, Row
    <3>2. deps'[e][live[e]] = deps[e][live[e]]
      BY <1>3, <1>6, <2>2
    <3>3. QED
      BY <1>3, <2>2, <3>1, <3>2, Zenon DEF Row
  <2>3. QED
    BY <2>1, <2>2, Zenon
<1>10. RowsMatchState'
  BY <1>2, <1>3, <1>4, <1>5 DEF IInv, RowsMatchState, Revisions, Row, Consistent
<1>11. RowsOnlyPresent'
  BY <1>2 DEF IInv, RowsOnlyPresent
<1>12. QED
  BY <1>7, <1>8, <1>9, <1>10, <1>11 DEF IInv

(* The row createDeploymentTx inserts, whichever live revision it joined.  *)
LEMMA NewRowType ==
    ASSUME IInv, NEW e \in Env, NEW v \in Version, NEW joined \in JoinedLive(e)
    PROVE  /\ NewRow(e, v, joined) \in DeploymentRow
           /\ NewRow(e, v, joined).state = "pending" /\ NewRow(e, v, joined).version = v
           /\ Consistent(NewRow(e, v, joined))
           /\ NewRow(e, v, joined).blind <=> joined # live[e]
           /\ joined # 0 => NewRow(e, v, joined).slot # Row(e, joined).slot
<1>1. NewRow(e, v, joined) \in DeploymentRow
  BY DEF NewRow, DeploymentRow, DeploymentState, Active, NoInstances
<1>2. Consistent(NewRow(e, v, joined))
  BY DEF NewRow, Consistent, Desired, NoInstances
<1>3. joined # 0 => NewRow(e, v, joined).slot # Row(e, joined).slot
  BY DEF NewRow, Row
<1>4. QED
  BY <1>1, <1>2, <1>3 DEF NewRow

(* createDeploymentTx preserves it: the new row is newest and was          *)
(* compared with the live one, or is marked as not compared.               *)
LEMMA CreateIInv ==
    ASSUME IInv, NEW e \in Env, NEW v \in Version, CreateDeployment(e, v)
    PROVE  IInv'
<1>1. /\ envState[e] = "present" /\ envState' = envState /\ live' = live
      /\ ~HasActive(e)
  BY DEF CreateDeployment, envVars
<1>2. PICK joined \in JoinedLive(e) :
         /\ joined # 0 => PinnedKept(deps[e][joined].version, v)
         /\ deps' = [deps EXCEPT ![e] = Append(deps[e], NewRow(e, v, joined))]
  BY DEF CreateDeployment
<1> DEFINE row == NewRow(e, v, joined)
<1>3. /\ row \in DeploymentRow /\ row.state = "pending" /\ row.version = v /\ Consistent(row)
      /\ row.blind <=> joined # live[e]
      /\ joined # 0 => row.slot # Row(e, joined).slot
  BY NewRowType
<1> HIDE DEF row
<1>4. deps' = [deps EXCEPT ![e] = Append(deps[e], row)]
  BY <1>2 DEF row
<1>5. Append(deps[e], row) \in Seq(DeploymentRow)
  BY <1>3, AppendProperties DEF IInv, TypeOK
<1>6. TypeOK'
  BY <1>1, <1>4, <1>5 DEF IInv, TypeOK, CreateDeployment, envVars, nodeVars
<1>7. ~row.blind /\ live[e] # 0 => /\ row.slot # Row(e, live[e]).slot
                                  /\ PinnedKept(Row(e, live[e]).version, row.version)
  BY <1>2, <1>3, Zenon DEF Row
<1>8. QED
  BY <1>1, <1>3, <1>4, <1>6, <1>7, NewRowStep, Zenon

(* CreatePreview preserves it: the environment starts with one pending     *)
(* row.                                                                    *)
LEMMA CreatePreviewIInv ==
    ASSUME IInv, NEW e \in Env, NEW v \in Version, CreatePreview(e, v)
    PROVE  IInv'
<1> DEFINE row == NewRow(e, v, 0)
<1>1. /\ deps' = [deps EXCEPT ![e] = << row >>]
      /\ envState[e] = "new" /\ live' = live
      /\ envState' = [envState EXCEPT ![e] = "present"]
  BY DEF CreatePreview
<1>2. deps[e] = << >>
  BY <1>1 DEF IInv, RowsOnlyPresent
<1>3. ~HasActive(e) /\ live[e] = 0
  BY <1>2 DEF HasActive, Revisions, IInv, LivePointer
<1>4. row \in DeploymentRow /\ row.state = "pending" /\ Consistent(row)
  <2>1. 0 \in JoinedLive(e)
    BY DEF JoinedLive
  <2>2. QED
    BY <2>1, NewRowType
<1> HIDE DEF row
<1>5. << row >> = Append(deps[e], row) /\ << row >> \in Seq(DeploymentRow)
  BY <1>2, <1>4
<1>6. TypeOK'
  BY <1>1, <1>5 DEF IInv, TypeOK, CreatePreview, nodeVars
<1>7. envState'[e] = "present" /\ \A f \in Env \ {e} : envState'[f] = envState[f]
  BY <1>1 DEF IInv, TypeOK
<1>8. QED
  BY <1>1, <1>3, <1>4, <1>5, <1>6, <1>7, NewRowStep, Zenon

(* Two rows that differ at most in their state and their port.             *)
SameBut(new, old) ==
    /\ new.version = old.version /\ new.slot = old.slot
    /\ new.node = old.node /\ new.inst = old.inst /\ new.blind = old.blind

(* Changing a row's state changes nothing else of it.                      *)
LEMMA StateOnly ==
    ASSUME NEW row \in DeploymentRow, NEW st
    PROVE  SameBut([row EXCEPT !.state = st], row)
BY DEF DeploymentRow, SameBut

(* What PromoteDeployment does to the rows: the promoted revision was the  *)
(* environment's newest, it becomes live, the live one becomes superseded, *)
(* and nothing but these two states changes.                               *)
LEMMA Promotion ==
    ASSUME IInv, NEW e \in Env, NEW r, PromoteDeployment(e, r)
    PROVE  /\ r \in DOMAIN deps[e] /\ r = Len(deps[e]) /\ r > live[e]
           /\ deps[e][r].state = "healthy"
           /\ live' = [live EXCEPT ![e] = r] /\ envState' = envState
           /\ \A f \in Env \ {e} : deps'[f] = deps[f]
           /\ DOMAIN deps'[e] = DOMAIN deps[e] /\ Len(deps'[e]) = Len(deps[e])
           /\ deps'[e] \in Seq(DeploymentRow)
           /\ \A q \in DOMAIN deps[e] :
                 /\ SameBut(deps'[e][q], deps[e][q])
                 /\ deps'[e][q].state = IF q = r THEN "live"
                                        ELSE IF q = live[e] THEN "superseded"
                                        ELSE deps[e][q].state
<1> DEFINE rows == [q \in DOMAIN deps[e] |->
                      IF q = r THEN [deps[e][q] EXCEPT !.state = "live"]
                      ELSE IF q = live[e] /\ deps[e][q].state = "live"
                           THEN [deps[e][q] EXCEPT !.state = "superseded"]
                           ELSE deps[e][q]]
<1>1. /\ r \in DOMAIN deps[e] /\ deps[e][r].state = "healthy"
      /\ deps' = [deps EXCEPT ![e] = rows]
      /\ live' = [live EXCEPT ![e] = r] /\ envState' = envState
  BY DEF PromoteDeployment, Revisions, Row
<1>2. /\ Len(deps[e]) \in Nat /\ DOMAIN deps[e] = 1..Len(deps[e])
      /\ \A q \in DOMAIN deps[e] : deps[e][q] \in DeploymentRow
  BY Numbered DEF IInv
<1>3. r = Len(deps[e])
  BY <1>1 DEF IInv, ActiveIsNewest, Revisions, Row, Active
<1>4. live[e] \in DOMAIN deps[e] => deps[e][live[e]].state = "live"
  BY DEF IInv, LivePointer, Revisions, Row
<1>5. r > live[e]
  <2>1. live[e] \in DOMAIN deps[e] \cup {0} /\ live[e] # r
    BY <1>1, <1>4 DEF IInv, LivePointer, Revisions
  <2>2. QED
    BY <1>2, <1>3, <1>1, <2>1
<1>6. \A q \in DOMAIN deps[e] :
         /\ rows[q] \in DeploymentRow
         /\ SameBut(rows[q], deps[e][q])
         /\ rows[q].state = IF q = r THEN "live"
                            ELSE IF q = live[e] THEN "superseded" ELSE deps[e][q].state
  <2> SUFFICES ASSUME NEW q \in DOMAIN deps[e]
               PROVE  /\ rows[q] \in DeploymentRow
                      /\ SameBut(rows[q], deps[e][q])
                      /\ rows[q].state = IF q = r THEN "live"
                                         ELSE IF q = live[e] THEN "superseded"
                                         ELSE deps[e][q].state
    OBVIOUS
  <2>1. deps[e][q] \in DeploymentRow
    BY <1>2
  <2>2. rows[q] = [deps[e][q] EXCEPT !.state =
                     IF q = r THEN "live" ELSE IF q = live[e] THEN "superseded"
                     ELSE deps[e][q].state]
    BY <1>4, <2>1 DEF DeploymentRow
  <2> HIDE DEF rows
  <2>3. SameBut(rows[q], deps[e][q])
    BY <2>1, <2>2, StateOnly
  <2>4. QED
    BY <2>1, <2>2, <2>3 DEF DeploymentRow, DeploymentState, Active, Terminal
<1>7. rows \in Seq(DeploymentRow) /\ Len(rows) = Len(deps[e])
  <2>1. rows \in [1..Len(deps[e]) -> DeploymentRow]
    BY <1>2, <1>6, Zenon
  <2> HIDE DEF rows
  <2>2. QED
    BY <1>2, <2>1, SeqDef, LenProperties
<1>8. DOMAIN rows = DOMAIN deps[e]
  OBVIOUS
<1> HIDE DEF rows
<1>9. deps'[e] = rows /\ \A f \in Env \ {e} : deps'[f] = deps[f]
  BY <1>1 DEF IInv, TypeOK
<1>10. QED
  BY <1>1, <1>3, <1>5, <1>6, <1>7, <1>8, <1>9

(* PromoteDeployment preserves it: no active row is left beside the new    *)
(* live one.                                                               *)
LEMMA PromoteIInv ==
    ASSUME IInv, NEW e \in Env, NEW r, PromoteDeployment(e, r)
    PROVE  IInv'
<1>1. /\ r \in DOMAIN deps[e] /\ r = Len(deps[e]) /\ r > live[e]
      /\ deps[e][r].state = "healthy"
      /\ live' = [live EXCEPT ![e] = r] /\ envState' = envState
      /\ \A f \in Env \ {e} : deps'[f] = deps[f]
      /\ DOMAIN deps'[e] = DOMAIN deps[e] /\ Len(deps'[e]) = Len(deps[e])
      /\ deps'[e] \in Seq(DeploymentRow)
  BY Promotion
<1>2. \A q \in DOMAIN deps[e] :
         /\ deps[e][q] \in DeploymentRow
         /\ SameBut(deps'[e][q], deps[e][q])
         /\ deps'[e][q].state = IF q = r THEN "live" ELSE IF q = live[e] THEN "superseded"
                                ELSE deps[e][q].state
  BY Promotion, Numbered DEF IInv
<1>3. \A q \in DOMAIN deps[e] : /\ deps'[e][q].version = deps[e][q].version
                               /\ deps'[e][q].slot = deps[e][q].slot
                               /\ deps'[e][q].node = deps[e][q].node
                               /\ deps'[e][q].inst = deps[e][q].inst
  BY <1>2 DEF SameBut
<1>4. live'[e] = r /\ r \in Nat /\ \A f \in Env \ {e} : live'[f] = live[f]
  BY <1>1, Numbered DEF IInv, TypeOK
<1>5. deps' = [deps EXCEPT ![e] = deps'[e]]
  BY DEF PromoteDeployment, IInv, TypeOK
<1>6. TypeOK'
  <2>1. deps' \in [Env -> Seq(DeploymentRow)]
    BY <1>1, <1>5, Zenon DEF IInv, TypeOK
  <2>2. QED
    BY <1>1, <1>4, <2>1 DEF IInv, TypeOK, PromoteDeployment, nodeVars
<1>7. LivePointer'
  <2>1. \A q \in DOMAIN deps[e] : deps'[e][q].state = "live" <=> q = r
    <3>1. \A q \in DOMAIN deps[e] : deps[e][q].state = "live" <=> q = live[e]
      BY DEF IInv, LivePointer, Revisions, Row
    <3>2. \A q \in DOMAIN deps[e] :
             deps'[e][q].state = IF q = r THEN "live" ELSE IF q = live[e] THEN "superseded"
                                 ELSE deps[e][q].state
      BY <1>2
    <3>3. QED
      BY <3>1, <3>2
  <2>2. QED
    BY <1>1, <1>4, <2>1 DEF IInv, LivePointer, Revisions, Row
<1>8. \A q \in DOMAIN deps'[e] : deps'[e][q].state \notin Active
  BY <1>1, <1>2 DEF IInv, ActiveIsNewest, Revisions, Row, Active
<1>9. ActiveIsNewest'
  BY <1>1, <1>8 DEF IInv, ActiveIsNewest, Revisions, Row
<1>10. RolloutFitsLive'
  <2> SUFFICES ASSUME NEW f \in Env, NEW q \in DOMAIN deps'[f],
                      deps'[f][q].state \in Active, ~deps'[f][q].blind, live'[f] # 0
               PROVE  /\ deps'[f][q].slot # deps'[f][live'[f]].slot
                      /\ PinnedKept(deps'[f][live'[f]].version, deps'[f][q].version)
    BY FitsLiveNext
  <2>1. f # e
    BY <1>8
  <2>2. QED
    BY <1>1, <1>4, <2>1 DEF IInv, RolloutFitsLive, Revisions, Row
<1>11. RowsMatchState'
  <2> SUFFICES ASSUME NEW q \in DOMAIN deps[e] PROVE Consistent(deps'[e][q])
    BY <1>1 DEF IInv, RowsMatchState, Revisions, Row, Consistent
  <2>1. Consistent(deps[e][q])
    BY DEF IInv, RowsMatchState, Revisions, Row, Consistent
  <2>2. deps'[e][q].state \in Desired => deps[e][q].state \in Desired
    BY <1>1, <1>2 DEF Desired
  <2>3. deps'[e][q].state = "pending" => deps[e][q].state = "pending"
    BY <1>2
  <2>4. QED
    BY <1>3, <2>1, <2>2, <2>3 DEF Consistent
<1>12. RowsOnlyPresent'
  <2>1. envState[e] = "present"
    BY <1>1, EmptySeq DEF IInv, RowsOnlyPresent
  <2>2. QED
    BY <1>1, <2>1 DEF IInv, RowsOnlyPresent
<1>13. QED
  BY <1>6, <1>7, <1>9, <1>10, <1>11, <1>12 DEF IInv

(* Releasing a home, creating, expiring and sweeping previews preserve     *)
(* it.                                                                     *)
LEMMA EnvironmentStepIInv == IInv /\ EnvironmentStep => IInv'
<1> SUFFICES ASSUME IInv, EnvironmentStep PROVE IInv'
  OBVIOUS
<1>1. ASSUME NEW e \in Env, ReleaseEnvironmentHome(e) PROVE IInv'
  <2>1. TypeOK'
    BY <1>1 DEF IInv, TypeOK, ReleaseEnvironmentHome, nodeVars
  <2>2. QED
    BY <1>1, <2>1, SameRows DEF ReleaseEnvironmentHome
<1>2. ASSUME NEW e \in Env, NEW v \in Version, CreatePreview(e, v) PROVE IInv'
  BY <1>2, CreatePreviewIInv
<1>3. ASSUME NEW expired \in SUBSET Preview, ExpireEnvironments(expired) PROVE IInv'
  <2>1. << >> \in Seq(DeploymentRow) /\ Len(<< >>) = 0
    OBVIOUS
  <2>2. deps' \in [Env -> Seq(DeploymentRow)]
    BY <1>3, <2>1 DEF IInv, TypeOK, ExpireEnvironments
  <2>3. TypeOK'
    BY <1>3, <2>2, PreviewAssumption DEF IInv, TypeOK, ExpireEnvironments, nodeVars
  <2>4. \A e \in expired : /\ DOMAIN deps'[e] = {} /\ deps'[e] = << >>
                            /\ live'[e] = 0 /\ e \in Env
    BY <1>3, PreviewAssumption DEF ExpireEnvironments
  <2>5. \A e \in Env \ expired : /\ deps'[e] = deps[e] /\ live'[e] = live[e]
                                  /\ envState'[e] = envState[e]
    BY <1>3 DEF ExpireEnvironments
  <2>6. LivePointer' /\ ActiveIsNewest' /\ RowsMatchState' /\ RowsOnlyPresent'
    <3>1. LivePointer'
      BY <2>4, <2>5 DEF IInv, LivePointer, Revisions, Row
    <3>2. ActiveIsNewest'
      BY <2>4, <2>5 DEF IInv, ActiveIsNewest, Revisions, Row
    <3>3. RowsMatchState'
      BY <2>4, <2>5 DEF IInv, RowsMatchState, Revisions, Row
    <3>4. RowsOnlyPresent'
      BY <2>4, <2>5 DEF IInv, RowsOnlyPresent
    <3>5. QED
      BY <3>1, <3>2, <3>3, <3>4
  <2>7. RolloutFitsLive'
    <3> SUFFICES ASSUME NEW f \in Env, NEW q \in DOMAIN deps'[f],
                        deps'[f][q].state \in Active, ~deps'[f][q].blind, live'[f] # 0
                 PROVE  /\ deps'[f][q].slot # deps'[f][live'[f]].slot
                        /\ PinnedKept(deps'[f][live'[f]].version, deps'[f][q].version)
      BY FitsLiveNext
    <3>1. f \notin expired
      BY <2>4
    <3>2. QED
      BY <2>5, <3>1 DEF IInv, RolloutFitsLive, Revisions, Row
  <2>8. QED
    BY <2>3, <2>6, <2>7 DEF IInv
<1>4. ASSUME NEW old \in SUBSET tombstones, SweepTombstones(old) PROVE IInv'
  <2>1. TypeOK'
    BY <1>4 DEF IInv, TypeOK, SweepTombstones, nodeVars
  <2>2. QED
    BY <1>4, <2>1, SameRows DEF SweepTombstones
<1>5. QED
  BY <1>1, <1>2, <1>3, <1>4 DEF EnvironmentStep

(* Every transaction preserves the inductive invariant.                    *)
LEMMA NextIInv == IInv /\ [Next]_storeVars => IInv'
<1> SUFFICES ASSUME IInv, [Next]_storeVars PROVE IInv'
  OBVIOUS
<1>1. CASE UNCHANGED storeVars
  <2>1. TypeOK'
    BY <1>1 DEF IInv, TypeOK, storeVars
  <2>2. QED
    BY <1>1, <2>1, SameRows DEF storeVars
<1>2. CASE NodeStep
  BY <1>2, NodeStepIInv
<1>3. CASE EnvironmentStep
  BY <1>3, EnvironmentStepIInv
<1>4. ASSUME NEW e \in Env, DeploymentStep(e) PROVE IInv'
  BY <1>4, CreateIInv, UpdateIInv, PromoteIInv, DeleteIInv, PlaceIInv, ReportIInv
     DEF DeploymentStep
<1>5. QED
  BY <1>1, <1>2, <1>3, <1>4 DEF Next

(* The inductive invariant holds in every state of the store, whoever      *)
(* calls its methods and in whatever order.                                *)
THEOREM Invariance == StoreSpec => []IInv
<1>1. QED
  BY InitIInv, NextIInv, PTL DEF StoreSpec

(* The rows of internal/store keep their types.                            *)
THEOREM TypeCorrect == StoreSpec => []TypeOK
<1>1. IInv => TypeOK
  BY DEF IInv
<1>2. QED
  BY <1>1, Invariance, PTL

(* PromoteDeployment keeps the live pointer and the live state in step.    *)
THEOREM LivePointerCorrect == StoreSpec => []LivePointer
<1>1. IInv => LivePointer
  BY DEF IInv
<1>2. QED
  BY <1>1, Invariance, PTL

(* A rollout in progress is its environment's newest revision.             *)
THEOREM OneRollout == StoreSpec => []ActiveIsNewest
<1>1. IInv => ActiveIsNewest
  BY DEF IInv
<1>2. QED
  BY <1>1, Invariance, PTL

(* What createDeploymentTx checked against the live revision it saw stays  *)
(* true until the rollout ends, when no promotion overtook the look.       *)
THEOREM DriftCheckLasts == StoreSpec => []RolloutFitsLive
<1>1. IInv => RolloutFitsLive
  BY DEF IInv
<1>2. QED
  BY <1>1, Invariance, PTL

(* Instance rows follow the deployment's state.                            *)
THEOREM RowsFollowState == StoreSpec => []RowsMatchState
<1>1. IInv => RowsMatchState
  BY DEF IInv
<1>2. QED
  BY <1>1, Invariance, PTL

----------------------------------------------------------------------------
(* Only a promotion moves a live pointer anywhere but to NULL.             *)
LEMMA LiveMoves ==
    ASSUME IInv, [Next]_storeVars, NEW e \in Env, live'[e] \notin {live[e], 0}
    PROVE  \E r \in 1..MaxRevision : PromoteDeployment(e, r)
<1>1. CASE UNCHANGED storeVars
  BY <1>1 DEF storeVars
<1>2. CASE NodeStep
  BY <1>2 DEF NodeStep, MarkStaleNodesUnreachable, RegisterNode, Heartbeat, HeartbeatAges,
              DrainNode, UncordonNode, envVars
<1>3. CASE EnvironmentStep
  BY <1>3 DEF EnvironmentStep, ReleaseEnvironmentHome, CreatePreview, ExpireEnvironments,
              SweepTombstones
<1>4. ASSUME NEW f \in Env, DeploymentStep(f)
      PROVE  \E r \in 1..MaxRevision : PromoteDeployment(e, r)
  <2>1. CASE \E r \in 1..MaxRevision : PromoteDeployment(f, r)
    <3>1. PICK r \in 1..MaxRevision : PromoteDeployment(f, r)
      BY <2>1
    <3>2. live' = [live EXCEPT ![f] = r]
      BY <3>1 DEF PromoteDeployment
    <3>3. e = f
      BY <3>2 DEF IInv, TypeOK
    <3>4. QED
      BY <3>1, <3>3
  <2>2. CASE ~ \E r \in 1..MaxRevision : PromoteDeployment(f, r)
    BY <1>4, <2>2, Zenon DEF DeploymentStep, CreateDeployment, UpdateDeploymentState,
         DeleteTerminal, DeleteInstances, PlaceDeployment, ReportInstance, envVars
  <2>3. QED
    BY <2>1, <2>2
<1>5. QED
  BY <1>1, <1>2, <1>3, <1>4 DEF Next

(* Traffic only moves to newer revisions, and to one that keeps the pinned *)
(* services unless a promotion overtook its create's look at what is live. *)
THEOREM LiveOnlyAdvances == StoreSpec => LiveAdvances
<1> DEFINE Advance(e) == live'[e] \notin {live[e], 0}
                            => /\ live'[e] > live[e]
                               /\ live[e] # 0 /\ ~deps'[e][live'[e]].blind
                                    => PinnedKept(deps[e][live[e]].version,
                                                  deps'[e][live'[e]].version)
<1>1. ASSUME IInv, [Next]_storeVars, NEW e \in Env, live'[e] \notin {live[e], 0}
      PROVE  /\ live'[e] > live[e]
             /\ live[e] # 0 /\ ~deps'[e][live'[e]].blind
                  => PinnedKept(deps[e][live[e]].version, deps'[e][live'[e]].version)
  <2>1. PICK r \in 1..MaxRevision : PromoteDeployment(e, r)
    BY <1>1, LiveMoves
  <2>2. /\ r \in DOMAIN deps[e] /\ r > live[e] /\ deps[e][r].state = "healthy"
        /\ live' = [live EXCEPT ![e] = r] /\ SameBut(deps'[e][r], deps[e][r])
    BY <1>1, <2>1, Promotion
  <2>3. live'[e] = r
    BY <1>1, <2>2 DEF IInv, TypeOK
  <2>4. live[e] # 0 /\ ~deps[e][r].blind
          => PinnedKept(deps[e][live[e]].version, deps[e][r].version)
    BY <1>1, <2>2 DEF IInv, RolloutFitsLive, Revisions, Row, Active
  <2>5. QED
    BY <2>2, <2>3, <2>4 DEF SameBut
<1>2. IInv /\ [Next]_storeVars => [\A e \in Env : Advance(e)]_storeVars
  BY <1>1
<1>3. QED
  BY <1>2, Invariance, PTL DEF StoreSpec, LiveAdvances

(* What AppendOnly asks of one step and one environment.                   *)
Kept(e) ==
    \A r \in DOMAIN deps[e] :
       /\ r \in DOMAIN deps'[e]
       /\ deps'[e][r].version = deps[e][r].version
       /\ deps'[e][r].slot = deps[e][r].slot
       /\ \/ deps'[e][r].state = deps[e][r].state
          \/ ValidMove(deps[e][r].state, deps'[e][r].state)

(* What one transaction may do to a deployment row of an environment that  *)
(* stays.                                                                  *)
LEMMA RowKept ==
    ASSUME IInv, NEW e \in Env, NEW r \in Revisions(e), NEW row \in DeploymentRow,
           deps' = WithRow(e, r, row),
           row.version = Row(e, r).version, row.slot = Row(e, r).slot,
           \/ row.state = Row(e, r).state
           \/ ValidMove(Row(e, r).state, row.state),
           NEW f \in Env
    PROVE  Kept(f)
BY RowReplaced DEF Kept, IInv, Revisions, Row

(* Append leaves the elements it finds where they are, as the INSERT of    *)
(* createDeploymentTx leaves the rows.                                     *)
LEMMA AppendedRow ==
    ASSUME NEW S, NEW s \in Seq(S), NEW x \in S
    PROVE  /\ DOMAIN Append(s, x) = 1..Len(s) + 1
           /\ \A i \in 1..Len(s) : Append(s, x)[i] = s[i]
<1>1. /\ Append(s, x) \in Seq(S) /\ Len(Append(s, x)) = Len(s) + 1
      /\ \A i \in 1..Len(s) : Append(s, x)[i] = s[i]
  BY AppendProperties
<1>2. DOMAIN Append(s, x) = 1..Len(Append(s, x))
  BY <1>1, LenProperties
<1>3. QED
  BY <1>1, <1>2

(* The same for the deployment methods, action by action.                  *)
LEMMA DeploymentsKept ==
    ASSUME IInv, NEW e \in Env, DeploymentStep(e), NEW f \in Env
    PROVE  Kept(f)
<1> USE DEF IInv
<1>1. ASSUME NEW v \in Version, CreateDeployment(e, v) PROVE Kept(f)
  <2>1. PICK row \in DeploymentRow : deps' = [deps EXCEPT ![e] = Append(deps[e], row)]
    BY <1>1, NewRowType, Zenon DEF CreateDeployment
  <2>2. CASE f # e
    BY <2>1, <2>2 DEF TypeOK, Kept
  <2>3. CASE f = e
    <3>1. deps'[e] = Append(deps[e], row)
      BY <2>1 DEF TypeOK
    <3>2. /\ deps[e] \in Seq(DeploymentRow)
          /\ Len(deps[e]) \in Nat /\ DOMAIN deps[e] = 1..Len(deps[e])
      BY Numbered DEF TypeOK
    <3>3. /\ DOMAIN deps'[e] = 1..Len(deps[e]) + 1
          /\ \A r \in DOMAIN deps[e] : deps'[e][r] = deps[e][r]
      <4>1. /\ DOMAIN Append(deps[e], row) = 1..Len(deps[e]) + 1
            /\ \A r \in 1..Len(deps[e]) : Append(deps[e], row)[r] = deps[e][r]
        BY <3>2, AppendedRow
      <4>2. QED
        BY <3>1, <3>2, <4>1
    <3>4. QED
      BY <2>3, <3>2, <3>3 DEF Kept
  <2>4. QED
    BY <2>2, <2>3
<1>2. ASSUME NEW r \in 1..MaxRevision, NEW to \in {"starting", "healthy", "failed"},
             UpdateDeploymentState(e, r, to)
      PROVE  Kept(f)
  <2> DEFINE row == [Row(e, r) EXCEPT !.state = to]
  <2>1. /\ r \in Revisions(e) /\ deps' = WithRow(e, r, row)
        /\ ValidMove(Row(e, r).state, to)
    BY <1>2 DEF UpdateDeploymentState
  <2>2. Row(e, r) \in DeploymentRow
    BY <2>1, Numbered DEF Revisions, Row
  <2>3. /\ row \in DeploymentRow /\ row.state = to
        /\ row.version = Row(e, r).version /\ row.slot = Row(e, r).slot
    BY <2>2 DEF DeploymentRow, DeploymentState, Active, Terminal
  <2> HIDE DEF row
  <2>4. QED
    BY <2>1, <2>3, RowKept
<1>3. ASSUME NEW r \in 1..MaxRevision, PromoteDeployment(e, r) PROVE Kept(f)
  <2>1. CASE f # e
    BY <1>3, <2>1, Promotion DEF Kept
  <2>2. CASE f = e
    <3>1. /\ r \in DOMAIN deps[e] /\ deps[e][r].state = "healthy"
          /\ DOMAIN deps'[e] = DOMAIN deps[e]
          /\ \A q \in DOMAIN deps[e] :
                /\ SameBut(deps'[e][q], deps[e][q])
                /\ deps'[e][q].state = IF q = r THEN "live"
                                       ELSE IF q = live[e] THEN "superseded"
                                       ELSE deps[e][q].state
      BY <1>3, Promotion
    <3>2. live[e] \in DOMAIN deps[e] => deps[e][live[e]].state = "live"
      BY DEF LivePointer, Revisions, Row
    <3>3. ValidMove("healthy", "live") /\ ValidMove("live", "superseded")
      BY DEF ValidMove, ValidTransitions
    <3>4. QED
      BY <2>2, <3>1, <3>2, <3>3 DEF Kept, SameBut
  <2>3. QED
    BY <2>1, <2>2
<1>4. ASSUME NEW r \in 1..MaxRevision, DeleteTerminal(e, r) PROVE Kept(f)
  <2> DEFINE row == [Row(e, r) EXCEPT !.node = None, !.inst = NoInstances,
                                      !.published = FALSE]
  <2>1. r \in Revisions(e) /\ deps' = WithRow(e, r, row)
    BY <1>4 DEF DeleteTerminal, DeleteInstances
  <2>2. Row(e, r) \in DeploymentRow
    BY <2>1, Numbered DEF Revisions, Row
  <2>3. /\ row \in DeploymentRow /\ row.state = Row(e, r).state
        /\ row.version = Row(e, r).version /\ row.slot = Row(e, r).slot
    BY <2>2, Zenon DEF DeploymentRow, NoInstances
  <2> HIDE DEF row
  <2>4. QED
    BY <2>1, <2>3, RowKept
<1>5. ASSUME NEW r \in 1..MaxRevision, NEW n \in Node, PlaceDeployment(e, r, n)
      PROVE  Kept(f)
  <2> DEFINE inst == [s \in Service |-> IF s \in DOMAIN Spec[Row(e, r).version]
                                        THEN "pending" ELSE "absent"]
             row == [Row(e, r) EXCEPT !.state = "scheduling", !.node = n, !.inst = inst]
  <2>1. /\ r \in Revisions(e) /\ deps' = WithRow(e, r, row)
        /\ Row(e, r).state = "pending"
    BY <1>5 DEF PlaceDeployment, Pending
  <2>2. Row(e, r) \in DeploymentRow
    BY <2>1, Numbered DEF Revisions, Row
  <2>3. /\ row \in DeploymentRow /\ row.state = "scheduling"
        /\ row.version = Row(e, r).version /\ row.slot = Row(e, r).slot
    BY <2>2, Zenon DEF DeploymentRow, DeploymentState, Active, Terminal, InstanceState
  <2> HIDE DEF row
  <2>4. ValidMove(Row(e, r).state, row.state)
    BY <2>1, <2>3 DEF ValidMove, ValidTransitions
  <2>5. QED
    BY <2>1, <2>3, <2>4, RowKept
<1>6. ASSUME NEW r \in 1..MaxRevision, NEW n \in Node, NEW s \in Service,
             NEW st \in Reported, NEW port \in BOOLEAN, ReportInstance(n, e, r, s, st, port)
      PROVE  Kept(f)
  <2> DEFINE pub == IF Spec[Row(e, r).version][s].ingress THEN port ELSE Row(e, r).published
             inst == [Row(e, r).inst EXCEPT ![s] = st]
             row == [Row(e, r) EXCEPT !.inst = inst, !.published = pub]
  <2>1. r \in Revisions(e)
    BY <1>6 DEF ReportInstance
  <2>2. Row(e, r) \in DeploymentRow
    BY <2>1, Numbered DEF Revisions, Row
  <2>3. deps' = WithRow(e, r, row)
    BY <1>6, <2>2 DEF ReportInstance, DeploymentRow
  <2>4. inst \in [Service -> InstanceState \cup {"absent"}] /\ pub \in BOOLEAN
    BY <2>2 DEF DeploymentRow, Reported
  <2>5. /\ row \in DeploymentRow /\ row.state = Row(e, r).state
        /\ row.version = Row(e, r).version /\ row.slot = Row(e, r).slot
    BY <2>2, <2>4, Zenon DEF DeploymentRow
  <2> HIDE DEF row, inst, pub
  <2>6. QED
    BY <2>1, <2>3, <2>5, RowKept
<1>7. QED
  BY <1>1, <1>2, <1>3, <1>4, <1>5, <1>6 DEF DeploymentStep

(* No transaction touches the rows of an environment that stays, but as    *)
(* Kept says.                                                              *)
LEMMA RowsKept ==
    ASSUME IInv, [Next]_storeVars, NEW e \in Env, envState'[e] = "present"
    PROVE  Kept(e)
<1>1. CASE deps' = deps
  BY <1>1 DEF Kept
<1>2. CASE NodeStep
  BY <1>1, <1>2 DEF NodeStep, MarkStaleNodesUnreachable, RegisterNode, Heartbeat,
                    HeartbeatAges, DrainNode, UncordonNode
<1>3. CASE EnvironmentStep
  <2>1. ASSUME NEW f \in Env, NEW v \in Version, CreatePreview(f, v) PROVE Kept(e)
    <3>1. deps[f] = << >> /\ deps' = [deps EXCEPT ![f] = << NewRow(f, v, 0) >>]
      BY <2>1 DEF CreatePreview, IInv, RowsOnlyPresent
    <3>2. QED
      BY <3>1 DEF Kept, IInv, TypeOK
  <2>2. ASSUME NEW expired \in SUBSET Preview, ExpireEnvironments(expired) PROVE Kept(e)
    <3>1. e \notin expired
      BY <2>2 DEF ExpireEnvironments
    <3>2. deps'[e] = deps[e]
      BY <2>2, <3>1 DEF ExpireEnvironments
    <3>3. QED
      BY <3>2 DEF Kept
  <2>3. QED
    BY <1>1, <1>3, <2>1, <2>2, Zenon DEF EnvironmentStep, ReleaseEnvironmentHome, SweepTombstones
<1>4. ASSUME NEW f \in Env, DeploymentStep(f) PROVE Kept(e)
  BY <1>4, DeploymentsKept
<1>5. QED
  BY <1>1, <1>2, <1>3, <1>4 DEF Next, storeVars

(* The deployments table is append-only and follows validTransitions.      *)
THEOREM TableAppendOnly == StoreSpec => AppendOnly
<1> DEFINE Keeps(e) == envState'[e] = "present" =>
                         \A r \in Revisions(e) :
                           /\ r \in DOMAIN deps'[e]
                           /\ deps'[e][r].version = Row(e, r).version
                           /\ deps'[e][r].slot = Row(e, r).slot
                           /\ \/ deps'[e][r].state = Row(e, r).state
                              \/ ValidMove(Row(e, r).state, deps'[e][r].state)
<1>1. IInv /\ [Next]_storeVars => [\A e \in Env : Keeps(e)]_storeVars
  BY RowsKept DEF Kept, Revisions, Row
<1>2. QED
  BY <1>1, Invariance, PTL DEF StoreSpec, AppendOnly

----------------------------------------------------------------------------
(* What the store's methods do to the rows                                 *)

(* Only the row of (e, r) is written.                                      *)
OnlyRow(e, r) ==
    /\ r \in DOMAIN deps[e]
    /\ \A f \in Env : /\ DOMAIN deps'[f] = DOMAIN deps[f]
                      /\ \A q \in DOMAIN deps[f] :
                            (f = e /\ q = r) \/ deps'[f][q] = deps[f][q]

(* Rows are only added, unplaced.                                          *)
OnlyAdded ==
    \A f \in Env : /\ DOMAIN deps[f] \subseteq DOMAIN deps'[f]
                   /\ \A q \in DOMAIN deps[f] : deps'[f][q] = deps[f][q]
                   /\ \A q \in DOMAIN deps'[f] \ DOMAIN deps[f] :
                         deps'[f][q].state = "pending" /\ deps'[f][q].node = None

(* UpdateDeploymentState writes the state.                                 *)
LEMMA UpdateEffect ==
    ASSUME TypeOK, NEW e \in Env, NEW r, NEW to \in {"starting", "healthy", "failed"},
           UpdateDeploymentState(e, r, to)
    PROVE  /\ OnlyRow(e, r) /\ SameBut(deps'[e][r], deps[e][r]) /\ deps'[e][r].state = to
           /\ alloc' = alloc
<1> DEFINE row == [Row(e, r) EXCEPT !.state = to]
<1>1. r \in Revisions(e) /\ deps' = WithRow(e, r, row) /\ alloc' = alloc
  BY DEF UpdateDeploymentState
<1>2. Row(e, r) \in DeploymentRow
  BY <1>1, Numbered DEF Revisions, Row
<1>3. row \in DeploymentRow /\ row.state = to /\ SameBut(row, Row(e, r))
  BY <1>2 DEF DeploymentRow, DeploymentState, Active, Terminal, SameBut
<1> HIDE DEF row
<1>4. QED
  BY <1>1, <1>3, RowReplaced DEF OnlyRow, Revisions, Row

(* PlaceDeployment puts a row that had none on the node, nothing of it     *)
(* running yet.                                                            *)
LEMMA PlaceEffect ==
    ASSUME IInv, NEW e \in Env, NEW r, NEW n \in Node, PlaceDeployment(e, r, n)
    PROVE  /\ OnlyRow(e, r)
           /\ deps[e][r].node = None /\ deps'[e][r].node = n
           /\ deps[e][r].version \in Version /\ deps'[e][r].version = deps[e][r].version
           /\ deps'[e][r].state = "scheduling" /\ \E s \in Service : deps'[e][r].inst[s] = "pending"
<1> DEFINE v == Row(e, r).version
           inst == [s \in Service |-> IF s \in DOMAIN Spec[v] THEN "pending" ELSE "absent"]
           row == [Row(e, r) EXCEPT !.state = "scheduling", !.node = n, !.inst = inst]
<1>1. /\ r \in Revisions(e) /\ deps' = WithRow(e, r, row)
      /\ Row(e, r).state = "pending"
  BY DEF PlaceDeployment, Pending
<1>2. Row(e, r) \in DeploymentRow /\ Row(e, r).node = None
  BY <1>1, Numbered DEF IInv, Revisions, Row, RowsMatchState
<1>3. v \in Version /\ inst \in [Service -> InstanceState \cup {"absent"}]
  BY <1>2 DEF InstanceState, DeploymentRow
<1>4. /\ row \in DeploymentRow
      /\ row.state = "scheduling" /\ row.version = v /\ row.node = n /\ row.inst = inst
  BY <1>2, <1>3, Zenon DEF DeploymentRow, DeploymentState, Active, Terminal
<1>5. \E s \in Service : row.inst[s] = "pending"
  <2>1. PICK s \in Service : s \in DOMAIN Spec[v]
    BY <1>3, SpecAssumption
  <2>2. row.inst[s] = "pending"
    BY <1>4, <2>1
  <2>3. QED
    BY <2>2
<1> HIDE DEF row, inst
<1>6. QED
  BY <1>1, <1>2, <1>3, <1>4, <1>5, RowReplaced DEF OnlyRow, Revisions, Row, IInv

(* ReportInstance leaves state, version and node.                          *)
LEMMA ReportEffect ==
    ASSUME TypeOK, NEW e \in Env, NEW r, NEW n \in Node, NEW s \in Service,
           NEW st \in Reported, NEW port \in BOOLEAN, ReportInstance(n, e, r, s, st, port)
    PROVE  /\ OnlyRow(e, r) /\ deps'[e][r].state = deps[e][r].state
           /\ deps'[e][r].version = deps[e][r].version /\ deps'[e][r].node = deps[e][r].node
<1> DEFINE pub == IF Spec[Row(e, r).version][s].ingress THEN port ELSE Row(e, r).published
           inst == [Row(e, r).inst EXCEPT ![s] = st]
           row == [Row(e, r) EXCEPT !.inst = inst, !.published = pub]
<1>1. r \in Revisions(e)
  BY DEF ReportInstance
<1>2. Row(e, r) \in DeploymentRow
  BY <1>1, Numbered DEF Revisions, Row
<1>3. deps' = WithRow(e, r, row)
  BY <1>2 DEF ReportInstance, DeploymentRow
<1>4. inst \in [Service -> InstanceState \cup {"absent"}] /\ pub \in BOOLEAN
  BY <1>2 DEF DeploymentRow, Reported
<1>5. /\ row \in DeploymentRow /\ row.state = Row(e, r).state
      /\ row.version = Row(e, r).version /\ row.node = Row(e, r).node
  BY <1>2, <1>4, Zenon DEF DeploymentRow
<1> HIDE DEF row, inst, pub
<1>6. QED
  BY <1>1, <1>3, <1>5, RowReplaced DEF OnlyRow, Revisions, Row

(* DeleteInstances takes the row off its node.                             *)
LEMMA DeleteEffect ==
    ASSUME TypeOK, NEW e \in Env, NEW r, DeleteInstances(e, r)
    PROVE  /\ OnlyRow(e, r) /\ deps'[e][r].state = deps[e][r].state
           /\ deps'[e][r].version = deps[e][r].version
           /\ deps[e][r].version \in Version /\ deps[e][r].node \in Node
           /\ deps'[e][r].node = None
<1> DEFINE row == [Row(e, r) EXCEPT !.node = None, !.inst = NoInstances, !.published = FALSE]
<1>1. r \in Revisions(e) /\ deps' = WithRow(e, r, row) /\ Row(e, r).node # None
  BY DEF DeleteInstances
<1>2. Row(e, r) \in DeploymentRow
  BY <1>1, Numbered DEF Revisions, Row
<1>3. /\ row \in DeploymentRow /\ row.state = Row(e, r).state /\ row.node = None
      /\ row.version = Row(e, r).version
  BY <1>2, Zenon DEF DeploymentRow, NoInstances
<1>4. Row(e, r).version \in Version /\ Row(e, r).node \in Node
  BY <1>1, <1>2 DEF DeploymentRow
<1> HIDE DEF row
<1>5. QED
  BY <1>1, <1>3, <1>4, RowReplaced DEF OnlyRow, Revisions, Row

(* CreateDeployment and CreatePreview add a row.                           *)
LEMMA CreateEffect ==
    ASSUME IInv, NEW e \in Env, NEW v \in Version, CreateDeployment(e, v) \/ CreatePreview(e, v)
    PROVE  OnlyAdded
<1>1. ASSUME NEW joined \in JoinedLive(e)
      PROVE  /\ NewRow(e, v, joined) \in DeploymentRow
             /\ NewRow(e, v, joined).state = "pending" /\ NewRow(e, v, joined).node = None
  BY <1>1, NewRowType DEF NewRow
<1>2. CASE CreateDeployment(e, v)
  <2>1. PICK row \in DeploymentRow :
           /\ row.state = "pending" /\ row.node = None
           /\ deps' = [deps EXCEPT ![e] = Append(deps[e], row)]
    BY <1>1, <1>2, Zenon DEF CreateDeployment
  <2>2. deps'[e] = Append(deps[e], row) /\ \A f \in Env \ {e} : deps'[f] = deps[f]
    BY <2>1 DEF IInv, TypeOK
  <2>3. /\ deps[e] \in Seq(DeploymentRow) /\ Len(deps[e]) \in Nat
        /\ DOMAIN deps[e] = 1..Len(deps[e])
    BY Numbered DEF IInv, TypeOK
  <2>4. /\ DOMAIN deps'[e] = 1..Len(deps[e]) + 1
        /\ \A q \in 1..Len(deps[e]) : deps'[e][q] = deps[e][q]
        /\ deps'[e][Len(deps[e]) + 1] = row
    <3>1. /\ DOMAIN Append(deps[e], row) = 1..Len(deps[e]) + 1
          /\ \A q \in 1..Len(deps[e]) : Append(deps[e], row)[q] = deps[e][q]
      BY <2>1, <2>3, AppendedRow
    <3>2. Append(deps[e], row)[Len(deps[e]) + 1] = row
      BY <2>1, <2>3, AppendProperties
    <3>3. QED
      BY <2>2, <3>1, <3>2
  <2>5. DOMAIN deps[e] \subseteq DOMAIN deps'[e]
        /\ DOMAIN deps'[e] \ DOMAIN deps[e] = {Len(deps[e]) + 1}
    BY <2>3, <2>4
  <2>6. QED
    <3>1. \A q \in DOMAIN deps[e] : deps'[e][q] = deps[e][q]
      BY <2>3, <2>4
    <3>2. \A q \in DOMAIN deps'[e] \ DOMAIN deps[e] :
             deps'[e][q].state = "pending" /\ deps'[e][q].node = None
      BY <2>1, <2>4, <2>5
    <3>3. QED
      BY <2>2, <2>5, <3>1, <3>2 DEF OnlyAdded
<1>3. CASE CreatePreview(e, v)
  <2> DEFINE row == NewRow(e, v, 0)
  <2>1. deps' = [deps EXCEPT ![e] = << row >>] /\ deps[e] = << >>
    BY <1>3 DEF CreatePreview, IInv, RowsOnlyPresent
  <2>2. row.state = "pending" /\ row.node = None
    BY <1>1 DEF JoinedLive
  <2> HIDE DEF row
  <2>3. deps'[e] = << row >> /\ \A f \in Env \ {e} : deps'[f] = deps[f]
    BY <2>1 DEF IInv, TypeOK
  <2>4. DOMAIN deps[e] = {} /\ DOMAIN deps'[e] = {1} /\ deps'[e][1] = row
    BY <2>1, <2>3
  <2>5. QED
    BY <2>2, <2>3, <2>4 DEF OnlyAdded
<1>4. QED
  BY <1>2, <1>3

----------------------------------------------------------------------------
(* Who writes a node's alloc, and a row's node                             *)

(* Only PlaceDeployment and DeleteInstances write alloc.                   *)
LEMMA AllocWriters ==
    ASSUME [Next]_storeVars
    PROVE  \/ alloc' = alloc
           \/ \E e \in Env, r \in 1..MaxRevision :
                 DeleteTerminal(e, r) \/ \E n \in Node : PlaceDeployment(e, r, n)
<1>1. CASE UNCHANGED storeVars
  BY <1>1 DEF storeVars
<1>2. CASE NodeStep
  BY <1>2 DEF NodeStep, MarkStaleNodesUnreachable, RegisterNode, Heartbeat, HeartbeatAges,
              DrainNode, UncordonNode
<1>3. CASE EnvironmentStep
  BY <1>3 DEF EnvironmentStep, ReleaseEnvironmentHome, CreatePreview, ExpireEnvironments,
              SweepTombstones
<1>4. ASSUME NEW e \in Env, DeploymentStep(e),
             ~ \E r \in 1..MaxRevision :
                 DeleteTerminal(e, r) \/ \E n \in Node : PlaceDeployment(e, r, n)
      PROVE  alloc' = alloc
  BY <1>4, Zenon DEF DeploymentStep, CreateDeployment, UpdateDeploymentState, PromoteDeployment,
              ReportInstance
<1>5. QED
  BY <1>1, <1>2, <1>3, <1>4 DEF Next

(* The peak of (e, r) is added to the node's alloc, and fits.               *)
Taken(e, r, n) ==
    \A m \in Node, res \in Resource :
       LET peak == Peak(deps[e][r].version, res)
       IN  /\ peak \in Nat
           /\ m # n => alloc'[m] = alloc[m]
           /\ alloc'[n][res] = alloc[n][res] + peak
           /\ alloc[n][res] + peak <= cap[n][res]

(* It is given back, and never more than there is.                         *)
GivenBack(e, r) ==
    \A m \in Node, res \in Resource :
       LET peak == Peak(deps[e][r].version, res)
           n == deps[e][r].node
       IN  /\ peak \in Nat
           /\ m # n => alloc'[m] = alloc[m]
           /\ alloc'[n][res] = IF alloc[n][res] >= peak THEN alloc[n][res] - peak ELSE 0

(* What PlaceDeployment reserves, and that it fitted under the node's lock.*)
LEMMA PlaceAlloc ==
    ASSUME IInv, NEW e \in Env, NEW r, NEW n \in Node, PlaceDeployment(e, r, n)
    PROVE  Taken(e, r, n)
<1> DEFINE v == deps[e][r].version
           more == [res \in Resource |-> alloc[n][res] + Peak(v, res)]
<1>1. v \in Version
  BY PlaceEffect
<1>2. /\ alloc' = [alloc EXCEPT ![n] = more]
      /\ \A res \in Resource : cap[n][res] - alloc[n][res] >= Peak(v, res)
  BY DEF PlaceDeployment, PlaceConflicts, Fits, Row
<1>3. \A res \in Resource : /\ Peak(v, res) \in Nat
                            /\ cap[n][res] \in Nat /\ alloc[n][res] \in Nat
  BY <1>1, PeakAssumption DEF IInv, TypeOK
<1>4. \A m \in Node : alloc'[m] = IF m = n THEN more ELSE alloc[m]
  <2> HIDE DEF more
  <2>1. QED
    BY <1>2 DEF IInv, TypeOK
<1> HIDE DEF v
<1>5. \A res \in Resource : alloc[n][res] + Peak(v, res) <= cap[n][res]
  BY <1>2, <1>3
<1>6. \A res \in Resource : alloc'[n][res] = alloc[n][res] + Peak(v, res)
  BY <1>4, Zenon
<1>7. QED
  BY <1>3, <1>4, <1>5, <1>6, Zenon DEF v, Taken

(* What DeleteInstances gives back.                                        *)
LEMMA DeleteAlloc ==
    ASSUME IInv, NEW e \in Env, NEW r, DeleteInstances(e, r)
    PROVE  GivenBack(e, r)
<1> DEFINE v == deps[e][r].version
           n == deps[e][r].node
           back == [res \in Resource |-> IF alloc[n][res] >= Peak(v, res)
                                         THEN alloc[n][res] - Peak(v, res) ELSE 0]
<1>1. v \in Version /\ n \in Node
  BY DeleteEffect DEF IInv
<1>2. alloc' = [alloc EXCEPT ![n] = back]
  BY DEF DeleteInstances, Row
<1>3. \A res \in Resource : Peak(v, res) \in Nat
  BY <1>1, PeakAssumption
<1>4. \A m \in Node : alloc'[m] = IF m = n THEN back ELSE alloc[m]
  <2> HIDE DEF back, n
  <2>1. QED
    BY <1>1, <1>2 DEF IInv, TypeOK
<1>5. \A res \in Resource : back[res] = IF alloc[n][res] >= Peak(v, res)
                                       THEN alloc[n][res] - Peak(v, res) ELSE 0
  OBVIOUS
<1> HIDE DEF back
<1>6. QED
  BY <1>1, <1>3, <1>4, <1>5 DEF GivenBack

(* Every row that stays keeps its node and its version, and a new one has  *)
(* no node.                                                                *)
NodesKept ==
    \A f \in Env :
       /\ DOMAIN deps[f] \subseteq DOMAIN deps'[f]
       /\ \A q \in DOMAIN deps[f] : /\ deps'[f][q].node = deps[f][q].node
                                    /\ deps'[f][q].version = deps[f][q].version
       /\ \A q \in DOMAIN deps'[f] \ DOMAIN deps[f] : deps'[f][q].node = None

(* It is so but for placements, teardowns and expiries.                    *)
LEMMA NodeWriters ==
    ASSUME IInv, [Next]_storeVars
    PROVE  \/ NodesKept
           \/ \E e \in Env, r \in 1..MaxRevision :
                 DeleteTerminal(e, r) \/ \E n \in Node : PlaceDeployment(e, r, n)
           \/ \E expired \in SUBSET Preview : expired # {} /\ ExpireEnvironments(expired)
<1>1. ASSUME deps' = deps PROVE NodesKept
  BY <1>1 DEF NodesKept
<1>2. CASE NodeStep
  BY <1>1, <1>2 DEF NodeStep, MarkStaleNodesUnreachable, RegisterNode, Heartbeat, HeartbeatAges,
                    DrainNode, UncordonNode
<1>3. ASSUME OnlyAdded PROVE NodesKept
  BY <1>3 DEF OnlyAdded, NodesKept
<1>4. ASSUME NEW e \in Env, NEW r, OnlyRow(e, r), deps'[e][r].node = deps[e][r].node,
             deps'[e][r].version = deps[e][r].version
      PROVE  NodesKept
  BY <1>4 DEF OnlyRow, NodesKept
<1>5. CASE EnvironmentStep
  <2>1. ASSUME NEW e \in Env, NEW v \in Version, CreatePreview(e, v) PROVE NodesKept
    BY <1>3, <2>1, CreateEffect
  <2>2. QED
    BY <1>1, <1>5, <2>1 DEF EnvironmentStep, ReleaseEnvironmentHome, SweepTombstones
<1>6. ASSUME NEW e \in Env, DeploymentStep(e)
      PROVE  \/ NodesKept
             \/ \E r \in 1..MaxRevision :
                   DeleteTerminal(e, r) \/ \E n \in Node : PlaceDeployment(e, r, n)
  <2>1. ASSUME NEW v \in Version, CreateDeployment(e, v) PROVE NodesKept
    BY <1>3, <2>1, CreateEffect
  <2>2. ASSUME NEW r \in 1..MaxRevision, NEW to \in {"starting", "healthy", "failed"},
               UpdateDeploymentState(e, r, to)
        PROVE  NodesKept
    BY <1>4, <2>2, UpdateEffect DEF SameBut, IInv
  <2>3. ASSUME NEW r \in 1..MaxRevision, PromoteDeployment(e, r) PROVE NodesKept
    <3>1. /\ \A f \in Env \ {e} : deps'[f] = deps[f]
          /\ DOMAIN deps'[e] = DOMAIN deps[e]
          /\ \A q \in DOMAIN deps[e] : SameBut(deps'[e][q], deps[e][q])
      BY <2>3, Promotion
    <3>2. QED
      BY <3>1 DEF NodesKept, SameBut
  <2>4. ASSUME NEW n \in Node, NEW r \in 1..MaxRevision, NEW s \in Service,
               NEW st \in Reported, NEW port \in BOOLEAN, ReportInstance(n, e, r, s, st, port)
        PROVE  NodesKept
    BY <1>4, <2>4, ReportEffect, Zenon DEF IInv
  <2>5. QED
    BY <1>6, <2>1, <2>2, <2>3, <2>4 DEF DeploymentStep
<1>7. QED
  BY <1>1, <1>2, <1>5, <1>6 DEF Next, storeVars

============================================================================
