--------------------------- MODULE RolloutProofs ---------------------------
(***************************************************************************)
(* Proofs of Rollout's safety properties, and that it implements Store,    *)
(* for every value of the constants.                                       *)
(***************************************************************************)
EXTENDS Rollout, StoreProofs

(* What ListPendingDeployments and ListActiveDeployments return rows of,   *)
(* and the tables of routes the controller builds.                         *)
Plan == [env : Env, rev : 1..MaxRevision, home : Node \cup {None}, version : Version]
Listed == [env : Env, rev : 1..MaxRevision, state : {"scheduling", "starting", "healthy"}]
Routes == [Env -> [node : Node, rev : Nat] \cup {None}]

(* What each loop remembers, by where it is.                               *)
SchedOK ==
    /\ sched \in [pc : {"idle", "list", "place", "score", "commit", "fail"},
                  todo : SUBSET Plan, cur : Plan \cup {None}, fleet : {sched.fleet},
                  node : Node \cup {None}]
    /\ sched.pc \in {"score", "commit", "fail"} => sched.cur \in Plan
    /\ DOMAIN sched.fleet \subseteq Node
    /\ sched.pc = "commit" => sched.node \in Node

CtlOK ==
    /\ ctl \in [pc : {"idle", "advance", "apply", "sync", "terminal", "teardown"},
                todo : SUBSET (Listed \cup Deployment), cur : Listed \cup {None},
                verdict : {"none", "starting", "healthy", "failed", "promote"},
                read : {<< >>} \cup Routes,
                first : SUBSET Deployment, seen : SUBSET Deployment]
    /\ ctl.pc \in {"advance", "apply"} => ctl.todo \subseteq Listed
    /\ ctl.pc = "apply" => ctl.cur \in Listed /\ ctl.verdict # "none"
    /\ ctl.pc = "sync" => ctl.read \in Routes
    /\ ctl.pc = "teardown" => ctl.todo \subseteq Deployment

DrainOK == drain \in [pc : {"idle", "list", "release"}, node : Node \cup {None},
                      todo : SUBSET Env]

LoopsOK == SchedOK /\ CtlOK /\ DrainOK /\ routes \in Routes

(* What the controller remembers as terminal is terminal for good, or is   *)
(* gone with its environment.                                              *)
Dead(d) ==
    \/ envState[d.env] = "deleted"
    \/ d.rev \in Revisions(d.env) /\ Row(d.env, d.rev).state \in Terminal

TornDown ==
    /\ \A d \in ctl.first \cup ctl.seen : Dead(d)
    /\ ctl.pc = "teardown" => \A d \in ctl.todo : Dead(d)

RInv == IInv /\ LoopsOK /\ TornDown

----------------------------------------------------------------------------
(* Every step of the loops, the handlers, the agents and the reaper is a   *)
(* transaction of the store or leaves its tables alone                     *)

(* UpdateDeploymentState and PromoteDeployment, as their callers call them.*)
LEMMA TryIsStep ==
    ASSUME NEW e \in Env, NEW r \in 1..MaxRevision,
           \/ TryPromote(e, r)
           \/ \E to \in {"starting", "healthy", "failed"} : TryUpdate(e, r, to)
    PROVE  [Next]_storeVars
<1>1. CASE TryPromote(e, r)
  BY <1>1 DEF TryPromote, Next, DeploymentStep
<1>2. ASSUME NEW to \in {"starting", "healthy", "failed"}, TryUpdate(e, r, to)
      PROVE  [Next]_storeVars
  BY <1>2 DEF TryUpdate, Next, DeploymentStep
<1>3. QED
  BY <1>1, <1>2

(* ScheduleOnce.                                                           *)
LEMMA SchedulerIsStore ==
    ASSUME RInv, SchedulerStep PROVE [Next]_storeVars
<1>1. CASE ScheduleMark
  BY <1>1 DEF ScheduleMark, Next, NodeStep
<1>2. CASE ScheduleCommit
  <2>1. sched.cur.env \in Env /\ sched.cur.rev \in 1..MaxRevision /\ sched.node \in Node
    BY <1>2 DEF RInv, LoopsOK, SchedOK, Plan, ScheduleCommit
  <2>2. \/ PlaceDeployment(sched.cur.env, sched.cur.rev, sched.node)
        \/ UNCHANGED storeVars
    BY <1>2 DEF ScheduleCommit
  <2>3. QED
    BY <2>1, <2>2 DEF Next, DeploymentStep
<1>3. CASE ScheduleFail
  <2>1. sched.cur.env \in Env /\ sched.cur.rev \in 1..MaxRevision
    BY <1>3 DEF RInv, LoopsOK, SchedOK, Plan, ScheduleFail
  <2>2. QED
    BY <1>3, <2>1, TryIsStep DEF ScheduleFail
<1>4. QED
  BY <1>1, <1>2, <1>3, Zenon DEF SchedulerStep, ScheduleList, SchedulePlace, ScheduleScore, ScheduleDone

(* ReconcileOnce: what it tears down is terminal.                          *)
LEMMA ControllerIsStore ==
    ASSUME RInv, ControllerStep PROVE [Next]_storeVars
<1>1. CASE ReconcileApply
  <2>1. /\ ctl.cur.env \in Env /\ ctl.cur.rev \in 1..MaxRevision
        /\ ctl.verdict \in {"starting", "healthy", "failed", "promote"}
    BY <1>1 DEF RInv, LoopsOK, CtlOK, Listed, ReconcileApply
  <2>2. \/ TryPromote(ctl.cur.env, ctl.cur.rev)
        \/ ctl.verdict # "promote" /\ TryUpdate(ctl.cur.env, ctl.cur.rev, ctl.verdict)
    BY <1>1 DEF ReconcileApply
  <2>3. QED
    BY <2>1, <2>2, TryIsStep
<1>2. ASSUME NEW d \in ctl.todo, ReconcileTeardown(d) PROVE [Next]_storeVars
  <2>1. d \in Deployment /\ Dead(d)
    BY <1>2 DEF RInv, LoopsOK, CtlOK, TornDown, ReconcileTeardown
  <2>2. d.env \in Env /\ d.rev \in 1..MaxRevision
    BY <2>1 DEF Deployment
  <2>3. \/ DeleteInstances(d.env, d.rev)
        \/ UNCHANGED storeVars
    BY <1>2 DEF ReconcileTeardown
  <2>4. DeleteInstances(d.env, d.rev) => DeleteTerminal(d.env, d.rev)
    BY <2>1, <2>2 DEF Dead, DeleteTerminal, DeleteInstances, RInv, IInv, RowsOnlyPresent,
                      Revisions
  <2>5. QED
    BY <2>2, <2>3, <2>4 DEF Next, DeploymentStep
<1>3. QED
  BY <1>1, <1>2, Zenon DEF ControllerStep, ReconcileList, ReconcileRead, ReconcileRoutes, ReconcileSync,
       ReconcileSyncFails, ReconcileTerminal, ReconcileHold, ReconcileDone

(* The API handlers, the agents, the reaper and the clock call the store   *)
(* and keep nothing between two calls.                                     *)
Handlers == ApiStep \/ ReaperStep \/ Silence
            \/ \E n \in Node : Api(Heartbeat(n) \/ \E c \in Capacity[n] : RegisterNode(n, c))

LEMMA HandlersAreStore ==
    ASSUME RInv, Handlers PROVE Next /\ UNCHANGED loopVars
<1>1. ASSUME NEW e \in Env, NEW v \in Version, Api(CreateDeployment(e, v) \/ CreatePreview(e, v))
      PROVE  Next /\ UNCHANGED loopVars
  BY <1>1 DEF Api, Next, DeploymentStep, EnvironmentStep
<1>2. ASSUME NEW e \in Env, NEW to \in 0..MaxRevision, Api(RollbackDeployment(e, to))
      PROVE  Next /\ UNCHANGED loopVars
  <2> DEFINE v == Row(e, RollbackTarget(e, to)).version
  <2>1. RollbackTarget(e, to) \in DOMAIN deps[e]
    BY <1>2 DEF Api, RollbackDeployment, Revisions
  <2>2. Row(e, RollbackTarget(e, to)) \in DeploymentRow
    BY <2>1, Numbered DEF Row, RInv, IInv
  <2>3. v \in Version
    BY <2>2 DEF DeploymentRow
  <2>4. CreateDeployment(e, v) /\ UNCHANGED loopVars
    BY <1>2 DEF Api, RollbackDeployment
  <2> HIDE DEF v
  <2>5. QED
    BY <2>3, <2>4 DEF Next, DeploymentStep
<1>3. ASSUME NEW e \in Env, NEW r \in 1..MaxRevision, Api(PromoteDeployment(e, r))
      PROVE  Next /\ UNCHANGED loopVars
  BY <1>3 DEF Api, Next, DeploymentStep
<1>4. ASSUME NEW n \in Node, Api(UncordonNode(n)) PROVE Next /\ UNCHANGED loopVars
  BY <1>4 DEF Api, Next, NodeStep
<1>5. CASE ReaperStep
  BY <1>5 DEF ReaperStep, Api, Next, EnvironmentStep
<1>6. CASE Silence
  BY <1>6 DEF Silence, Api, Next, NodeStep
<1>7. ASSUME NEW n \in Node, Api(Heartbeat(n) \/ \E c \in Capacity[n] : RegisterNode(n, c))
      PROVE  Next /\ UNCHANGED loopVars
  BY <1>7 DEF Api, Next, NodeStep
<1>8. QED
  BY <1>1, <1>2, <1>3, <1>4, <1>5, <1>6, <1>7 DEF Handlers, ApiStep

(* handleDrainNode, the agents' reports, and a restart.                    *)
LEMMA OthersAreStore ==
    ASSUME RInv, DrainStep \/ AgentStep \/ Restart PROVE [Next]_storeVars
<1>1. ASSUME NEW n \in Node, DrainStart(n) PROVE [Next]_storeVars
  BY <1>1 DEF DrainStart, Next, NodeStep
<1>2. ASSUME NEW e \in drain.todo, DrainRelease(e) PROVE [Next]_storeVars
  <2>1. e \in Env
    BY <1>2 DEF RInv, LoopsOK, DrainOK
  <2>2. QED
    BY <1>2, <2>1 DEF DrainRelease, Next, EnvironmentStep
<1>3. ASSUME NEW n \in Node, NEW e \in Env, NEW r \in 1..MaxRevision, NEW s \in Service,
             NEW st \in Reported, NEW port \in BOOLEAN, Report(n, e, r, s, st, port)
      PROVE  [Next]_storeVars
  BY <1>3 DEF Report, Next, DeploymentStep
<1>4. CASE DrainList \/ DrainDone \/ Restart
  BY <1>4 DEF DrainList, DrainDone, Restart
<1>5. CASE \E n \in Node : Api(Heartbeat(n) \/ \E c \in Capacity[n] : RegisterNode(n, c))
  BY <1>5, HandlersAreStore DEF Handlers
<1>6. QED
  BY <1>1, <1>2, <1>3, <1>4, <1>5 DEF DrainStep, AgentStep

(* All of them.                                                            *)
LEMMA RolloutIsStore ==
    ASSUME RInv, [RolloutNext]_vars PROVE [Next]_storeVars
<1>1. CASE UNCHANGED vars
  BY <1>1 DEF vars
<1>2. CASE ApiStep \/ ReaperStep \/ Silence
  BY <1>2, HandlersAreStore DEF Handlers
<1>3. CASE SchedulerStep
  BY <1>3, SchedulerIsStore
<1>4. CASE ControllerStep
  BY <1>4, ControllerIsStore
<1>5. CASE DrainStep \/ AgentStep \/ Restart
  BY <1>5, OthersAreStore
<1>6. QED
  BY <1>1, <1>2, <1>3, <1>4, <1>5 DEF RolloutNext

----------------------------------------------------------------------------
(* What the loops remember                                                 *)

(* ScheduleOnce keeps the types of what it read.                           *)
LEMMA SchedulerTypes ==
    ASSUME TypeOK, SchedOK, SchedulerStep PROVE SchedOK'
<1>1. CASE ScheduleMark
  BY <1>1 DEF ScheduleMark, SchedOK
<1>2. CASE ScheduleList
  <2> DEFINE found == {[env |-> d.env, rev |-> d.rev, home |-> home[d.env],
                        version |-> Row(d.env, d.rev).version] :
                       d \in {d \in Deployment : Pending(d.env, d.rev)}}
  <2>1. ASSUME NEW d \in Deployment, Pending(d.env, d.rev)
        PROVE  [env |-> d.env, rev |-> d.rev, home |-> home[d.env],
                version |-> Row(d.env, d.rev).version] \in Plan
    <3>1. d.env \in Env /\ d.rev \in 1..MaxRevision /\ d.rev \in DOMAIN deps[d.env]
      BY <2>1 DEF Deployment, Pending, Revisions
    <3>2. Row(d.env, d.rev) \in DeploymentRow
      BY <3>1, Numbered DEF Row
    <3>3. home[d.env] \in Node \cup {None} /\ Row(d.env, d.rev).version \in Version
      BY <3>1, <3>2 DEF TypeOK, DeploymentRow
    <3>4. QED
      BY <3>1, <3>3 DEF Plan
  <2>2. found \in SUBSET Plan
    BY <2>1
  <2>3. sched' = [sched EXCEPT !.pc = "place", !.todo = found]
    BY <1>2 DEF ScheduleList
  <2> HIDE DEF found
  <2>4. QED
    BY <2>2, <2>3, Zenon DEF SchedOK
<1>3. ASSUME NEW d \in sched.todo, SchedulePlace(d) PROVE SchedOK'
  <2> DEFINE ready == ListReadyNodes
             rest == [sched EXCEPT !.todo = sched.todo \ {d}]
             fleet == [n \in ready |-> [cap |-> cap[n], alloc |-> alloc[n]]]
             pc == IF Fits(d.home, d.version) THEN "commit" ELSE "fail"
  <2>1. d \in Plan /\ sched.pc = "place" /\ ready \subseteq Node /\ pc \in {"commit", "fail"}
        /\ DOMAIN fleet \subseteq Node
    BY <1>3 DEF SchedOK, SchedulePlace, ListReadyNodes
  <2>2. \/ sched' = rest
        \/ sched' = [rest EXCEPT !.pc = "score", !.cur = d, !.fleet = fleet]
        \/ d.home \in ready /\ sched' = [rest EXCEPT !.cur = d, !.node = d.home, !.pc = pc]
    BY <1>3, NoneAssumption DEF SchedulePlace, ListReadyNodes
  <2> HIDE DEF ready, fleet, pc
  <2>3. CASE sched' = rest
    BY <2>1, <2>3 DEF SchedOK
  <2>4. CASE sched' = [rest EXCEPT !.pc = "score", !.cur = d, !.fleet = fleet]
    BY <2>1, <2>4, Zenon DEF SchedOK
  <2>5. CASE d.home \in ready /\ sched' = [rest EXCEPT !.cur = d, !.node = d.home, !.pc = pc]
    BY <2>1, <2>5, Zenon DEF SchedOK
  <2>6. QED
    BY <2>2, <2>3, <2>4, <2>5
<1>4. CASE ScheduleScore
  <2>0. DOMAIN << >> \subseteq Node
    OBVIOUS
  <2>1. sched.pc = "score"
    BY <1>4, Zenon DEF ScheduleScore
  <2>2. \/ sched' = [sched EXCEPT !.pc = "fail", !.fleet = << >>]
        \/ \E n \in DOMAIN sched.fleet :
              sched' = [sched EXCEPT !.pc = "commit", !.fleet = << >>, !.node = n]
    BY <1>4, Zenon DEF ScheduleScore
  <2>3. CASE sched' = [sched EXCEPT !.pc = "fail", !.fleet = << >>]
    BY <2>0, <2>1, <2>3, Zenon DEF SchedOK
  <2>4. ASSUME NEW n \in DOMAIN sched.fleet,
               sched' = [sched EXCEPT !.pc = "commit", !.fleet = << >>, !.node = n]
        PROVE  SchedOK'
    BY <2>0, <2>1, <2>4, Zenon DEF SchedOK
  <2>5. QED
    BY <2>2, <2>3, <2>4, Zenon
<1>5. CASE ScheduleCommit
  <2>1. sched.pc = "commit"
        /\ (sched' = SchedNext \/ sched' = [sched EXCEPT !.pc = "fail"])
    BY <1>5 DEF ScheduleCommit
  <2>2. QED
    BY <2>1, Zenon DEF SchedOK, SchedNext
<1>6. CASE ScheduleFail
  BY <1>6, Zenon DEF ScheduleFail, SchedOK, SchedNext
<1>7. CASE ScheduleDone
  <2>1. sched' = SchedIdle /\ DOMAIN << >> \subseteq Node
    BY <1>7 DEF ScheduleDone
  <2>2. QED
    BY <2>1 DEF SchedOK, SchedIdle
<1>8. QED
  BY <1>1, <1>2, <1>3, <1>4, <1>5, <1>6, <1>7 DEF SchedulerStep

(* liveRoutes returns a table of routes.                                   *)
LEMMA LiveRoutesType == TypeOK => LiveRoutes \in Routes
<1> SUFFICES ASSUME TypeOK PROVE LiveRoutes \in Routes
  OBVIOUS
<1>1. ASSUME NEW e \in Env, home[e] # None
      PROVE  [node |-> home[e], rev |-> live[e]] \in [node : Node, rev : Nat]
  BY <1>1 DEF TypeOK
<1>2. QED
  BY <1>1 DEF LiveRoutes, Routes

(* The listings of ReconcileOnce.                                          *)
LEMMA ListedTypes ==
    ASSUME NEW S
    PROVE  /\ InState(S) \in SUBSET Deployment
           /\ {[env |-> d.env, rev |-> d.rev, state |-> Row(d.env, d.rev).state] :
               d \in InState({"scheduling", "starting", "healthy"})} \in SUBSET Listed
<1>1. ASSUME NEW d \in InState({"scheduling", "starting", "healthy"})
      PROVE  [env |-> d.env, rev |-> d.rev, state |-> Row(d.env, d.rev).state] \in Listed
  BY <1>1 DEF InState, Deployment, Listed
<1>2. QED
  BY <1>1 DEF InState

(* ReconcileOnce keeps the types of what it read.                          *)
LEMMA ControllerTypes ==
    ASSUME TypeOK, CtlOK, routes \in Routes, ControllerStep PROVE CtlOK' /\ routes' \in Routes
<1>1. CASE ReconcileList
  <2> DEFINE found == {[env |-> d.env, rev |-> d.rev, state |-> Row(d.env, d.rev).state] :
                       d \in InState({"scheduling", "starting", "healthy"})}
  <2>1. found \in SUBSET Listed
    BY ListedTypes
  <2>2. ctl' = [ctl EXCEPT !.pc = "advance", !.todo = found] /\ routes' = routes
    BY <1>1 DEF ReconcileList
  <2> HIDE DEF found
  <2>3. QED
    BY <2>1, <2>2, Zenon DEF CtlOK
<1>2. ASSUME NEW d \in ctl.todo, NEW late \in BOOLEAN, ReconcileRead(d, late)
      PROVE  CtlOK' /\ routes' \in Routes
  <2> DEFINE verdict == Verdict(d.state, InstanceStates(d.env, d.rev), late)
             rest == [ctl EXCEPT !.todo = ctl.todo \ {d}]
  <2>1. ctl.pc = "advance" /\ d \in Listed /\ routes' = routes
    BY <1>2 DEF ReconcileRead, CtlOK
  <2>2. verdict \in {"none", "starting", "healthy", "failed", "promote"}
    BY DEF Verdict
  <2>3. ctl' = IF verdict = "none" THEN rest
               ELSE [rest EXCEPT !.pc = "apply", !.cur = d, !.verdict = verdict]
    BY <1>2 DEF ReconcileRead
  <2> HIDE DEF verdict
  <2>4. CASE ctl' = rest
    BY <2>1, <2>4 DEF CtlOK
  <2>5. CASE verdict # "none"
             /\ ctl' = [rest EXCEPT !.pc = "apply", !.cur = d, !.verdict = verdict]
    BY <2>1, <2>2, <2>5, Zenon DEF CtlOK
  <2>6. QED
    BY <2>3, <2>4, <2>5
<1>3. CASE ReconcileApply
  BY <1>3, Zenon DEF ReconcileApply, CtlOK
<1>4. CASE ReconcileRoutes
  BY <1>4, LiveRoutesType, Zenon DEF ReconcileRoutes, CtlOK
<1>5. CASE ReconcileSync
  BY <1>5, Zenon DEF ReconcileSync, CtlOK
<1>6. CASE ReconcileSyncFails
  BY <1>6 DEF ReconcileSyncFails, CtlOK, CtlIdle
<1>7. CASE ReconcileTerminal
  <2>1. InState(Terminal) \in SUBSET Deployment
    BY ListedTypes
  <2>2. QED
    BY <1>7, <2>1, Zenon DEF ReconcileTerminal, CtlOK
<1>8. ASSUME NEW d \in ctl.todo, ReconcileHold(d) PROVE CtlOK' /\ routes' \in Routes
  BY <1>8, Zenon DEF ReconcileHold, CtlOK
<1>9. ASSUME NEW d \in ctl.todo, ReconcileTeardown(d) PROVE CtlOK' /\ routes' \in Routes
  BY <1>9 DEF ReconcileTeardown, CtlOK
<1>10. CASE ReconcileDone
  BY <1>10 DEF ReconcileDone, CtlOK, CtlIdle
<1>11. QED
  BY <1>1, <1>2, <1>3, <1>4, <1>5, <1>6, <1>7, <1>8, <1>9, <1>10 DEF ControllerStep

(* So do handleDrainNode and a restart, and so does everyone together.     *)
LEMMA LoopTypes ==
    ASSUME TypeOK, LoopsOK, [RolloutNext]_vars PROVE LoopsOK'
<1>1. ASSUME UNCHANGED <<sched, ctl, drain, routes>> PROVE LoopsOK'
  BY <1>1 DEF LoopsOK, SchedOK, CtlOK, DrainOK
<1>2. CASE UNCHANGED vars
  BY <1>1, <1>2 DEF vars, loopVars
<1>3. CASE SchedulerStep
  <2>1. UNCHANGED <<ctl, drain, routes>>
    BY <1>3, Zenon DEF SchedulerStep, ScheduleMark, ScheduleList, SchedulePlace, ScheduleScore,
                ScheduleCommit, ScheduleFail, ScheduleDone
  <2>2. SchedOK'
    BY <1>3, SchedulerTypes DEF LoopsOK
  <2>3. QED
    BY <2>1, <2>2 DEF LoopsOK, CtlOK, DrainOK
<1>4. CASE ControllerStep
  <2>1. UNCHANGED <<sched, drain>>
    BY <1>4, Zenon DEF ControllerStep, ReconcileList, ReconcileRead, ReconcileApply, ReconcileRoutes,
       ReconcileSync, ReconcileSyncFails, ReconcileTerminal, ReconcileHold, ReconcileTeardown,
       ReconcileDone
  <2>2. CtlOK' /\ routes' \in Routes
    BY <1>4, ControllerTypes DEF LoopsOK
  <2>3. QED
    BY <2>1, <2>2 DEF LoopsOK, SchedOK, DrainOK
<1>5. CASE ApiStep \/ ReaperStep \/ Silence \/ AgentStep
  <2>1. UNCHANGED <<sched, ctl, drain, routes>>
    BY <1>5 DEF ApiStep, ReaperStep, Silence, AgentStep, Api, Report, loopVars
  <2>2. QED
    BY <1>1, <2>1
<1>6. CASE DrainStep
  <2>1. UNCHANGED <<sched, ctl, routes>>
    BY <1>6 DEF DrainStep, DrainStart, DrainList, DrainRelease, DrainDone
  <2>2. DrainOK'
    <3>1. DrainOK
      BY DEF LoopsOK
    <3>2. ASSUME NEW n \in Node, DrainStart(n) PROVE DrainOK'
      BY <3>1, <3>2 DEF DrainStart, DrainOK
    <3>3. CASE DrainList
      <4> DEFINE found == {e \in Env : home[e] = drain.node /\ Releasable(e)}
      <4>1. drain' = [drain EXCEPT !.pc = "release", !.todo = found] /\ found \in SUBSET Env
        BY <3>3 DEF DrainList
      <4> HIDE DEF found
      <4>2. QED
        BY <3>1, <4>1, Zenon DEF DrainOK
    <3>4. ASSUME NEW e \in drain.todo, DrainRelease(e) PROVE DrainOK'
      BY <3>1, <3>4 DEF DrainRelease, DrainOK
    <3>5. CASE DrainDone
      BY <3>5 DEF DrainDone, DrainOK, DrainIdle
    <3>6. QED
      BY <1>6, <3>2, <3>3, <3>4, <3>5 DEF DrainStep
  <2>3. QED
    BY <2>1, <2>2 DEF LoopsOK, SchedOK, CtlOK
<1>7. CASE Restart
  <2>1. sched' = SchedIdle /\ ctl' = CtlIdle({}) /\ drain' = DrainIdle /\ routes' = routes
        /\ DOMAIN << >> \subseteq Node
    BY <1>7 DEF Restart
  <2>2. SchedOK'
    BY <2>1 DEF SchedOK, SchedIdle
  <2>3. CtlOK' /\ DrainOK'
    BY <2>1 DEF CtlOK, CtlIdle, DrainOK, DrainIdle
  <2>4. QED
    BY <2>1, <2>2, <2>3 DEF LoopsOK
<1>8. QED
  BY <1>2, <1>3, <1>4, <1>5, <1>6, <1>7 DEF RolloutNext

----------------------------------------------------------------------------
(* Terminal stays terminal                                                 *)

(* An environment is created once and deleted once.                        *)
LEMMA EnvironmentStates ==
    ASSUME TypeOK, [Next]_storeVars, NEW e \in Env
    PROVE  \/ envState'[e] = envState[e]
           \/ envState[e] = "new" /\ envState'[e] = "present"
           \/ envState[e] = "present" /\ envState'[e] = "deleted"
<1>1. CASE envState' = envState
  BY <1>1
<1>2. ASSUME NEW f \in Env, NEW v \in Version, CreatePreview(f, v)
      PROVE  \/ envState'[e] = envState[e]
             \/ envState[e] = "new" /\ envState'[e] = "present"
  BY <1>2 DEF CreatePreview, TypeOK
<1>3. ASSUME NEW expired \in SUBSET Preview, ExpireEnvironments(expired)
      PROVE  \/ envState'[e] = envState[e]
             \/ envState[e] = "present" /\ envState'[e] = "deleted"
  BY <1>3 DEF ExpireEnvironments, TypeOK
<1>4. CASE NodeStep
  BY <1>1, <1>4 DEF NodeStep, MarkStaleNodesUnreachable, RegisterNode, Heartbeat,
                    HeartbeatAges, DrainNode, UncordonNode, envVars
<1>5. CASE EnvironmentStep
  BY <1>1, <1>2, <1>3, <1>5 DEF EnvironmentStep, ReleaseEnvironmentHome, SweepTombstones
<1>6. ASSUME NEW f \in Env, DeploymentStep(f) PROVE envState' = envState
  BY <1>6, Zenon DEF DeploymentStep, CreateDeployment, UpdateDeploymentState, PromoteDeployment,
       DeleteTerminal, DeleteInstances, PlaceDeployment, ReportInstance, envVars
<1>7. QED
  BY <1>1, <1>4, <1>5, <1>6 DEF Next, storeVars

(* Whatever the transaction, what is dead stays dead.                      *)
LEMMA DeadStays ==
    ASSUME IInv, IInv', [Next]_storeVars, NEW d, d.env \in Env, Dead(d)
    PROVE  Dead(d)'
<1> DEFINE e == d.env
<1>1. \/ envState'[e] = envState[e]
      \/ envState[e] = "new" /\ envState'[e] = "present"
      \/ envState[e] = "present" /\ envState'[e] = "deleted"
  BY EnvironmentStates DEF IInv
<1>2. CASE envState[e] = "deleted"
  BY <1>1, <1>2 DEF Dead
<1>3. CASE envState[e] # "deleted" /\ envState'[e] = "deleted"
  BY <1>3 DEF Dead
<1>4. CASE envState[e] # "deleted" /\ envState'[e] # "deleted"
  <2>1. d.rev \in DOMAIN deps[e] /\ deps[e][d.rev].state \in Terminal
    BY <1>4 DEF Dead, Revisions, Row
  <2>2. envState[e] = "present" /\ envState'[e] = "present"
    BY <1>1, <1>4, <2>1 DEF IInv, RowsOnlyPresent
  <2>3. Kept(e)
    BY <2>2, RowsKept
  <2>4. /\ d.rev \in DOMAIN deps'[e]
        /\ \/ deps'[e][d.rev].state = deps[e][d.rev].state
           \/ ValidMove(deps[e][d.rev].state, deps'[e][d.rev].state)
    BY <2>1, <2>3 DEF Kept
  <2>5. deps'[e][d.rev].state \in DeploymentState
    <3>1. deps' \in [Env -> Seq(DeploymentRow)]
      BY DEF IInv, TypeOK
    <3>2. deps'[e] \in Seq(DeploymentRow)
      BY <3>1
    <3>3. deps'[e][d.rev] \in DeploymentRow
      BY <2>4, <3>2, LenProperties, ElementOfSeq
    <3>4. QED
      BY <3>3 DEF DeploymentRow
  <2>6. \A from \in Terminal, to \in DeploymentState : ~ValidMove(from, to)
    BY DEF DeploymentState, Active, Terminal, ValidMove, ValidTransitions
  <2>7. deps'[e][d.rev].state \in Terminal
    BY <2>1, <2>4, <2>5, <2>6
  <2>8. QED
    BY <2>4, <2>7 DEF Dead, Revisions, Row
<1>5. QED
  BY <1>2, <1>3, <1>4

(* The controller's memory of terminal deployments, across its own steps   *)
(* and everyone else's.                                                    *)
LEMMA TornDownStays ==
    ASSUME RInv, [RolloutNext]_vars, IInv' PROVE TornDown'
<1>1. [Next]_storeVars
  BY RolloutIsStore
<1>2. ASSUME NEW d \in Deployment, Dead(d) PROVE Dead(d)'
  <2>1. d.env \in Env
    BY DEF Deployment
  <2>2. QED
    BY <1>1, <1>2, <2>1, DeadStays DEF RInv
<1>3. /\ ctl.first \in SUBSET Deployment /\ ctl.seen \in SUBSET Deployment
      /\ ctl.pc = "teardown" => ctl.todo \subseteq Deployment
  BY DEF RInv, LoopsOK, CtlOK
<1>4. /\ \A d \in ctl.first \cup ctl.seen : Dead(d) /\ Dead(d)'
      /\ ctl.pc = "teardown" => \A d \in ctl.todo : Dead(d) /\ Dead(d)'
  BY <1>2, <1>3 DEF RInv, TornDown
<1>5. ASSUME ctl'.first \cup ctl'.seen \subseteq ctl.first \cup ctl.seen,
             ctl'.pc = "teardown" => ctl.pc = "teardown" /\ ctl'.todo \subseteq ctl.todo
      PROVE  TornDown'
  BY <1>4, <1>5 DEF TornDown
<1>6. CASE ctl' = ctl
  BY <1>5, <1>6
<1>7. CASE ControllerStep
  <2> USE DEF RInv, LoopsOK, CtlOK
  <2>1. CASE ReconcileList \/ ReconcileApply \/ ReconcileRoutes
    BY <1>5, <2>1, Zenon DEF ReconcileList, ReconcileApply, ReconcileRoutes
  <2>2. ASSUME NEW d \in ctl.todo, NEW late \in BOOLEAN, ReconcileRead(d, late)
        PROVE  TornDown'
    BY <1>5, <2>2 DEF ReconcileRead
  <2>3. CASE ReconcileSync
    BY <1>5, <2>3 DEF ReconcileSync
  <2>4. CASE ReconcileSyncFails
    BY <1>5, <2>4 DEF ReconcileSyncFails, CtlIdle
  <2>5. CASE ReconcileTerminal
    <3>1. \A d \in InState(Terminal) : d \in Deployment /\ Dead(d)
      BY DEF InState, Dead
    <3>2. ctl'.pc = "teardown" /\ ctl'.todo = InState(Terminal)
          /\ ctl'.first = ctl.first /\ ctl'.seen = ctl.seen
      BY <2>5 DEF ReconcileTerminal
    <3>3. QED
      BY <1>2, <1>4, <3>1, <3>2 DEF TornDown
  <2>6. ASSUME NEW d \in ctl.todo, ReconcileHold(d) PROVE TornDown'
    <3>1. ctl.pc = "teardown" /\ ctl'.first = ctl.first /\ ctl'.seen = ctl.seen \cup {d}
          /\ ctl'.todo = ctl.todo \ {d}
      BY <2>6 DEF ReconcileHold
    <3>2. QED
      BY <1>4, <3>1 DEF TornDown
  <2>7. ASSUME NEW d \in ctl.todo, ReconcileTeardown(d) PROVE TornDown'
    BY <1>5, <2>7 DEF ReconcileTeardown
  <2>8. CASE ReconcileDone
    BY <1>5, <2>8 DEF ReconcileDone, CtlIdle
  <2>9. QED
    BY <1>7, <2>1, <2>2, <2>3, <2>4, <2>5, <2>6, <2>7, <2>8 DEF ControllerStep
<1>8. CASE Restart
  BY <1>5, <1>8 DEF Restart, CtlIdle
<1>9. CASE SchedulerStep \/ ApiStep \/ DrainStep \/ AgentStep \/ ReaperStep \/ Silence
  <2>1. ctl' = ctl
    BY <1>9, Zenon DEF SchedulerStep, ScheduleMark, ScheduleList, SchedulePlace, ScheduleScore,
         ScheduleCommit, ScheduleFail, ScheduleDone, ApiStep, DrainStep, DrainStart, DrainList,
         DrainRelease, DrainDone, AgentStep, Report, ReaperStep, Silence, Api, loopVars
  <2>2. QED
    BY <1>6, <2>1
<1>10. QED
  BY <1>6, <1>7, <1>8, <1>9 DEF RolloutNext, vars, loopVars

(* Together they are an invariant.                                         *)
LEMMA InitRInv == RolloutInit => RInv
<1> SUFFICES ASSUME RolloutInit PROVE RInv
  OBVIOUS
<1>1. IInv
  BY InitIInv DEF RolloutInit
<1>2. /\ sched = SchedIdle /\ ctl = CtlIdle({}) /\ drain = DrainIdle
      /\ routes = [e \in Env |-> None] /\ DOMAIN << >> \subseteq Node
  BY DEF RolloutInit
<1>3. SchedOK
  BY <1>2 DEF SchedOK, SchedIdle
<1>4. CtlOK /\ DrainOK /\ routes \in Routes /\ TornDown
  BY <1>2 DEF CtlOK, CtlIdle, DrainOK, DrainIdle, Routes, TornDown
<1>5. QED
  BY <1>1, <1>3, <1>4 DEF RInv, LoopsOK

(* Every step keeps it.                                                    *)
LEMMA NextRInv == RInv /\ [RolloutNext]_vars => RInv'
<1> SUFFICES ASSUME RInv, [RolloutNext]_vars PROVE RInv'
  OBVIOUS
<1>1. IInv'
  BY RolloutIsStore, NextIInv DEF RInv
<1>2. LoopsOK'
  BY LoopTypes DEF RInv, IInv
<1>3. TornDown'
  BY <1>1, TornDownStays
<1>4. QED
  BY <1>1, <1>2, <1>3 DEF RInv

(* The loops and the handlers together only ever do to the tables what one *)
(* of the store's methods does: the controller, above all, only ever hands *)
(* DeleteInstances a deployment that is terminal by then, however long ago *)
(* it listed it.                                                           *)
THEOREM RolloutImplementsStore == RolloutSpec => StoreSpec
<1>1. RolloutInit => Init
  BY DEF RolloutInit
<1>2. RInv /\ [RolloutNext]_vars => [Next]_storeVars
  BY RolloutIsStore
<1>3. QED
  BY <1>1, <1>2, InitRInv, NextRInv, PTL DEF RolloutSpec, StoreSpec

(* What the loops remember keeps its types, and what they remember as      *)
(* terminal is.                                                            *)
THEOREM RolloutInvariance == RolloutSpec => []RInv
BY InitRInv, NextRInv, PTL DEF RolloutSpec

----------------------------------------------------------------------------
(* Who writes rows, and when: only the controller's apply step makes a     *)
(* deployment healthy, only its teardown step takes rows off a node, and   *)
(* only a report adds to the history ran.                                  *)
RowWriter ==
    \/ deps' = deps /\ ran' = ran
    \/ OnlyAdded /\ ran' = ran
    \/ \E e \in Env, r \in 1..MaxRevision, to \in {"starting", "healthy", "failed"} :
          /\ UpdateDeploymentState(e, r, to) /\ ran' = ran
          /\ to = "healthy" => /\ ctl.pc = "apply" /\ ctl.verdict = "healthy"
                               /\ ctl.cur.env = e /\ ctl.cur.rev = r
    \/ \E e \in Env, r \in 1..MaxRevision : PromoteDeployment(e, r) /\ ran' = ran
    \/ \E e \in Env, r \in 1..MaxRevision, n \in Node : PlaceDeployment(e, r, n) /\ ran' = ran
    \/ \E n \in Node, e \in Env, r \in 1..MaxRevision, s \in Service, st \in Reported,
          port \in BOOLEAN : Report(n, e, r, s, st, port)
    \/ \E d \in Deployment :
          /\ ctl.pc = "teardown" /\ d \in ctl.first
          /\ DeleteInstances(d.env, d.rev) /\ ran' = ran /\ routes' = routes
    \/ \E expired \in SUBSET Preview : ExpireEnvironments(expired) /\ ran' = ran

(* The scheduler writes rows that way.                                     *)
LEMMA SchedulerWrites == ASSUME RInv, SchedulerStep PROVE RowWriter
<1>1. CASE ScheduleCommit
  <2>1. sched.cur.env \in Env /\ sched.cur.rev \in 1..MaxRevision /\ sched.node \in Node
    BY <1>1 DEF RInv, LoopsOK, SchedOK, Plan, ScheduleCommit
  <2>2. \/ PlaceDeployment(sched.cur.env, sched.cur.rev, sched.node)
        \/ deps' = deps
    BY <1>1 DEF ScheduleCommit, storeVars
  <2>3. ran' = ran
    BY <1>1 DEF ScheduleCommit
  <2>4. QED
    BY <2>1, <2>2, <2>3 DEF RowWriter
<1>2. CASE ScheduleFail
  <2>1. sched.cur.env \in Env /\ sched.cur.rev \in 1..MaxRevision
    BY <1>2 DEF RInv, LoopsOK, SchedOK, Plan, ScheduleFail
  <2>2. UpdateDeploymentState(sched.cur.env, sched.cur.rev, "failed") \/ deps' = deps
    BY <1>2 DEF ScheduleFail, TryUpdate, storeVars
  <2>3. ran' = ran
    BY <1>2 DEF ScheduleFail
  <2>4. QED
    BY <2>1, <2>2, <2>3 DEF RowWriter
<1>3. CASE ScheduleMark \/ ScheduleList \/ ScheduleScore \/ ScheduleDone
  BY <1>3, Zenon DEF ScheduleMark, ScheduleList, ScheduleScore, ScheduleDone, storeVars,
              MarkStaleNodesUnreachable, RowWriter
<1>4. ASSUME NEW d \in sched.todo, SchedulePlace(d) PROVE RowWriter
  BY <1>4 DEF SchedulePlace, storeVars, RowWriter
<1>5. QED
  BY <1>1, <1>2, <1>3, <1>4 DEF SchedulerStep

(* So does the controller.                                                 *)
LEMMA ControllerWrites == ASSUME RInv, ControllerStep PROVE RowWriter
<1>1. CASE ReconcileApply
  <2>1. /\ ctl.cur.env \in Env /\ ctl.cur.rev \in 1..MaxRevision
        /\ ctl.verdict \in {"starting", "healthy", "failed", "promote"}
    BY <1>1 DEF RInv, LoopsOK, CtlOK, Listed, ReconcileApply
  <2>2. \/ deps' = deps
        \/ PromoteDeployment(ctl.cur.env, ctl.cur.rev)
        \/ ctl.verdict # "promote"
           /\ UpdateDeploymentState(ctl.cur.env, ctl.cur.rev, ctl.verdict)
    BY <1>1 DEF ReconcileApply, TryPromote, TryUpdate, storeVars
  <2>3. ran' = ran /\ ctl.pc = "apply"
    BY <1>1 DEF ReconcileApply
  <2>4. CASE ctl.verdict # "promote"
             /\ UpdateDeploymentState(ctl.cur.env, ctl.cur.rev, ctl.verdict)
    BY <2>1, <2>3, <2>4, Zenon DEF RowWriter
  <2>5. QED
    BY <2>1, <2>2, <2>3, <2>4, Zenon DEF RowWriter
<1>2. ASSUME NEW d \in ctl.todo, ReconcileTeardown(d) PROVE RowWriter
  <2>1. /\ d \in Deployment /\ ctl.pc = "teardown" /\ d \in ctl.first
        /\ ran' = ran /\ routes' = routes
    BY <1>2 DEF RInv, LoopsOK, CtlOK, ReconcileTeardown, GraceOver
  <2>2. DeleteInstances(d.env, d.rev) \/ deps' = deps
    BY <1>2 DEF ReconcileTeardown, storeVars
  <2>3. QED
    BY <2>1, <2>2, Zenon DEF RowWriter
<1>3. ASSUME \/ ReconcileList \/ ReconcileRoutes \/ ReconcileSync \/ ReconcileSyncFails
             \/ ReconcileTerminal \/ ReconcileDone
             \/ \E d \in ctl.todo : ReconcileHold(d)
             \/ \E d \in ctl.todo, late \in BOOLEAN : ReconcileRead(d, late)
      PROVE  deps' = deps /\ ran' = ran
  BY <1>3, Zenon DEF ReconcileList, ReconcileRead, ReconcileRoutes, ReconcileSync, ReconcileSyncFails,
       ReconcileTerminal, ReconcileHold, ReconcileDone, storeVars
<1>4. QED
  BY <1>1, <1>2, <1>3, Zenon DEF ControllerStep, RowWriter

(* And everyone else.                                                      *)
LEMMA RowWriters == ASSUME RInv, [RolloutNext]_vars PROVE RowWriter
<1>1. CASE UNCHANGED vars
  BY <1>1 DEF vars, storeVars, loopVars, RowWriter
<1>2. CASE SchedulerStep
  BY <1>2, SchedulerWrites
<1>3. CASE ControllerStep
  BY <1>3, ControllerWrites
<1>4. CASE ApiStep
  <2>1. ASSUME NEW e \in Env, NEW v \in Version,
               Api(CreateDeployment(e, v) \/ CreatePreview(e, v))
        PROVE  RowWriter
    <3>1. OnlyAdded /\ ran' = ran
      BY <2>1, CreateEffect DEF Api, loopVars, RInv
    <3>2. QED
      BY <3>1 DEF RowWriter
  <2>2. ASSUME NEW e \in Env, NEW to \in 0..MaxRevision, Api(RollbackDeployment(e, to))
        PROVE  RowWriter
    <3> DEFINE v == Row(e, RollbackTarget(e, to)).version
    <3>1. RollbackTarget(e, to) \in DOMAIN deps[e]
      BY <2>2 DEF Api, RollbackDeployment, Revisions
    <3>2. Row(e, RollbackTarget(e, to)) \in DeploymentRow
      BY <3>1, Numbered DEF Row, RInv, IInv
    <3>3. v \in Version
      BY <3>2 DEF DeploymentRow
    <3>4. CreateDeployment(e, v) /\ ran' = ran
      BY <2>2 DEF Api, RollbackDeployment, loopVars
    <3> HIDE DEF v
    <3>5. OnlyAdded
      BY <3>3, <3>4, CreateEffect DEF RInv
    <3>6. QED
      BY <3>4, <3>5 DEF RowWriter
  <2>3. ASSUME NEW e \in Env, NEW r \in 1..MaxRevision, Api(PromoteDeployment(e, r))
        PROVE  RowWriter
    <3>1. PromoteDeployment(e, r) /\ ran' = ran
      BY <2>3 DEF Api, loopVars
    <3>2. QED
      BY <3>1 DEF RowWriter
  <2>4. ASSUME NEW n \in Node, Api(UncordonNode(n)) PROVE RowWriter
    BY <2>4 DEF Api, loopVars, UncordonNode, RowWriter
  <2>5. QED
    BY <1>4, <2>1, <2>2, <2>3, <2>4 DEF ApiStep
<1>5. CASE DrainStep
  <2>1. deps' = deps /\ ran' = ran
    BY <1>5 DEF DrainStep, DrainStart, DrainList, DrainRelease, DrainDone, DrainNode,
                ReleaseEnvironmentHome, storeVars
  <2>2. QED
    BY <2>1 DEF RowWriter
<1>6. CASE AgentStep
  <2>1. ASSUME NEW n \in Node, Api(Heartbeat(n) \/ \E c \in Capacity[n] : RegisterNode(n, c))
        PROVE  deps' = deps /\ ran' = ran
    BY <2>1 DEF Api, loopVars, Heartbeat, RegisterNode
  <2>2. QED
    BY <1>6, <2>1 DEF AgentStep, RowWriter
<1>7. CASE ReaperStep
  <2>1. ASSUME NEW expired \in SUBSET Preview, Api(ExpireEnvironments(expired)) PROVE RowWriter
    <3>1. ExpireEnvironments(expired) /\ ran' = ran
      BY <2>1 DEF Api, loopVars
    <3>2. QED
      BY <3>1 DEF RowWriter
  <2>2. ASSUME NEW old \in SUBSET tombstones, Api(SweepTombstones(old))
        PROVE  deps' = deps /\ ran' = ran
    BY <2>2 DEF Api, loopVars, SweepTombstones
  <2>3. QED
    BY <1>7, <2>1, <2>2, Zenon DEF ReaperStep, RowWriter
<1>8. CASE Silence \/ Restart
  <2>1. deps' = deps /\ ran' = ran
    BY <1>8 DEF Silence, Restart, Api, loopVars, HeartbeatAges, storeVars
  <2>2. QED
    BY <2>1 DEF RowWriter
<1>9. QED
  BY <1>1, <1>2, <1>3, <1>4, <1>5, <1>6, <1>7, <1>8 DEF RolloutNext

----------------------------------------------------------------------------
(* The health gate                                                         *)

(* A row that passed the gate, or would now, is in the history.            *)
RowGate ==
    \A e \in Env : \A r \in Revisions(e) :
       Row(e, r).state \in {"healthy", "live", "superseded"} \/ AllRunning(Row(e, r))
          => Dep(e, r) \in ran

(* So is what the controller decided to make healthy, what it read as      *)
(* routes, and what the router's file points at.                           *)
MemoryGate ==
    /\ ctl.pc = "apply" /\ ctl.verdict = "healthy" => Dep(ctl.cur.env, ctl.cur.rev) \in ran
    /\ ctl.pc = "sync" => \A e \in Env : ctl.read[e] # None => Dep(e, ctl.read[e].rev) \in ran
    /\ \A e \in Env : routes[e] # None => Dep(e, routes[e].rev) \in ran

GateInv == RInv /\ RowGate /\ MemoryGate

(* The gate holds of the rows after every step.                            *)
LEMMA RowGateKept == ASSUME GateInv, [RolloutNext]_vars PROVE RowGate' /\ ran \subseteq ran'
<1> USE DEF GateInv, RInv, IInv
<1>1. RowWriter
  BY RowWriters
<1>2. \A e \in Env : \A r \in DOMAIN deps[e] :
         deps[e][r].state \in {"healthy", "live", "superseded"} \/ AllRunning(deps[e][r])
            => Dep(e, r) \in ran
  BY DEF RowGate, Revisions, Row
<1>3. ASSUME NEW e \in Env, NEW r, OnlyRow(e, r), ran \subseteq ran',
             deps'[e][r].state \in {"healthy", "live", "superseded"} \/ AllRunning(deps'[e][r])
                => Dep(e, r) \in ran'
      PROVE  RowGate'
  BY <1>2, <1>3 DEF OnlyRow, RowGate, Revisions, Row
<1>4. CASE deps' = deps /\ ran' = ran
  BY <1>4 DEF RowGate, Revisions, Row
<1>5. CASE OnlyAdded /\ ran' = ran
  <2>1. ASSUME NEW e \in Env, NEW r \in DOMAIN deps'[e],
               deps'[e][r].state \in {"healthy", "live", "superseded"} \/ AllRunning(deps'[e][r])
        PROVE  Dep(e, r) \in ran
    BY <1>2, <1>5, <2>1 DEF OnlyAdded, AllRunning
  <2>2. QED
    BY <1>5, <2>1 DEF RowGate, Revisions, Row
<1>6. ASSUME NEW e \in Env, NEW r \in 1..MaxRevision, NEW to \in {"starting", "healthy", "failed"},
             UpdateDeploymentState(e, r, to), ran' = ran,
             to = "healthy" => /\ ctl.pc = "apply" /\ ctl.verdict = "healthy"
                               /\ ctl.cur.env = e /\ ctl.cur.rev = r
      PROVE  RowGate' /\ ran \subseteq ran'
  <2>1. OnlyRow(e, r) /\ SameBut(deps'[e][r], deps[e][r]) /\ deps'[e][r].state = to
    BY <1>6, UpdateEffect
  <2>2. to = "healthy" => Dep(e, r) \in ran
    BY <1>6 DEF MemoryGate
  <2>3. AllRunning(deps'[e][r]) => Dep(e, r) \in ran
    BY <1>2, <2>1 DEF AllRunning, SameBut, OnlyRow
  <2>4. QED
    BY <1>3, <1>6, <2>1, <2>2, <2>3
<1>7. ASSUME NEW e \in Env, NEW r \in 1..MaxRevision, PromoteDeployment(e, r), ran' = ran
      PROVE  RowGate' /\ ran \subseteq ran'
  <2>1. /\ \A f \in Env \ {e} : deps'[f] = deps[f]
        /\ DOMAIN deps'[e] = DOMAIN deps[e] /\ deps[e][r].state = "healthy"
        /\ \A q \in DOMAIN deps[e] :
              /\ SameBut(deps'[e][q], deps[e][q])
              /\ deps'[e][q].state = IF q = r THEN "live"
                                     ELSE IF q = live[e] THEN "superseded"
                                     ELSE deps[e][q].state
    BY <1>7, Promotion
  <2>2. live[e] \in DOMAIN deps[e] => deps[e][live[e]].state = "live"
    BY DEF LivePointer, Revisions, Row
  <2>3. ASSUME NEW q \in DOMAIN deps[e],
               deps'[e][q].state \in {"healthy", "live", "superseded"} \/ AllRunning(deps'[e][q])
        PROVE  Dep(e, q) \in ran
    <3>1. AllRunning(deps'[e][q]) <=> AllRunning(deps[e][q])
      BY <2>1 DEF AllRunning, SameBut
    <3>2. QED
      BY <1>2, <2>1, <2>2, <2>3, <3>1
  <2>4. QED
    BY <1>2, <1>7, <2>1, <2>3 DEF RowGate, Revisions, Row
<1>8. ASSUME NEW e \in Env, NEW r \in 1..MaxRevision, NEW n \in Node, PlaceDeployment(e, r, n),
             ran' = ran
      PROVE  RowGate' /\ ran \subseteq ran'
  <2>1. OnlyRow(e, r) /\ deps'[e][r].state = "scheduling" /\ ~AllRunning(deps'[e][r])
    BY <1>8, PlaceEffect DEF AllRunning
  <2>2. QED
    BY <1>3, <1>8, <2>1
<1>9. ASSUME NEW n \in Node, NEW e \in Env, NEW r \in 1..MaxRevision, NEW s \in Service,
             NEW st \in Reported, NEW port \in BOOLEAN, Report(n, e, r, s, st, port)
      PROVE  RowGate' /\ ran \subseteq ran'
  <2>1. ReportInstance(n, e, r, s, st, port)
    BY <1>9 DEF Report
  <2>2. OnlyRow(e, r) /\ deps'[e][r].state = deps[e][r].state
    BY <2>1, ReportEffect
  <2>3. ran \subseteq ran' /\ (AllRunning(deps'[e][r]) => Dep(e, r) \in ran')
    BY <1>9 DEF Report
  <2>4. deps'[e][r].state \in {"healthy", "live", "superseded"} => Dep(e, r) \in ran
    BY <1>2, <2>2 DEF OnlyRow
  <2>5. QED
    BY <1>3, <2>2, <2>3, <2>4
<1>10. ASSUME NEW d \in Deployment, DeleteInstances(d.env, d.rev), ran' = ran
       PROVE  RowGate' /\ ran \subseteq ran'
  <2>1. d.env \in Env
    BY DEF Deployment
  <2>2. /\ OnlyRow(d.env, d.rev) /\ deps'[d.env][d.rev].node = None
        /\ deps'[d.env][d.rev].state = deps[d.env][d.rev].state
    BY <1>10, <2>1, DeleteEffect
  <2>3. deps[d.env][d.rev].state \in {"healthy", "live", "superseded"} => Dep(d.env, d.rev) \in ran
    BY <1>2, <2>1, <2>2 DEF OnlyRow
  <2>4. ~AllRunning(deps'[d.env][d.rev])
    BY <2>2 DEF AllRunning
  <2>5. QED
    BY <1>3, <1>10, <2>1, <2>2, <2>3, <2>4
<1>11. ASSUME NEW expired \in SUBSET Preview, ExpireEnvironments(expired), ran' = ran
       PROVE  RowGate' /\ ran \subseteq ran'
  <2>1. \A e \in Env : deps'[e] = << >> \/ deps'[e] = deps[e]
    BY <1>11 DEF ExpireEnvironments
  <2>2. QED
    BY <1>2, <1>11, <2>1 DEF RowGate, Revisions, Row
<1>12. QED
  BY <1>1, <1>4, <1>5, <1>6, <1>7, <1>8, <1>9, <1>10, <1>11 DEF RowWriter

(* liveRoutes only names revisions that passed the gate.                   *)
LEMMA LiveRoutesGate ==
    ASSUME GateInv, NEW e \in Env, LiveRoutes[e] # None
    PROVE  Dep(e, LiveRoutes[e].rev) \in ran
<1>1. live[e] # 0 /\ LiveRoutes[e].rev = live[e]
  BY DEF LiveRoutes
<1>2. live[e] \in Revisions(e) /\ Row(e, live[e]).state = "live"
  BY <1>1 DEF GateInv, RInv, IInv, LivePointer
<1>3. QED
  BY <1>1, <1>2 DEF GateInv, RowGate

(* A verdict of healthy was reached with every instance running.           *)
LEMMA VerdictGate ==
    ASSUME GateInv, NEW d \in Listed, NEW late \in BOOLEAN,
           Verdict(d.state, InstanceStates(d.env, d.rev), late) = "healthy"
    PROVE  Dep(d.env, d.rev) \in ran
<1> DEFINE insts == InstanceStates(d.env, d.rev)
<1>1. insts = {"running"}
  BY DEF Verdict
<1>2. d.env \in Env /\ d.rev \in Revisions(d.env)
  BY <1>1 DEF InstanceStates, Listed
<1>3. \A s \in Service : Row(d.env, d.rev).inst[s] \in {"running", "absent"}
  BY <1>1, <1>2 DEF InstanceStates
<1>4. \E s \in Service : Row(d.env, d.rev).inst[s] # "absent"
  BY <1>1, <1>2 DEF InstanceStates
<1>5. Row(d.env, d.rev).node # None
  BY <1>2, <1>4 DEF GateInv, RInv, IInv, RowsMatchState
<1>6. QED
  BY <1>2, <1>3, <1>5 DEF AllRunning, GateInv, RowGate

(* What the controller and the router remember stays behind the gate.      *)
LEMMA MemoryGateKept == ASSUME GateInv, [RolloutNext]_vars PROVE MemoryGate'
<1>1. ran \subseteq ran'
  BY RowGateKept
<1>2. /\ ctl.pc = "apply" /\ ctl.verdict = "healthy" => Dep(ctl.cur.env, ctl.cur.rev) \in ran'
      /\ ctl.pc = "sync" => \A e \in Env : ctl.read[e] # None => Dep(e, ctl.read[e].rev) \in ran'
      /\ \A e \in Env : routes[e] # None => Dep(e, routes[e].rev) \in ran'
  BY <1>1 DEF GateInv, MemoryGate
<1>3. ASSUME ctl'.pc \notin {"apply", "sync"}, routes' = routes PROVE MemoryGate'
  BY <1>2, <1>3 DEF MemoryGate
<1>4. CASE UNCHANGED <<ctl, routes>>
  BY <1>2, <1>4 DEF MemoryGate
<1>5. CASE ControllerStep
  <2> USE DEF GateInv, RInv, LoopsOK, CtlOK
  <2>1. CASE ReconcileList \/ ReconcileApply \/ ReconcileTerminal
    BY <1>3, <2>1, Zenon DEF ReconcileList, ReconcileApply, ReconcileTerminal
  <2>2. ASSUME NEW d \in ctl.todo, NEW late \in BOOLEAN, ReconcileRead(d, late)
        PROVE  MemoryGate'
    <3> DEFINE verdict == Verdict(d.state, InstanceStates(d.env, d.rev), late)
               rest == [ctl EXCEPT !.todo = ctl.todo \ {d}]
    <3>1. ctl.pc = "advance" /\ d \in Listed /\ routes' = routes
      BY <2>2 DEF ReconcileRead
    <3>2. verdict = "healthy" => Dep(d.env, d.rev) \in ran'
      BY <1>1, <3>1, VerdictGate
    <3>3. ctl' = IF verdict = "none" THEN rest
                 ELSE [rest EXCEPT !.pc = "apply", !.cur = d, !.verdict = verdict]
      BY <2>2 DEF ReconcileRead
    <3> HIDE DEF verdict
    <3>4. CASE ctl' = rest
      BY <1>3, <3>1, <3>4
    <3>5. CASE ctl' = [rest EXCEPT !.pc = "apply", !.cur = d, !.verdict = verdict]
      <4>1. ctl'.pc = "apply" /\ ctl'.cur = d /\ ctl'.verdict = verdict
        BY <3>5
      <4>2. QED
        BY <1>2, <3>1, <3>2, <4>1 DEF MemoryGate
    <3>6. QED
      BY <3>3, <3>4, <3>5
  <2>3. CASE ReconcileRoutes
    <3>1. ctl'.pc = "sync" /\ ctl'.read = LiveRoutes /\ routes' = routes
      BY <2>3 DEF ReconcileRoutes
    <3>2. \A e \in Env : LiveRoutes[e] # None => Dep(e, LiveRoutes[e].rev) \in ran'
      BY <1>1, LiveRoutesGate
    <3>3. QED
      BY <1>2, <3>1, <3>2 DEF MemoryGate
  <2>4. CASE ReconcileSync
    <3>1. ctl.pc = "sync" /\ ctl'.pc = "terminal" /\ routes' = ctl.read
      BY <2>4 DEF ReconcileSync
    <3>2. QED
      BY <1>2, <3>1 DEF MemoryGate
  <2>5. CASE ReconcileSyncFails \/ ReconcileDone
    BY <1>3, <2>5 DEF ReconcileSyncFails, ReconcileDone, CtlIdle
  <2>6. ASSUME NEW d \in ctl.todo, ReconcileHold(d) \/ ReconcileTeardown(d) PROVE MemoryGate'
    <3>1. ctl.pc = "teardown" /\ ctl'.pc = "teardown" /\ routes' = routes
      BY <2>6, Zenon DEF ReconcileHold, ReconcileTeardown
    <3>2. QED
      BY <1>3, <3>1
  <2>7. QED
    BY <1>5, <2>1, <2>2, <2>3, <2>4, <2>5, <2>6 DEF ControllerStep
<1>6. CASE Restart
  BY <1>3, <1>6 DEF Restart, CtlIdle
<1>7. CASE SchedulerStep \/ ApiStep \/ DrainStep \/ AgentStep \/ ReaperStep \/ Silence
  <2>1. UNCHANGED <<ctl, routes>>
    BY <1>7, Zenon DEF SchedulerStep, ScheduleMark, ScheduleList, SchedulePlace, ScheduleScore,
         ScheduleCommit, ScheduleFail, ScheduleDone, ApiStep, DrainStep, DrainStart, DrainList,
         DrainRelease, DrainDone, AgentStep, Report, ReaperStep, Silence, Api, loopVars
  <2>2. QED
    BY <1>4, <2>1
<1>8. QED
  BY <1>4, <1>5, <1>6, <1>7 DEF RolloutNext, vars, loopVars

(* No revision passes advance's health gate without an instant at which    *)
(* all its instances ran, whatever lands between the controller's read,    *)
(* its verdict and its write.                                              *)
THEOREM HealthGateHolds == RolloutSpec => []HealthGate
<1>1. RolloutInit => GateInv
  <2> SUFFICES ASSUME RolloutInit PROVE GateInv
    OBVIOUS
  <2>1. \A e \in Env : DOMAIN deps[e] = {}
    BY DEF RolloutInit, Init
  <2>2. ctl.pc = "idle" /\ \A e \in Env : routes[e] = None
    BY DEF RolloutInit, CtlIdle
  <2>3. QED
    BY <2>1, <2>2, InitRInv DEF GateInv, RowGate, MemoryGate, Revisions
<1>2. GateInv /\ [RolloutNext]_vars => GateInv'
  BY NextRInv, RowGateKept, MemoryGateKept DEF GateInv
<1>3. GateInv => HealthGate
  BY DEF GateInv, RowGate, MemoryGate, HealthGate
<1>4. QED
  BY <1>1, <1>2, <1>3, PTL DEF RolloutSpec

----------------------------------------------------------------------------
(* Traffic is moved before anything is torn down                           *)

(* A table of routes that does not send traffic to d.                      *)
Off(table, d) == table[d.env] = None \/ table[d.env].rev # d.rev

(* What was terminal when this tick began gets no traffic from the routes  *)
(* the tick read, nor from the file once it has written them.              *)
TrafficGone ==
    /\ ctl.pc = "sync" => \A d \in ctl.first : Off(ctl.read, d)
    /\ ctl.pc \in {"terminal", "teardown"} => \A d \in ctl.first : Off(routes, d)

(* liveRoutes never routes to a dead deployment.                           *)
LEMMA LiveIsNotDead ==
    ASSUME IInv, NEW d \in Deployment, Dead(d) PROVE Off(LiveRoutes, d)
<1>1. d.env \in Env
  BY DEF Deployment
<1>2. LiveRoutes[d.env] # None => live[d.env] # 0 /\ LiveRoutes[d.env].rev = live[d.env]
  BY <1>1 DEF LiveRoutes
<1>3. live[d.env] # 0 => /\ live[d.env] \in DOMAIN deps[d.env]
                         /\ deps[d.env][live[d.env]].state = "live"
  BY <1>1 DEF IInv, LivePointer, Revisions, Row
<1>4. live[d.env] # 0 => live[d.env] # d.rev
  BY <1>1, <1>3 DEF Dead, Terminal, IInv, RowsOnlyPresent, Revisions, Row
<1>5. QED
  BY <1>2, <1>4 DEF Off

(* The ordering of ReconcileOnce keeps it.                                 *)
LEMMA TrafficGoneKept ==
    ASSUME RInv, TrafficGone, [RolloutNext]_vars PROVE TrafficGone'
<1>1. CASE UNCHANGED <<ctl, routes>>
  BY <1>1 DEF TrafficGone, Off
<1>2. ASSUME ctl'.pc \in {"idle", "advance", "apply"} PROVE TrafficGone'
  BY <1>2 DEF TrafficGone
<1>3. CASE ControllerStep
  <2> USE DEF RInv, LoopsOK, CtlOK
  <2>1. CASE ReconcileList \/ ReconcileApply
    BY <1>2, <2>1, Zenon DEF ReconcileList, ReconcileApply
  <2>2. ASSUME NEW d \in ctl.todo, NEW late \in BOOLEAN, ReconcileRead(d, late)
        PROVE  TrafficGone'
    <3>1. ctl'.pc \in {"advance", "apply"}
      BY <2>2 DEF ReconcileRead
    <3>2. QED
      BY <1>2, <3>1
  <2>3. CASE ReconcileRoutes
    <3>1. ctl'.pc = "sync" /\ ctl'.read = LiveRoutes /\ ctl'.first = ctl.first
      BY <2>3 DEF ReconcileRoutes
    <3>2. \A d \in ctl.first : Off(LiveRoutes, d)
      BY LiveIsNotDead DEF TornDown
    <3>3. QED
      BY <3>1, <3>2 DEF TrafficGone, Off
  <2>4. CASE ReconcileSync
    <3>1. ctl.pc = "sync" /\ ctl'.pc = "terminal" /\ ctl'.first = ctl.first /\ routes' = ctl.read
      BY <2>4 DEF ReconcileSync
    <3>2. QED
      BY <3>1 DEF TrafficGone, Off
  <2>5. CASE ReconcileSyncFails \/ ReconcileDone
    BY <1>2, <2>5 DEF ReconcileSyncFails, ReconcileDone, CtlIdle
  <2>6. ASSUME \/ ReconcileTerminal
               \/ \E d \in ctl.todo : ReconcileHold(d) \/ ReconcileTeardown(d)
        PROVE  TrafficGone'
    <3>1. /\ ctl.pc \in {"terminal", "teardown"} /\ ctl'.pc = "teardown"
          /\ ctl'.first = ctl.first /\ routes' = routes
      BY <2>6, Zenon DEF ReconcileTerminal, ReconcileHold, ReconcileTeardown
    <3>2. QED
      BY <3>1 DEF TrafficGone, Off
  <2>7. QED
    BY <1>3, <2>1, <2>2, <2>3, <2>4, <2>5, <2>6 DEF ControllerStep
<1>4. CASE Restart
  BY <1>2, <1>4 DEF Restart, CtlIdle
<1>5. CASE SchedulerStep \/ ApiStep \/ DrainStep \/ AgentStep \/ ReaperStep \/ Silence
  <2>1. UNCHANGED <<ctl, routes>>
    BY <1>5, Zenon DEF SchedulerStep, ScheduleMark, ScheduleList, SchedulePlace, ScheduleScore,
         ScheduleCommit, ScheduleFail, ScheduleDone, ApiStep, DrainStep, DrainStart, DrainList,
         DrainRelease, DrainDone, AgentStep, Report, ReaperStep, Silence, Api, loopVars
  <2>2. QED
    BY <1>1, <2>1
<1>6. QED
  BY <1>1, <1>3, <1>4, <1>5 DEF RolloutNext, vars, loopVars

(* Only the controller's teardown takes a row off its node, and then no    *)
(* traffic goes there.                                                     *)
LEMMA OffNode ==
    ASSUME RInv, TrafficGone, [RolloutNext]_vars, NEW e \in Env,
           NEW r \in DOMAIN deps[e] \cap DOMAIN deps'[e],
           deps[e][r].node # None, deps'[e][r].node = None
    PROVE  routes[e] = None \/ routes[e].rev # r
<1> USE DEF RInv, IInv
<1>1. RowWriter
  BY RowWriters
<1>2. ASSUME NEW f \in Env, NEW q, OnlyRow(f, q), deps'[f][q].node = deps[f][q].node
             \/ deps'[f][q].node # None
      PROVE  FALSE
  BY <1>2 DEF OnlyRow
<1>3. CASE deps' = deps
  BY <1>3
<1>4. CASE OnlyAdded
  BY <1>4 DEF OnlyAdded
<1>5. ASSUME NEW f \in Env, NEW q \in 1..MaxRevision, NEW to \in {"starting", "healthy", "failed"},
             UpdateDeploymentState(f, q, to)
      PROVE  FALSE
  BY <1>2, <1>5, UpdateEffect DEF SameBut
<1>6. ASSUME NEW f \in Env, NEW q \in 1..MaxRevision, PromoteDeployment(f, q) PROVE FALSE
  <2>1. CASE f = e
    BY <1>6, <2>1, Promotion DEF SameBut
  <2>2. CASE f # e
    BY <1>6, <2>2, Promotion
  <2>3. QED
    BY <2>1, <2>2
<1>7. ASSUME NEW f \in Env, NEW q \in 1..MaxRevision, NEW n \in Node, PlaceDeployment(f, q, n)
      PROVE  FALSE
  <2>1. OnlyRow(f, q) /\ deps'[f][q].node = n
    BY <1>7, PlaceEffect
  <2>2. QED
    BY <1>2, <2>1, NoneAssumption
<1>8. ASSUME NEW n \in Node, NEW f \in Env, NEW q \in 1..MaxRevision, NEW s \in Service,
             NEW st \in Reported, NEW port \in BOOLEAN, Report(n, f, q, s, st, port)
      PROVE  FALSE
  BY <1>2, <1>8, ReportEffect, Zenon DEF Report
<1>9. ASSUME NEW d \in Deployment, ctl.pc = "teardown", d \in ctl.first,
             DeleteInstances(d.env, d.rev)
      PROVE  routes[e] = None \/ routes[e].rev # r
  <2>1. d.env \in Env
    BY DEF Deployment
  <2>2. OnlyRow(d.env, d.rev)
    BY <1>9, <2>1, DeleteEffect
  <2>3. e = d.env /\ r = d.rev
    BY <2>2 DEF OnlyRow
  <2>4. Off(routes, d)
    BY <1>9 DEF TrafficGone
  <2>5. QED
    BY <2>3, <2>4 DEF Off
<1>10. ASSUME NEW expired \in SUBSET Preview, ExpireEnvironments(expired) PROVE FALSE
  <2>1. deps'[e] = << >> \/ deps'[e] = deps[e]
    BY <1>10 DEF ExpireEnvironments
  <2>2. QED
    BY <2>1
<1>11. QED
  BY <1>1, <1>3, <1>4, <1>5, <1>6, <1>7, <1>8, <1>9, <1>10, Zenon DEF RowWriter

(* Instance rows that the router's file points at are never deleted but    *)
(* with their environment, although the grace period is only counted in    *)
(* ticks and promotions land between any two steps of a tick.              *)
THEOREM TrafficMovesFirst == RolloutSpec => RouteBeforeTeardown
<1> DEFINE Moved == \A e \in Env : \A r \in Revisions(e) \cap DOMAIN deps'[e] :
                       Row(e, r).node # None /\ deps'[e][r].node = None
                          => routes[e] = None \/ routes[e].rev # r
<1>1. RolloutInit => TrafficGone
  BY DEF RolloutInit, CtlIdle, TrafficGone
<1>2. RInv /\ TrafficGone /\ [RolloutNext]_vars => RInv' /\ TrafficGone'
  BY NextRInv, TrafficGoneKept
<1>3. RInv /\ TrafficGone /\ [RolloutNext]_vars => [Moved]_vars
  BY OffNode DEF Revisions, Row
<1>4. QED
  BY <1>1, <1>2, <1>3, InitRInv, PTL DEF RolloutSpec, RouteBeforeTeardown

----------------------------------------------------------------------------
(* Placement                                                               *)

(* No placement takes a node past the capacity it has registered, however  *)
(* stale the fleet the scheduler scored.                                   *)
THEOREM NodesNotOvercommitted == RolloutSpec => NoOvercommit
<1> DEFINE Fit == \A n \in Node, res \in Resource :
                     alloc'[n][res] > alloc[n][res] => alloc'[n][res] <= cap[n][res]
<1>1. ASSUME IInv, [Next]_storeVars PROVE Fit
  <2>1. \A n \in Node, res \in Resource : alloc[n][res] \in Nat
    BY <1>1 DEF IInv, TypeOK
  <2>2. CASE alloc' = alloc
    BY <2>1, <2>2
  <2>3. ASSUME NEW e \in Env, NEW r \in 1..MaxRevision, NEW n \in Node, PlaceDeployment(e, r, n)
        PROVE  Fit
    <3>1. \A m \in Node, res \in Resource :
             /\ m # n => alloc'[m] = alloc[m]
             /\ alloc'[n][res] <= cap[n][res]
      BY <1>1, <2>3, PlaceAlloc DEF Taken
    <3>2. QED
      BY <2>1, <3>1
  <2>4. ASSUME NEW e \in Env, NEW r \in 1..MaxRevision, DeleteTerminal(e, r) PROVE Fit
    <3>1. DeleteInstances(e, r)
      BY <2>4 DEF DeleteTerminal
    <3>2. deps[e][r].node \in Node
      BY <1>1, <3>1, DeleteEffect DEF IInv
    <3>3. GivenBack(e, r)
      BY <1>1, <3>1, DeleteAlloc
    <3>4. ASSUME NEW m \in Node, NEW res \in Resource PROVE ~(alloc'[m][res] > alloc[m][res])
      BY <2>1, <3>2, <3>3 DEF GivenBack
    <3>5. QED
      BY <3>4
  <2>5. QED
    BY <1>1, <2>2, <2>3, <2>4, AllocWriters
<1>2. RInv /\ [RolloutNext]_vars => [Fit]_vars
  BY <1>1, RolloutIsStore DEF RInv
<1>3. QED
  BY <1>2, RolloutInvariance, PTL DEF RolloutSpec, NoOvercommit

(* Only a first placement, a release and an expiry write an environment's  *)
(* home.                                                                   *)
LEMMA HomeWriters ==
    ASSUME TypeOK, [Next]_storeVars, NEW e \in Env
    PROVE  \/ home'[e] = home[e]
           \/ \E n \in Node, r \in 1..MaxRevision :
                 PlaceDeployment(e, r, n) /\ home[e] = None /\ home'[e] = n
           \/ ReleaseEnvironmentHome(e)
           \/ envState'[e] = "deleted"
<1>1. CASE home' = home
  BY <1>1
<1>2. CASE NodeStep
  BY <1>1, <1>2, Zenon DEF NodeStep, MarkStaleNodesUnreachable, RegisterNode, Heartbeat, HeartbeatAges,
                    DrainNode, UncordonNode, envVars
<1>3. ASSUME NEW f \in Env, ReleaseEnvironmentHome(f)
      PROVE  home'[e] = home[e] \/ ReleaseEnvironmentHome(e)
  BY <1>3, Zenon DEF ReleaseEnvironmentHome, TypeOK
<1>4. ASSUME NEW expired \in SUBSET Preview, ExpireEnvironments(expired)
      PROVE  home'[e] = home[e] \/ envState'[e] = "deleted"
  BY <1>4 DEF ExpireEnvironments
<1>5. CASE EnvironmentStep
  BY <1>1, <1>3, <1>4, <1>5 DEF EnvironmentStep, CreatePreview, SweepTombstones
<1>6. ASSUME NEW f \in Env, NEW r \in 1..MaxRevision, NEW n \in Node, PlaceDeployment(f, r, n)
      PROVE  \/ home'[e] = home[e]
             \/ PlaceDeployment(e, r, n) /\ home[e] = None /\ home'[e] = n
  <2>1. home' = [home EXCEPT ![f] = n] /\ home[f] \in {None, n}
    BY <1>6 DEF PlaceDeployment, PlaceConflicts
  <2>2. QED
    BY <1>6, <2>1 DEF TypeOK
<1>7. ASSUME NEW f \in Env, DeploymentStep(f),
             ~ \E r \in 1..MaxRevision, n \in Node : PlaceDeployment(f, r, n)
      PROVE  home' = home
  BY <1>7, Zenon DEF DeploymentStep, CreateDeployment, UpdateDeploymentState, PromoteDeployment,
              DeleteTerminal, DeleteInstances, ReportInstance, envVars
<1>8. QED
  BY <1>1, <1>2, <1>5, <1>6, <1>7, Zenon DEF Next, storeVars

(* A drain never takes an environment's home from under a live spec that   *)
(* is pinned or mounts a volume, whatever is promoted between its listing  *)
(* and its releases.                                                       *)
THEOREM DurableStaysHome == RolloutSpec => DurableStays
<1> DEFINE Durable(e) == \E s \in DOMAIN Spec[Row(e, live[e]).version] :
                            LET def == Spec[Row(e, live[e]).version][s]
                            IN  ~def.swappable \/ def.volume
           Stay == \A e \in Env :
                      /\ envState'[e] = "present" /\ live[e] # 0 /\ home[e] # None
                      /\ Durable(e)
                      => home'[e] = home[e]
<1>1. ASSUME IInv, [Next]_storeVars, NEW e \in Env,
             envState'[e] = "present", live[e] # 0, home[e] # None, Durable(e)
      PROVE  home'[e] = home[e]
  <2>1. ~ReleaseEnvironmentHome(e)
    BY <1>1, Zenon DEF ReleaseEnvironmentHome, Releasable, DurableReasons, PinnedServices, Row
  <2>2. QED
    BY <1>1, <2>1, HomeWriters DEF IInv
<1>2. RInv /\ [RolloutNext]_vars => [Stay]_vars
  BY <1>1, RolloutIsStore, Zenon DEF RInv
<1>3. QED
  BY <1>2, RolloutInvariance, PTL DEF RolloutSpec, DurableStays

(* Where no drain is asked for, none runs.                                 *)
LEMMA DrainStaysIdle ==
    ASSUME "drain" \notin Faults, drain = DrainIdle, [RolloutNext]_vars
    PROVE  drain' = DrainIdle
<1>1. CASE SchedulerStep
  BY <1>1, Zenon DEF SchedulerStep, ScheduleMark, ScheduleList, SchedulePlace, ScheduleScore,
       ScheduleCommit, ScheduleFail, ScheduleDone
<1>2. CASE ControllerStep
  BY <1>2, Zenon DEF ControllerStep, ReconcileList, ReconcileRead, ReconcileApply, ReconcileRoutes,
     ReconcileSync, ReconcileSyncFails, ReconcileTerminal, ReconcileHold, ReconcileTeardown,
     ReconcileDone
<1>3. CASE ApiStep \/ AgentStep \/ ReaperStep \/ Silence
  BY <1>3, Zenon DEF ApiStep, AgentStep, ReaperStep, Silence, Api, Report, loopVars
<1>4. CASE DrainStep
  BY <1>4 DEF DrainStep, DrainStart, DrainList, DrainRelease, DrainDone, DrainIdle
<1>5. QED
  BY <1>1, <1>2, <1>3, <1>4 DEF RolloutNext, Restart, vars, loopVars

(* Where no drain runs, nothing un-homes an environment but its expiry.    *)
LEMMA HomeIsKept ==
    ASSUME TypeOK, "drain" \notin Faults, drain = DrainIdle, [RolloutNext]_vars, NEW e \in Env
    PROVE  home[e] = None \/ home'[e] = home[e] \/ envState'[e] = "deleted"
<1>1. CASE UNCHANGED vars
  BY <1>1, Zenon DEF vars, storeVars, loopVars
<1>2. CASE Restart
  BY <1>2 DEF Restart, storeVars
<1>3. CASE SchedulerStep
  <2>1. CASE ScheduleCommit
    <3>1. home' = home \/ PlaceDeployment(sched.cur.env, sched.cur.rev, sched.node)
      BY <2>1 DEF ScheduleCommit, storeVars
    <3>2. ASSUME PlaceDeployment(sched.cur.env, sched.cur.rev, sched.node)
          PROVE  home[e] = None \/ home'[e] = home[e]
      <4>1. /\ home' = [home EXCEPT ![sched.cur.env] = sched.node]
            /\ home[sched.cur.env] \in {None, sched.node}
        BY <3>2 DEF PlaceDeployment, PlaceConflicts
      <4>2. QED
        BY <4>1 DEF TypeOK
    <3>3. QED
      BY <3>1, <3>2
  <2>2. CASE ~ScheduleCommit
    <3>1. home' = home
      BY <1>3, <2>2, Zenon DEF SchedulerStep, ScheduleMark, ScheduleList, SchedulePlace, ScheduleScore,
           ScheduleFail, ScheduleDone, TryUpdate, UpdateDeploymentState, storeVars, envVars,
           MarkStaleNodesUnreachable
    <3>2. QED
      BY <3>1
  <2>3. QED
    BY <2>1, <2>2
<1>4. CASE ControllerStep
  <2>1. home' = home
    BY <1>4, Zenon DEF ControllerStep, ReconcileList, ReconcileRead, ReconcileApply, ReconcileRoutes,
       ReconcileSync, ReconcileSyncFails, ReconcileTerminal, ReconcileHold, ReconcileTeardown,
       ReconcileDone, TryUpdate, TryPromote, UpdateDeploymentState, PromoteDeployment,
       DeleteInstances, storeVars, envVars
  <2>2. QED
    BY <2>1
<1>5. CASE ApiStep \/ AgentStep \/ Silence
  <2>1. CASE ApiStep
    BY <2>1 DEF ApiStep, Api, CreatePreview, CreateDeployment, RollbackDeployment,
         PromoteDeployment, UncordonNode, envVars
  <2>2. ASSUME NEW n \in Node, Heartbeat(n) \/ HeartbeatAges(n) \/ \E c \in Capacity[n] : RegisterNode(n, c)
        PROVE  home' = home
    BY <2>2 DEF Heartbeat, HeartbeatAges, RegisterNode, envVars
  <2>3. ASSUME NEW n, NEW f, NEW r, NEW s, NEW st, NEW port, Report(n, f, r, s, st, port)
        PROVE  home' = home
    BY <2>3 DEF Report, ReportInstance, envVars
  <2>4. QED
    BY <1>5, <2>1, <2>2, <2>3, Zenon DEF AgentStep, Silence, Api
<1>6. CASE DrainStep
  BY <1>6 DEF DrainStep, DrainStart, DrainList, DrainRelease, DrainDone, DrainIdle
<1>7. CASE ReaperStep
  <2>1. ASSUME NEW expired \in SUBSET Preview, Api(ExpireEnvironments(expired))
        PROVE  home'[e] = home[e] \/ envState'[e] = "deleted"
    BY <2>1 DEF Api, ExpireEnvironments
  <2>2. ASSUME NEW old \in SUBSET tombstones, Api(SweepTombstones(old))
        PROVE  home' = home
    BY <2>2 DEF Api, SweepTombstones
  <2>3. QED
    BY <1>7, <2>1, <2>2 DEF ReaperStep
<1>8. QED
  BY <1>1, <1>2, <1>3, <1>4, <1>5, <1>6, <1>7 DEF RolloutNext

(* While no drain runs, every row of an environment is on its home node:   *)
(* the home PlaceDeployment binds or checks under the environment's lock,  *)
(* whatever home the scheduler read.  (With a drain in between it is not   *)
(* so: the run "misrouted".)                                               *)
THEOREM RowsAtHome ==
    ASSUME "drain" \notin Faults
    PROVE  RolloutSpec => []PlacedAtHome
<1> DEFINE HomeInv == RInv /\ drain = DrainIdle /\ PlacedAtHome
<1>1. RolloutInit => HomeInv
  <2>1. RolloutInit => drain = DrainIdle /\ PlacedAtHome
    BY DEF RolloutInit, Init, PlacedAtHome, Revisions
  <2>2. QED
    BY <2>1, InitRInv
<1>2. ASSUME HomeInv, [RolloutNext]_vars PROVE HomeInv'
  <2>1. RInv' /\ IInv /\ IInv' /\ TypeOK
    BY <1>2, NextRInv DEF RInv, IInv
  <2>2. [Next]_storeVars
    BY <1>2, RolloutIsStore
  <2>3. /\ drain' = DrainIdle
        /\ \A e \in Env : home[e] = None \/ home'[e] = home[e] \/ envState'[e] = "deleted"
    <3>1. drain' = DrainIdle
      BY <1>2, DrainStaysIdle
    <3>2. ASSUME NEW e \in Env
          PROVE  home[e] = None \/ home'[e] = home[e] \/ envState'[e] = "deleted"
      BY <1>2, <2>1, HomeIsKept
    <3>3. QED
      BY <3>1, <3>2
  <2>4. \A e \in Env : envState'[e] = "deleted" => DOMAIN deps'[e] = {}
    BY <2>1 DEF IInv, RowsOnlyPresent
  <2>5. \A e \in Env : \A q \in DOMAIN deps[e] : deps[e][q].node \in {None, home[e]}
    BY <1>2 DEF PlacedAtHome, Revisions, Row
  <2>6. ASSUME NEW e \in Env, NEW q \in DOMAIN deps'[e] PROVE deps'[e][q].node \in {None, home'[e]}
    <3>1. home[e] = None \/ home'[e] = home[e]
      BY <2>3, <2>4
    <3>2. CASE NodesKept
      BY <2>5, <3>1, <3>2 DEF NodesKept
    <3>3. ASSUME NEW f \in Env, NEW r \in 1..MaxRevision, NEW n \in Node, PlaceDeployment(f, r, n)
          PROVE  deps'[e][q].node \in {None, home'[e]}
      <4>1. OnlyRow(f, r) /\ deps'[f][r].node = n
        BY <2>1, <3>3, PlaceEffect
      <4>2. home'[f] = n
        BY <2>1, <3>3 DEF PlaceDeployment, TypeOK
      <4>3. QED
        BY <2>5, <3>1, <4>1, <4>2 DEF OnlyRow
    <3>4. ASSUME NEW f \in Env, NEW r \in 1..MaxRevision, DeleteTerminal(f, r)
          PROVE  deps'[e][q].node \in {None, home'[e]}
      <4>1. OnlyRow(f, r) /\ deps'[f][r].node = None
        BY <2>1, <3>4, DeleteEffect DEF DeleteTerminal
      <4>2. QED
        BY <2>5, <3>1, <4>1 DEF OnlyRow
    <3>5. ASSUME NEW expired \in SUBSET Preview, ExpireEnvironments(expired)
          PROVE  deps'[e][q].node \in {None, home'[e]}
      <4>1. DOMAIN deps'[e] = {} \/ deps'[e] = deps[e]
        <5>1. deps' = [f \in Env |-> IF f \in expired THEN << >> ELSE deps[f]]
          BY <3>5 DEF ExpireEnvironments
        <5>2. deps'[e] = IF e \in expired THEN << >> ELSE deps[e]
          BY <5>1
        <5>3. QED
          BY <5>2
      <4>2. QED
        BY <2>5, <3>1, <4>1
    <3>6. QED
      BY <2>1, <2>2, <3>2, <3>3, <3>4, <3>5, NodeWriters
  <2>7. QED
    BY <2>1, <2>3, <2>6 DEF PlacedAtHome, Revisions, Row
<1>3. QED
  BY <1>1, <1>2, PTL DEF RolloutSpec

=============================================================================
