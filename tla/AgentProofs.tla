---------------------------- MODULE AgentProofs ----------------------------
(***************************************************************************)
(* Proofs of Agent's safety properties for every value of its constants.   *)
(***************************************************************************)
EXTENDS Agent, SequenceTheorems, TLAPS

(* The rows of a deleted environment are gone, and only such environments  *)
(* are torn down; RemoveEnv comes after the last row has been ensured.     *)
DeletedHasNoRows == \A e \in Env : envState[e] # "present" => DOMAIN revs[e] = {}
TeardownIsDeleted == \A e \in ag.teardown : envState[e] # "present"
EnsuredFirst == ag.pc \notin {"secrets", "tombstones", "ensure"} => ag.todo = {}

(* Nothing of a destroyed environment is left, nor is left to be ensured.  *)
DestroyedStaysGone ==
    \A e \in destroyed :
       /\ envState[e] # "present"
       /\ \A i \in ag.todo : i.env # e
       /\ \A n \in Name : n.env = e => ctr[n].status = "absent"
       /\ \A p \in nets : p.env # e
       /\ e \notin vols

(* What the agent runs, and what it was told to run, is of revisions that  *)
(* the control plane has made.                                             *)
RevisionsExist ==
    /\ \A i \in ag.rows : envState[i.env] = "present" => i.rev \in DOMAIN revs[i.env]
    /\ \A p \in nets : envState[p.env] = "present" => p.rev \in DOMAIN revs[p.env]
    /\ \A n \in Name : envState[n.env] = "present" /\ ctr[n].status # "absent"
                         => n.rev \in DOMAIN revs[n.env] \cup {0}

(* During a tick, what Docker has of a wanted revision is of that tick's   *)
(* rows: a revision the tick was not told of is too new to have anything.  *)
WantedWasRead ==
    ag.pc # "idle" =>
       /\ \A n \in Name : n.rev \in Wanted(n.env) /\ ctr[n].status # "absent"
                            => \E i \in ag.rows : n = ContainerName(i)
       /\ \A p \in nets : p.rev \in Wanted(p.env) => \E i \in ag.rows : p = ProjectName(i)
NetworksHaveServices == nets # {} => Service # {}

(* A row is known by its instance; one still to be ensured has not been    *)
(* reported, and firstRunning holds what was up when it was last seen.     *)
OneRowEach == \A i, j \in ag.rows : InstanceID(i) = InstanceID(j) => i = j
ReportedOnce == \A i \in ag.todo : InstanceID(i) \notin ag.up
FirstSeen == \A id \in firstRunning : streak[id] >= 1

AgentInvariant ==
    /\ AgentTypeOK
    /\ DeletedHasNoRows /\ TeardownIsDeleted /\ EnsuredFirst /\ DestroyedStaysGone
    /\ RevisionsExist /\ WantedWasRead /\ NetworksHaveServices
    /\ OneRowEach /\ ReportedOnce /\ FirstSeen /\ DebouncedReport

----------------------------------------------------------------------------
(* Types                                                                   *)

(* A desired row names an instance, a container and a project.             *)
LEMMA RowNames ==
    ASSUME NEW i \in Row
    PROVE  /\ InstanceID(i) \in Instance
           /\ ContainerName(i) \in Name
           /\ ProjectName(i) \in Project
           /\ i.env \in Env /\ i.rev \in Revision /\ i.svc \in Service /\ i.def \in Def
           /\ ContainerName(i).env = i.env /\ ContainerName(i).svc = i.svc
           /\ ContainerName(i).rev = IF i.svc \in Swappable THEN i.rev ELSE 0
           /\ InstanceID(i).svc = i.svc
<1>1. i.env \in Env /\ i.rev \in Revision /\ i.svc \in Service /\ i.def \in Def
  BY DEF Row
<1>2. InstanceID(i) \in Instance /\ ProjectName(i) \in Project
  BY <1>1 DEF Instance, Project, InstanceID, ProjectName
<1>3. ContainerName(i) = ContainerName(InstanceID(i))
  BY DEF ContainerName, InstanceID
<1>4. ContainerName(i) \in Name
  BY <1>2, <1>3 DEF Name
<1>5. QED
  BY <1>1, <1>2, <1>4 DEF ContainerName, InstanceID

(* A container's name says its environment and its service.                *)
LEMMA NameFields ==
    ASSUME NEW n \in Name
    PROVE  n.env \in Env /\ n.svc \in Service /\ (n.svc \notin Swappable => n.rev = 0)
BY DEF Name, Instance, ContainerName

(* The revisions of an environment are numbered from 1.                    *)
LEMMA RevisionsNumbered ==
    ASSUME AgentTypeOK, NEW e \in Env
    PROVE  /\ revs[e] \in Seq(RevisionRow)
           /\ Len(revs[e]) \in Nat /\ Len(revs[e]) <= MaxRevision
           /\ DOMAIN revs[e] = 1..Len(revs[e])
           /\ DOMAIN revs[e] \subseteq Revision
           /\ \A r \in DOMAIN revs[e] : revs[e][r] \in RevisionRow
<1>1. revs[e] \in Seq(RevisionRow) /\ Len(revs[e]) <= MaxRevision
  BY DEF AgentTypeOK
<1>2. Len(revs[e]) \in Nat /\ DOMAIN revs[e] = 1..Len(revs[e])
  BY <1>1, LenProperties
<1>3. DOMAIN revs[e] \subseteq Revision
  BY <1>1, <1>2, AgentAssumption DEF Revision, AgentAssumption
<1>4. QED
  BY <1>1, <1>2, <1>3, ElementOfSeq

(* What an update of a deployment's row leaves.                            *)
LEMMA RowUpdated ==
    ASSUME NEW x \in RevisionRow, NEW phase \in Phase, NEW running \in SUBSET Service
    PROVE  /\ [x EXCEPT !.phase = phase, !.running = running] \in RevisionRow
           /\ [x EXCEPT !.phase = phase, !.running = running].phase = phase
           /\ [x EXCEPT !.running = running] \in RevisionRow
           /\ [x EXCEPT !.running = running].phase = x.phase
<1>1. [x EXCEPT !.phase = phase, !.running = running] \in RevisionRow
  BY Zenon DEF RevisionRow
<1>2. [x EXCEPT !.phase = phase, !.running = running].phase = phase
  BY DEF RevisionRow
<1>3. [x EXCEPT !.running = running] \in RevisionRow
  BY DEF RevisionRow
<1>4. [x EXCEPT !.running = running].phase = x.phase
  BY DEF RevisionRow
<1>5. QED
  BY <1>1, <1>2, <1>3, <1>4

(* Rewriting rows in place keeps an environment's revisions a sequence.    *)
LEMMA RowsRewritten ==
    ASSUME NEW s \in Seq(RevisionRow), NEW t,
           t = [q \in DOMAIN s |-> t[q]],
           \A q \in DOMAIN s : t[q] \in RevisionRow
    PROVE  t \in Seq(RevisionRow) /\ Len(t) = Len(s) /\ DOMAIN t = DOMAIN s
<1>1. Len(s) \in Nat /\ DOMAIN s = 1..Len(s)
  BY LenProperties
<1>2. t \in [1..Len(s) -> RevisionRow]
  BY <1>1
<1>3. QED
  BY <1>1, <1>2

(* A tick starts, and ends, with nothing in hand.                          *)
LEMMA IdleFields ==
    /\ Idle \in TickState
    /\ Idle.pc = "idle" /\ Idle.rows = {} /\ Idle.todo = {} /\ Idle.up = {}
    /\ Idle.teardown = {}
BY AgentAssumption DEF Idle, TickState, AgentAssumption

(* ReportInstances rewrites rows of rollouts in place and moves no phase.  *)
LEMMA ReportRewrites ==
    ASSUME AgentTypeOK, NEW sent, Report(sent)
    PROVE  /\ revs' \in [Env -> Seq(RevisionRow)]
           /\ \A e \in Env : /\ Len(revs'[e]) = Len(revs[e]) /\ DOMAIN revs'[e] = DOMAIN revs[e]
                             /\ \A r \in DOMAIN revs[e] : revs'[e][r].phase = revs[e][r].phase
<1> DEFINE of(S, e, r) == {i.svc : i \in {j \in S : j.env = e /\ j.rev = r}}
           running(e, r) == IF r \in InPhase(e, "rollout")
                            THEN (revs[e][r].running \ of(sent, e, r)) \cup of(sent \cap ag.up, e, r)
                            ELSE revs[e][r].running
           rows(e) == [r \in DOMAIN revs[e] |-> [revs[e][r] EXCEPT !.running = running(e, r)]]
<1>1. revs' = [e \in Env |-> rows(e)]
  BY DEF Report
<1>2. \A e \in Env : \A r \in DOMAIN revs[e] : running(e, r) \in SUBSET Service
  <2> SUFFICES ASSUME NEW e \in Env, NEW r \in DOMAIN revs[e] PROVE running(e, r) \in SUBSET Service
    OBVIOUS
  <2>1. sent \cap ag.up \subseteq Instance
    BY DEF AgentTypeOK, TickState
  <2>2. of(sent \cap ag.up, e, r) \subseteq Service
    BY <2>1 DEF Instance
  <2>3. revs[e][r].running \in SUBSET Service
    BY RevisionsNumbered DEF RevisionRow
  <2> HIDE DEF of
  <2>4. QED
    BY <2>2, <2>3
<1>3. ASSUME NEW e \in Env
      PROVE  /\ rows(e) \in Seq(RevisionRow) /\ Len(rows(e)) = Len(revs[e])
             /\ DOMAIN rows(e) = DOMAIN revs[e]
             /\ \A r \in DOMAIN revs[e] : rows(e)[r].phase = revs[e][r].phase
  <2>0. \A r \in DOMAIN revs[e] : running(e, r) \in SUBSET Service
    BY <1>2
  <2> HIDE DEF running
  <2>1. \A r \in DOMAIN revs[e] :
           /\ [revs[e][r] EXCEPT !.running = running(e, r)] \in RevisionRow
           /\ [revs[e][r] EXCEPT !.running = running(e, r)].phase = revs[e][r].phase
    <3> TAKE r \in DOMAIN revs[e]
    <3>1. revs[e][r] \in RevisionRow /\ revs[e][r].phase \in Phase
      BY RevisionsNumbered DEF RevisionRow
    <3>2. QED
      BY <2>0, <3>1, RowUpdated, Zenon
  <2>2. rows(e) = [r \in DOMAIN revs[e] |-> rows(e)[r]]
    OBVIOUS
  <2>3. \A r \in DOMAIN revs[e] : rows(e)[r] \in RevisionRow /\ rows(e)[r].phase = revs[e][r].phase
    BY <2>1
  <2> HIDE DEF rows
  <2>4. QED
    BY <2>2, <2>3, RowsRewritten, RevisionsNumbered, Zenon
<1> HIDE DEF rows
<1>4. revs' \in [Env -> Seq(RevisionRow)] /\ \A e \in Env : revs'[e] = rows(e)
  BY <1>1, <1>3
<1>5. QED
  BY <1>3, <1>4

(* Every step keeps the types.                                             *)
LEMMA TypeStep ==
    ASSUME AgentTypeOK, AgentNext
    PROVE  AgentTypeOK'
<1> USE AgentAssumption DEF AgentAssumption
<1> DEFINE CpOK == /\ revs \in [Env -> Seq(RevisionRow)]
                   /\ \A e \in Env : Len(revs[e]) <= MaxRevision
                   /\ secret \in [Env -> 1..MaxSecret]
                   /\ envState \in [Env -> {"present", "tombstoned", "swept"}]
           DockerOK == ctr \in [Name -> Container] /\ nets \subseteq Project /\ vols \subseteq Env
           TickOK == ag \in TickState /\ ag.todo \subseteq ag.rows
           MemoryOK == /\ known \subseteq Env /\ tornDown \subseteq Env
                       /\ firstRunning \subseteq Instance /\ restarts \in 0..MaxRestarts
           HistoryOK == destroyed \subseteq Env /\ streak \in [Instance -> 0..2]
<1>0. CpOK /\ DockerOK /\ TickOK /\ MemoryOK /\ HistoryOK
  BY DEF AgentTypeOK
<1> SUFFICES CpOK' /\ DockerOK' /\ TickOK' /\ MemoryOK' /\ HistoryOK'
  BY DEF AgentTypeOK
<1>1. ASSUME ControlPlane PROVE CpOK' /\ DockerOK' /\ TickOK' /\ MemoryOK' /\ HistoryOK'
  <2>1. DockerOK' /\ TickOK' /\ MemoryOK' /\ HistoryOK'
    BY <1>0, <1>1, Zenon DEF ControlPlane, Deploy, Promote, FailRollout, RotateSecret, Expire, Sweep,
                      docker, memory, history
  <2>2. ASSUME NEW e \in Env, NEW def \in Def, Deploy(e, def) PROVE CpOK'
    <3> DEFINE row == [def |-> def, phase |-> "rollout", running |-> {}]
    <3>1. row \in RevisionRow
      BY DEF RevisionRow, Phase
    <3>2. Append(revs[e], row) \in Seq(RevisionRow) /\ Len(Append(revs[e], row)) <= MaxRevision
      BY <2>2, <3>1, RevisionsNumbered, AppendProperties DEF Deploy
    <3> HIDE DEF row
    <3>3. revs' = [revs EXCEPT ![e] = Append(revs[e], row)] /\ UNCHANGED <<secret, envState>>
      BY <2>2 DEF Deploy, row
    <3>4. QED
      BY <1>0, <3>2, <3>3
  <2>3. ASSUME NEW e \in Env, NEW r, Promote(e, r) PROVE CpOK'
    <3> DEFINE t == [q \in DOMAIN revs[e] |->
                      [revs[e][q] EXCEPT !.phase = IF q = r THEN "live" ELSE "gone", !.running = {}]]
    <3>1. \A q \in DOMAIN revs[e] : t[q] \in RevisionRow
      BY RevisionsNumbered, RowUpdated, Zenon DEF Phase
    <3>2. t \in Seq(RevisionRow) /\ Len(t) = Len(revs[e])
      <4>1. t = [q \in DOMAIN revs[e] |-> t[q]]
        BY Zenon
      <4> HIDE DEF t
      <4>2. QED
        BY <3>1, <4>1, RowsRewritten, RevisionsNumbered, Zenon
    <3>3. revs' = [revs EXCEPT ![e] = t] /\ UNCHANGED <<secret, envState>>
      BY <2>3, Zenon DEF Promote
    <3> HIDE DEF t
    <3>4. QED
      BY <1>0, <3>2, <3>3
  <2>4. ASSUME NEW e \in Env, NEW r, FailRollout(e, r) PROVE CpOK'
    <3> DEFINE t == [revs[e] EXCEPT ![r] = [[@ EXCEPT !.phase = "gone"] EXCEPT !.running = {}]]
    <3>1. r \in DOMAIN revs[e]
      BY <2>4 DEF FailRollout, InPhase
    <3>2. [[revs[e][r] EXCEPT !.phase = "gone"] EXCEPT !.running = {}] \in RevisionRow
      BY <3>1, RevisionsNumbered, RowUpdated, Zenon DEF Phase
    <3>3. t \in Seq(RevisionRow) /\ Len(t) = Len(revs[e])
      BY <3>1, <3>2, RevisionsNumbered, ExceptSeq
    <3>4. revs' = [revs EXCEPT ![e] = t] /\ UNCHANGED <<secret, envState>>
      BY <1>0, <2>4, <3>1, Zenon DEF FailRollout
    <3> HIDE DEF t
    <3>5. QED
      BY <1>0, <3>3, <3>4
  <2>5. ASSUME NEW e \in Env, RotateSecret(e) PROVE CpOK'
    BY <1>0, <2>5 DEF RotateSecret
  <2>6. ASSUME NEW e \in Env, Expire(e) PROVE CpOK'
    <3>1. << >> \in Seq(RevisionRow) /\ Len(<< >>) <= MaxRevision
      BY EmptySeq
    <3>2. QED
      BY <1>0, <2>6, <3>1 DEF Expire
  <2>7. ASSUME NEW e \in Env, Sweep(e) PROVE CpOK'
    BY <1>0, <2>7 DEF Sweep
  <2>8. QED
    BY <1>1, <2>1, <2>2, <2>3, <2>4, <2>5, <2>6, <2>7 DEF ControlPlane
<1>2. ASSUME ReadInstances \/ ReadSecrets \/ ReadTombstones \/ TickFails
      PROVE  CpOK' /\ DockerOK' /\ TickOK' /\ MemoryOK' /\ HistoryOK'
  <2>1. CpOK' /\ DockerOK' /\ MemoryOK' /\ HistoryOK'
    BY <1>0, <1>2 DEF ReadInstances, ReadSecrets, ReadTombstones, TickFails,
                      cpVars, docker, memory, history
  <2>2. CASE ReadInstances
    BY <2>1, <2>2, IdleFields, Zenon DEF ReadInstances, TickState
  <2>3. CASE ReadSecrets
    <3> DEFINE values == [e \in Env |-> IF Wanted(e) = {} THEN 0 ELSE secret[e]]
    <3>1. values \in [Env -> 0..MaxSecret]
      BY <1>0
    <3>2. ag' = [ag EXCEPT !.pc = "tombstones", !.secrets = values]
      BY <2>3 DEF ReadSecrets
    <3> HIDE DEF values
    <3>3. QED
      BY <1>0, <2>1, <3>1, <3>2, Zenon DEF TickState
  <2>4. CASE ReadTombstones
    BY <1>0, <2>1, <2>4, Zenon DEF ReadTombstones, TickState
  <2>5. CASE TickFails
    BY <2>1, <2>5, IdleFields DEF TickFails
  <2>6. QED
    BY <1>2, <2>2, <2>3, <2>4, <2>5
<1>3. ASSUME Ensure PROVE CpOK' /\ DockerOK' /\ TickOK' /\ MemoryOK' /\ HistoryOK'
  <2>1. PICK i \in ag.todo :
           \/ EnsureFails(i) \/ RefuseContainer(i)
           \/ \E up \in BOOLEAN :
                 \/ AdoptContainer(i, up)
                 \/ \E status \in {"created", "running", "exited"} : CreateContainer(i, status, up)
    BY <1>3 DEF Ensure
  <2>2. i \in Row /\ InstanceID(i) \in Instance /\ ContainerName(i) \in Name
    BY <1>0, RowNames DEF TickState
  <2>3. \A up \in BOOLEAN : Reported(i, up) => TickOK'
    <3> SUFFICES ASSUME NEW up \in BOOLEAN, Reported(i, up) PROVE TickOK'
      OBVIOUS
    <3> DEFINE seen == IF up THEN ag.up \cup {InstanceID(i)} ELSE ag.up
    <3>1. seen \in SUBSET Instance
      BY <1>0, <2>2 DEF TickState
    <3>2. ag' = [ag EXCEPT !.todo = ag.todo \ {i}, !.up = seen]
      BY DEF Reported
    <3> HIDE DEF seen
    <3>3. QED
      BY <1>0, <3>1, <3>2, Zenon DEF TickState
  <2>4. \A status, up : Observe(i, status, up) =>
           firstRunning' \subseteq Instance /\ streak' \in [Instance -> 0..2]
    <3> DEFINE id == InstanceID(i)
               next == IF streak[id] < 2 THEN streak[id] + 1 ELSE streak[id]
    <3>1. id \in Instance /\ next \in 0..2 /\ 0 \in 0..2
      BY <1>0, <2>2
    <3>2. \A status, up : Observe(i, status, up) =>
             /\ firstRunning' \in {firstRunning, firstRunning \ {id}, firstRunning \cup {id}}
             /\ streak' \in {streak, [streak EXCEPT ![id] = 0], [streak EXCEPT ![id] = next]}
      BY DEF Observe
    <3> HIDE DEF id, next
    <3>3. QED
      BY <1>0, <3>1, <3>2, Zenon
  <2>5. \A status, up : Inspect(i, status, up) =>
           Reported(i, up) /\ firstRunning' \subseteq Instance /\ streak' \in [Instance -> 0..2]
    BY <1>0, <2>4 DEF Inspect
  <2>6. EnsureNetwork(i) => nets' \subseteq Project
    BY <1>0, <2>2, RowNames DEF EnsureNetwork
  <2>7. EnsureVolume(i) => vols' \subseteq Env
    BY <1>0, <2>2, RowNames DEF EnsureVolume
  <2>8. ContainerFingerprint(i) \in Fingerprint
    <3>1. i.def \in Def /\ i.env \in Env /\ ag.secrets \in [Env -> 0..MaxSecret]
      BY <1>0, <2>2, RowNames DEF TickState
    <3>2. (IF i.svc \in Sealed THEN ag.secrets[i.env] ELSE 0) \in 0..MaxSecret
      BY <3>1
    <3>3. ContainerFingerprint(i) \in Def \X (0..MaxSecret)
      BY <3>1, <3>2 DEF ContainerFingerprint
    <3>4. QED
      BY <3>3 DEF Fingerprint
  <2>9. \A status \in {"created", "running", "exited"} :
           [ctr EXCEPT ![ContainerName(i)] = [status |-> status, print |-> ContainerFingerprint(i)]]
              \in [Name -> Container]
    BY <1>0, <2>8, Zenon DEF Container
  <2>10. CASE EnsureFails(i)
    <3>1. TickOK'
      BY <2>3, <2>10, Zenon DEF EnsureFails
    <3>2. QED
      BY <1>0, <2>6, <2>7, <2>10, <3>1 DEF EnsureFails, untouched, cpVars
  <2>11. CASE RefuseContainer(i)
    <3>1. TickOK'
      BY <2>3, <2>11, Zenon DEF RefuseContainer
    <3>2. QED
      BY <1>0, <2>6, <2>7, <2>11, <3>1 DEF RefuseContainer, untouched, cpVars
  <2>12. ASSUME NEW up \in BOOLEAN, AdoptContainer(i, up)
         PROVE  CpOK' /\ DockerOK' /\ TickOK' /\ MemoryOK' /\ HistoryOK'
    <3>1. TickOK' /\ firstRunning' \subseteq Instance /\ streak' \in [Instance -> 0..2]
      BY <2>3, <2>5, <2>12 DEF AdoptContainer
    <3>2. QED
      BY <1>0, <2>6, <2>7, <2>12, <3>1 DEF AdoptContainer, untouched, cpVars
  <2>13. ASSUME NEW up \in BOOLEAN, NEW status \in {"created", "running", "exited"},
                CreateContainer(i, status, up)
         PROVE  CpOK' /\ DockerOK' /\ TickOK' /\ MemoryOK' /\ HistoryOK'
    <3>1. TickOK' /\ firstRunning' \subseteq Instance /\ streak' \in [Instance -> 0..2]
      BY <1>0, <2>3, <2>5, <2>13, Zenon DEF CreateContainer
    <3>2. QED
      BY <1>0, <2>6, <2>7, <2>9, <2>13, <3>1 DEF CreateContainer, untouched, cpVars
  <2>14. QED
    BY <2>1, <2>10, <2>11, <2>12, <2>13
<1>4. ASSUME EndEnsure PROVE CpOK' /\ DockerOK' /\ TickOK' /\ MemoryOK' /\ HistoryOK'
  <2>1. EnvsOf(ag.rows) \subseteq Env
    BY <1>0, RowNames DEF EnvsOf, TickState
  <2>2. Idle.secrets \in [Env -> 0..MaxSecret]
    BY IdleFields DEF TickState
  <2>3. TickOK'
    <3> DEFINE envs == EnvsOf(ag.rows)
               zeros == Idle.secrets
    <3>1. ag' = [ag EXCEPT !.pc = "cleanup", !.cleanup = known \cup envs,
                           !.next = envs, !.secrets = zeros]
      BY <1>4 DEF EndEnsure
    <3>2. envs \in SUBSET Env /\ zeros \in [Env -> 0..MaxSecret]
      BY <2>1, <2>2
    <3> HIDE DEF envs, zeros
    <3>3. QED
      BY <1>0, <3>1, <3>2, Zenon DEF TickState
  <2>4. QED
    BY <1>0, <1>4, <2>3 DEF EndEnsure, cpVars, docker, history
<1>5. ASSUME NEW e \in ag.cleanup, NEW removed, NEW pruned, NEW failed \in BOOLEAN,
             Cleanup(e, removed, pruned, failed)
      PROVE  CpOK' /\ DockerOK' /\ TickOK' /\ MemoryOK' /\ HistoryOK'
  <2>1. e \in Env
    BY <1>0 DEF TickState
  <2>2. TickOK'
    <3> DEFINE kept == IF failed THEN ag.next \cup {e} ELSE ag.next
    <3>1. ag' = [ag EXCEPT !.cleanup = ag.cleanup \ {e}, !.next = kept]
      BY <1>5 DEF Cleanup
    <3>2. kept \in SUBSET Env
      BY <1>0, <2>1 DEF TickState
    <3> HIDE DEF kept
    <3>3. QED
      BY <1>0, <3>1, <3>2, Zenon DEF TickState
  <2>3. Absent \in Container
    BY DEF Absent, Container, Fingerprint
  <2>4. QED
    BY <1>0, <1>5, <2>2, <2>3 DEF Cleanup, cpVars, memory, history
<1>6. ASSUME EndCleanup PROVE CpOK' /\ DockerOK' /\ TickOK' /\ MemoryOK' /\ HistoryOK'
  BY <1>0, <1>6, Zenon DEF EndCleanup, TickState, cpVars, docker, history
<1>7. ASSUME NEW e \in ag.teardown, SkipTeardown(e)
      PROVE  CpOK' /\ DockerOK' /\ TickOK' /\ MemoryOK' /\ HistoryOK'
  BY <1>0, <1>7, Zenon DEF SkipTeardown, TickState, cpVars, docker, memory, history
<1>8. ASSUME NEW e \in ag.teardown, NEW containers, NEW networks \in SUBSET Networks(e),
             NEW volume, NEW failed, RemoveEnv(e, containers, networks, volume, failed)
      PROVE  CpOK' /\ DockerOK' /\ TickOK' /\ MemoryOK' /\ HistoryOK'
  <2>1. e \in Env
    BY <1>0 DEF TickState
  <2>2. TickOK'
    BY <1>0, <1>8, Zenon DEF RemoveEnv, TickState
  <2>3. Absent \in Container
    BY DEF Absent, Container, Fingerprint
  <2>4. DockerOK'
    BY <1>0, <1>8, <2>3 DEF RemoveEnv, RemoveAllBut, Networks
  <2>5. QED
    BY <1>0, <1>8, <2>1, <2>2, <2>4 DEF RemoveEnv, cpVars
<1>9. ASSUME EndTeardown PROVE CpOK' /\ DockerOK' /\ TickOK' /\ MemoryOK' /\ HistoryOK'
  <2>1. TickOK'
    BY <1>0, <1>9, Zenon DEF EndTeardown, TickState
  <2>2. tornDown' \subseteq Env
    BY <1>0, <1>9 DEF EndTeardown
  <2>3. QED
    BY <1>0, <1>9, <2>1, <2>2 DEF EndTeardown, cpVars, docker, history
<1>10. ASSUME NEW sent, Report(sent)
       PROVE  CpOK' /\ DockerOK' /\ TickOK' /\ MemoryOK' /\ HistoryOK'
  <2>1. CpOK'
    BY <1>0, <1>10, ReportRewrites, Zenon DEF Report
  <2>2. QED
    BY <1>0, <1>10, <2>1, IdleFields, Zenon DEF Report, docker, memory, history
<1>11. ASSUME Restart PROVE CpOK' /\ DockerOK' /\ TickOK' /\ MemoryOK' /\ HistoryOK'
  BY <1>0, <1>11, IdleFields DEF Restart, cpVars, docker, history
<1>12. ASSUME NEW n \in Name, NEW status \in {"running", "exited"}, ContainerTurns(n, status)
       PROVE  CpOK' /\ DockerOK' /\ TickOK' /\ MemoryOK' /\ HistoryOK'
  <2>1. [ctr[n] EXCEPT !.status = status] \in Container
    BY <1>0, Zenon DEF Container
  <2>2. ctr' \in [Name -> Container]
    BY <1>0, <1>12, <2>1 DEF ContainerTurns
  <2>3. QED
    BY <1>0, <1>12, <2>2 DEF ContainerTurns, cpVars, memory, history
<1>13. QED
  BY <1>1, <1>2, <1>3, <1>4, <1>5, <1>6, <1>7, <1>8, <1>9, <1>10, <1>11, <1>12, Zenon
  DEF AgentNext, Tick

----------------------------------------------------------------------------
(* What a step may do to the control plane's rows, to Docker and to the    *)
(* tick in progress                                                        *)

(* Revisions are only added, until the environment is deleted with all of  *)
(* them; a revision becomes wanted when it is added or not at all.         *)
RevisionsMove ==
    \A e \in Env :
       /\ envState'[e] = "present" =>
             envState[e] = "present" /\ DOMAIN revs[e] \subseteq DOMAIN revs'[e]
       /\ envState'[e] # "present" /\ (envState[e] # "present" => DOMAIN revs[e] = {})
             => DOMAIN revs'[e] = {}
       /\ \A r \in DOMAIN revs'[e] :
             r \notin DOMAIN revs[e]
               \/ (revs'[e][r].phase \in {"rollout", "live"} => r \in Wanted(e))

(* Deploying, promoting, failing, expiring, sweeping and reporting move    *)
(* the rows so.                                                            *)
LEMMA ControlPlaneMoves ==
    ASSUME AgentTypeOK, AgentNext
    PROVE  RevisionsMove
<1>1. ASSUME UNCHANGED revs, UNCHANGED envState
      PROVE  RevisionsMove
  BY <1>1 DEF RevisionsMove, Wanted, InPhase
<1>2. ASSUME NEW e \in Env, NEW s, revs' = [revs EXCEPT ![e] = s], UNCHANGED envState,
             DOMAIN revs[e] \subseteq DOMAIN s,
             envState[e] # "present" => DOMAIN s = DOMAIN revs[e],
             \A r \in DOMAIN revs[e] : s[r].phase \in {"rollout", "live"} => r \in Wanted(e)
      PROVE  RevisionsMove
  <2>1. revs'[e] = s /\ \A f \in Env \ {e} : revs'[f] = revs[f]
    BY <1>2 DEF AgentTypeOK
  <2>2. QED
    BY <1>2, <2>1 DEF RevisionsMove, Wanted, InPhase
<1>3. ASSUME NEW e \in Env, NEW def \in Def, Deploy(e, def) PROVE RevisionsMove
  <2> DEFINE row == [def |-> def, phase |-> "rollout", running |-> {}]
  <2>1. row \in RevisionRow
    BY DEF RevisionRow, Phase
  <2>2. revs' = [revs EXCEPT ![e] = Append(revs[e], row)] /\ UNCHANGED envState
        /\ envState[e] = "present"
    BY <1>3 DEF Deploy
  <2> HIDE DEF row
  <2>3. /\ DOMAIN revs[e] \subseteq DOMAIN Append(revs[e], row)
        /\ \A r \in DOMAIN revs[e] : Append(revs[e], row)[r] = revs[e][r]
    <3>1. /\ Append(revs[e], row) \in Seq(RevisionRow)
          /\ Len(Append(revs[e], row)) = Len(revs[e]) + 1
          /\ \A r \in 1..Len(revs[e]) : Append(revs[e], row)[r] = revs[e][r]
      BY <2>1, RevisionsNumbered, AppendProperties
    <3>2. DOMAIN Append(revs[e], row) = 1..(Len(revs[e]) + 1)
      BY <3>1, LenProperties
    <3>3. QED
      BY <3>1, <3>2, RevisionsNumbered
  <2>4. \A r \in DOMAIN revs[e] :
           revs[e][r].phase \in {"rollout", "live"} => r \in Wanted(e)
    BY DEF Wanted, InPhase
  <2>5. QED
    BY <1>2, <2>2, <2>3, <2>4, Zenon
<1>4. ASSUME NEW e \in Env, NEW r \in Revision, Promote(e, r) PROVE RevisionsMove
  <2> DEFINE s == [q \in DOMAIN revs[e] |->
                    [revs[e][q] EXCEPT !.phase = IF q = r THEN "live" ELSE "gone", !.running = {}]]
  <2>1. \A q \in DOMAIN revs[e] : s[q].phase = IF q = r THEN "live" ELSE "gone"
    <3> TAKE q \in DOMAIN revs[e]
    <3> DEFINE to == IF q = r THEN "live" ELSE "gone"
    <3>1. revs[e][q] \in RevisionRow /\ to \in Phase /\ {} \in SUBSET Service
      BY RevisionsNumbered DEF Phase
    <3>2. s[q] = [revs[e][q] EXCEPT !.phase = to, !.running = {}]
      BY Zenon
    <3>3. [revs[e][q] EXCEPT !.phase = to, !.running = {}].phase = to
      <4> HIDE DEF s, to
      <4>1. QED
        BY <3>1 DEF RevisionRow
    <3>4. QED
      BY <3>2, <3>3, Zenon
  <2>2. DOMAIN s = DOMAIN revs[e] /\ revs' = [revs EXCEPT ![e] = s] /\ UNCHANGED envState
    BY <1>4, Zenon DEF Promote
  <2>3. r \in Wanted(e)
    BY <1>4, Zenon DEF Promote, Wanted
  <2> HIDE DEF s
  <2>4. QED
    BY <1>2, <2>1, <2>2, <2>3, Zenon
<1>5. ASSUME NEW e \in Env, NEW r \in Revision, FailRollout(e, r) PROVE RevisionsMove
  <2> DEFINE row == [[revs[e][r] EXCEPT !.phase = "gone"] EXCEPT !.running = {}]
             s == [revs[e] EXCEPT ![r] = row]
  <2>1. r \in DOMAIN revs[e]
    BY <1>5 DEF FailRollout, InPhase
  <2>2. row.phase = "gone"
    BY <2>1, RevisionsNumbered, RowUpdated, Zenon DEF Phase
  <2>3. revs' = [revs EXCEPT ![e] = s] /\ UNCHANGED envState
    BY <1>5, <2>1, Zenon DEF FailRollout, AgentTypeOK
  <2> HIDE DEF row
  <2>4. DOMAIN s = DOMAIN revs[e]
        /\ \A q \in DOMAIN revs[e] : s[q] = IF q = r THEN row ELSE revs[e][q]
    BY <2>1
  <2> HIDE DEF s
  <2>5. \A q \in DOMAIN revs[e] :
           s[q].phase \in {"rollout", "live"} => q \in Wanted(e)
    BY <2>2, <2>4 DEF Wanted, InPhase
  <2>6. QED
    BY <1>2, <2>3, <2>4, <2>5, Zenon
<1>6. ASSUME NEW e \in Env, Expire(e) PROVE RevisionsMove
  <2>1. /\ revs'[e] = << >> /\ \A f \in Env \ {e} : revs'[f] = revs[f]
        /\ envState'[e] = "tombstoned" /\ \A f \in Env \ {e} : envState'[f] = envState[f]
    BY <1>6 DEF Expire, AgentTypeOK
  <2>2. DOMAIN revs'[e] = {}
    BY <2>1
  <2>3. QED
    BY <2>1, <2>2 DEF RevisionsMove, Wanted, InPhase
<1>7. ASSUME NEW e \in Env, Sweep(e) PROVE RevisionsMove
  BY <1>7 DEF Sweep, RevisionsMove, Wanted, InPhase, AgentTypeOK
<1>8. ASSUME NEW sent, Report(sent) PROVE RevisionsMove
  <2>1. \A e \in Env : /\ DOMAIN revs'[e] = DOMAIN revs[e]
                       /\ \A r \in DOMAIN revs[e] : revs'[e][r].phase = revs[e][r].phase
    BY <1>8, ReportRewrites
  <2>2. UNCHANGED envState
    BY <1>8 DEF Report
  <2>3. QED
    BY <2>1, <2>2 DEF RevisionsMove, Wanted, InPhase
<1>9. CASE ControlPlane
  <2>1. ASSUME NEW e \in Env, RotateSecret(e) PROVE RevisionsMove
    BY <1>1, <2>1 DEF RotateSecret
  <2>2. QED
    BY <1>3, <1>4, <1>5, <1>6, <1>7, <1>9, <2>1 DEF ControlPlane
<1>10. CASE Tick
  <2>1. CASE Ensure
    BY <1>1, <2>1, Zenon DEF Ensure, EnsureFails, RefuseContainer, AdoptContainer, CreateContainer,
                      untouched, cpVars
  <2>2. CASE ~Ensure
    BY <1>1, <1>8, <1>10, <2>2, Zenon
    DEF Tick, ReadInstances, ReadSecrets, ReadTombstones, EndEnsure, Cleanup, EndCleanup,
        SkipTeardown, RemoveEnv, EndTeardown, cpVars
  <2>3. QED
    BY <2>1, <2>2
<1>11. QED
  BY <1>1, <1>9, <1>10 DEF AgentNext, TickFails, Restart, ContainerTurns, cpVars

(* Containers, networks and volumes appear for a row still to be ensured.  *)
(* They go in the teardown of their environment or, unless they are        *)
(* durable, in the cleanup of a tick that was not told of their revision.  *)
DockerMoves ==
    /\ \A n \in Name :
          /\ ctr[n].status = "absent" /\ ctr'[n].status # "absent"
                => \E i \in ag.todo : n = ContainerName(i)
          /\ ctr[n].status # "absent" /\ ctr'[n].status = "absent"
                => \/ n.env \in ag.teardown
                   \/ /\ ag.pc = "cleanup" /\ n.svc \in Swappable
                      /\ \A i \in ag.rows : n # ContainerName(i)
    /\ \A p \in nets' \ nets : \E i \in ag.todo : p = ProjectName(i)
    /\ \A p \in nets \ nets' : \/ p.env \in ag.teardown
                               \/ ag.pc = "cleanup" /\ \A i \in ag.rows : p # ProjectName(i)
    /\ \A e \in vols' \ vols : \E i \in ag.todo : e = i.env
    /\ \A e \in vols \ vols' : e \in ag.teardown

(* Ensuring, collecting and tearing down move Docker so; nothing else      *)
(* does but a container that exits or comes back.                          *)
LEMMA DockerSteps ==
    ASSUME AgentTypeOK, AgentNext
    PROVE  DockerMoves
<1>0. ctr \in [Name -> Container]
  BY DEF AgentTypeOK
<1>1. ASSUME UNCHANGED docker PROVE DockerMoves
  BY <1>1 DEF DockerMoves, docker
<1>2. CASE Ensure
  <2>1. PICK i \in ag.todo :
           \/ EnsureFails(i) \/ RefuseContainer(i)
           \/ \E up \in BOOLEAN :
                 \/ AdoptContainer(i, up)
                 \/ \E status \in {"created", "running", "exited"} : CreateContainer(i, status, up)
    BY <1>2 DEF Ensure
  <2>2. /\ nets' = nets \/ nets' = nets \cup {ProjectName(i)}
        /\ vols' = vols \/ vols' = vols \cup {i.env}
    BY <2>1, Zenon DEF EnsureFails, RefuseContainer, AdoptContainer, CreateContainer,
                EnsureNetwork, EnsureVolume
  <2>3. \A n \in Name : ctr'[n] = ctr[n] \/ (n = ContainerName(i) /\ ctr[n].status = "absent")
    <3>1. \/ ctr' = ctr
          \/ /\ ~Existing(i)
             /\ \E rec : ctr' = [ctr EXCEPT ![ContainerName(i)] = rec]
      BY <2>1, Zenon DEF EnsureFails, RefuseContainer, AdoptContainer, CreateContainer
    <3>2. QED
      BY <1>0, <3>1 DEF Existing
  <2>4. QED
    BY <2>2, <2>3 DEF DockerMoves
<1>3. ASSUME NEW e \in ag.cleanup, NEW removed, NEW pruned, NEW failed,
             Cleanup(e, removed, pruned, failed)
      PROVE  DockerMoves
  <2>1. /\ ag.pc = "cleanup" /\ removed \subseteq Orphans(e) /\ pruned \subseteq Obsolete(e)
        /\ ctr' = [n \in Name |-> IF n \in removed THEN Absent ELSE ctr[n]]
        /\ nets' = nets \ pruned /\ vols' = vols
    BY <1>3 DEF Cleanup
  <2>2. \A n \in removed : n.svc \in Swappable /\ \A i \in ag.rows : n # ContainerName(i)
    BY <2>1 DEF Orphans
  <2>3. \A p \in pruned : \A i \in ag.rows : p # ProjectName(i)
    BY <2>1 DEF Obsolete
  <2>4. \A n \in Name : ctr'[n] = ctr[n] \/ (n \in removed /\ ctr'[n].status = "absent")
    BY <2>1 DEF Absent
  <2>5. QED
    BY <2>1, <2>2, <2>3, <2>4 DEF DockerMoves
<1>4. ASSUME NEW e \in ag.teardown, NEW containers, NEW networks, NEW volume, NEW failed,
             RemoveEnv(e, containers, networks, volume, failed)
      PROVE  DockerMoves
  <2>1. /\ networks \subseteq Networks(e)
        /\ ctr' = [n \in Name |-> IF n.env = e /\ n \notin containers THEN Absent ELSE ctr[n]]
        /\ nets' = (nets \ Networks(e)) \cup networks
        /\ vols' = IF volume THEN vols ELSE vols \ {e}
    BY <1>4 DEF RemoveEnv, RemoveAllBut
  <2>2. \A n \in Name : ctr'[n] = ctr[n] \/ (n.env = e /\ ctr'[n].status = "absent")
    BY <2>1 DEF Absent
  <2>3. QED
    BY <2>1, <2>2 DEF DockerMoves, Networks
<1>5. ASSUME NEW n \in Name, NEW status \in {"running", "exited"}, ContainerTurns(n, status)
      PROVE  DockerMoves
  <2>1. [ctr[n] EXCEPT !.status = status].status = status
    BY <1>0 DEF Container
  <2>2. /\ ctr' = [ctr EXCEPT ![n] = [ctr[n] EXCEPT !.status = status]]
        /\ nets' = nets /\ vols' = vols /\ ctr[n].status # "absent"
    BY <1>5 DEF ContainerTurns
  <2>3. \A k \in Name : ctr'[k] = ctr[k] \/ (ctr[k].status # "absent" /\ ctr'[k].status # "absent")
    BY <1>0, <2>1, <2>2
  <2>4. QED
    BY <2>2, <2>3 DEF DockerMoves
<1>6. CASE ControlPlane
  BY <1>1, <1>6, Zenon DEF ControlPlane, Deploy, Promote, FailRollout, RotateSecret, Expire, Sweep
<1>7. CASE Tick /\ ~Ensure
  BY <1>1, <1>3, <1>4, <1>7
  DEF Tick, ReadInstances, ReadSecrets, ReadTombstones, EndEnsure, EndCleanup,
      SkipTeardown, EndTeardown, Report
<1>8. QED
  BY <1>1, <1>2, <1>5, <1>6, <1>7 DEF AgentNext, TickFails, Restart

(* Within a tick the rows stay, the work only shrinks and a teardown is of *)
(* a deleted environment; the work is done when ensuring ends.             *)
TickMoves ==
    \/ ReadInstances
    \/ ag' = Idle
    \/ /\ ag'.rows = ag.rows /\ ag'.todo \subseteq ag.todo
       /\ ag'.pc = "idle" <=> ag.pc = "idle"
       /\ ag'.teardown \subseteq ag.teardown \cup {e \in Env : envState[e] # "present"}
       /\ ag'.pc \notin {"secrets", "tombstones", "ensure"}
             => ag'.todo = {} \/ ag.pc \notin {"secrets", "tombstones", "ensure"}

(* Every step of the agent's loop moves the tick so.                       *)
LEMMA TickSteps ==
    ASSUME AgentTypeOK, AgentNext
    PROVE  TickMoves
<1>0. ag \in TickState
  BY DEF AgentTypeOK
<1>1. ASSUME UNCHANGED ag PROVE TickMoves
  BY <1>1 DEF TickMoves
<1>2. CASE Ensure
  <2>1. PICK i \in ag.todo, up \in BOOLEAN : ag.pc = "ensure" /\ Reported(i, up)
    BY <1>2, Zenon DEF Ensure, EnsureFails, RefuseContainer, AdoptContainer, CreateContainer,
                Ensuring, Inspect
  <2> DEFINE seen == IF up THEN ag.up \cup {InstanceID(i)} ELSE ag.up
  <2>2. ag' = [ag EXCEPT !.todo = ag.todo \ {i}, !.up = seen]
    BY <2>1 DEF Reported
  <2> HIDE DEF seen
  <2>3. /\ ag'.rows = ag.rows /\ ag'.todo = ag.todo \ {i} /\ ag'.pc = ag.pc
        /\ ag'.teardown = ag.teardown
    BY <1>0, <2>2 DEF TickState
  <2>4. QED
    BY <2>1, <2>3 DEF TickMoves
<1>3. CASE Tick /\ ~Ensure
  <2>1. CASE ReadSecrets
    <3> DEFINE values == [e \in Env |-> IF Wanted(e) = {} THEN 0 ELSE secret[e]]
    <3>1. ag' = [ag EXCEPT !.pc = "tombstones", !.secrets = values] /\ ag.pc = "secrets"
      BY <2>1 DEF ReadSecrets
    <3> HIDE DEF values
    <3>2. QED
      BY <1>0, <3>1 DEF TickMoves, TickState
  <2>2. CASE ReadTombstones
    BY <1>0, <2>2 DEF ReadTombstones, TickMoves, TickState
  <2>3. CASE EndEnsure
    <3> DEFINE envs == EnvsOf(ag.rows)
               zeros == Idle.secrets
    <3>1. ag' = [ag EXCEPT !.pc = "cleanup", !.cleanup = known \cup envs,
                           !.next = envs, !.secrets = zeros]
          /\ ag.pc = "ensure" /\ ag.todo = {}
      BY <2>3 DEF EndEnsure
    <3> HIDE DEF envs, zeros
    <3>2. QED
      BY <1>0, <3>1 DEF TickMoves, TickState
  <2>4. ASSUME NEW e \in ag.cleanup, NEW removed, NEW pruned, NEW failed,
               Cleanup(e, removed, pruned, failed)
        PROVE  TickMoves
    <3> DEFINE kept == IF failed THEN ag.next \cup {e} ELSE ag.next
    <3>1. ag' = [ag EXCEPT !.cleanup = ag.cleanup \ {e}, !.next = kept] /\ ag.pc = "cleanup"
      BY <2>4 DEF Cleanup
    <3> HIDE DEF kept
    <3>2. QED
      BY <1>0, <3>1 DEF TickMoves, TickState
  <2>5. CASE EndCleanup
    BY <1>0, <2>5 DEF EndCleanup, TickMoves, TickState
  <2>6. ASSUME NEW e, ag' = [ag EXCEPT !.teardown = ag.teardown \ {e}], ag.pc = "teardown"
        PROVE  TickMoves
    BY <1>0, <2>6 DEF TickMoves, TickState
  <2>7. CASE EndTeardown
    BY <1>0, <2>7 DEF EndTeardown, TickMoves, TickState
  <2>8. ASSUME NEW sent, Report(sent) PROVE TickMoves
    BY <2>8 DEF Report, TickMoves
  <2>9. QED
    BY <1>3, <2>1, <2>2, <2>3, <2>4, <2>5, <2>6, <2>7, <2>8
    DEF Tick, TickMoves, SkipTeardown, RemoveEnv
<1>4. CASE ControlPlane
  BY <1>1, <1>4, Zenon DEF ControlPlane, Deploy, Promote, FailRollout, RotateSecret, Expire, Sweep
<1>5. QED
  BY <1>1, <1>2, <1>3, <1>4 DEF AgentNext, TickFails, Restart, ContainerTurns, TickMoves

(* RemoveEnv reports an environment gone after the last row was ensured,   *)
(* and leaves nothing of it.                                               *)
LEMMA DestroyedSteps ==
    ASSUME AgentTypeOK, AgentNext, NEW e \in destroyed' \ destroyed
    PROVE  /\ e \in ag.teardown /\ ag.pc = "teardown" /\ ag'.todo = ag.todo
           /\ \A n \in Name : n.env = e => ctr'[n].status = "absent"
           /\ \A p \in nets' : p.env # e
           /\ e \notin vols'
<1>1. ~ UNCHANGED destroyed
  OBVIOUS
<1>2. ~ControlPlane
  BY <1>1, Zenon DEF ControlPlane, Deploy, Promote, FailRollout, RotateSecret, Expire, Sweep, history
<1>3. ~Ensure
  BY <1>1, Zenon DEF Ensure, EnsureFails, RefuseContainer, AdoptContainer, CreateContainer, untouched
<1>4. Tick
  BY <1>1, <1>2 DEF AgentNext, TickFails, Restart, ContainerTurns, history
<1>5. PICK f \in ag.teardown : \E containers, networks : \E volume, failed \in BOOLEAN :
         RemoveEnv(f, containers, networks, volume, failed)
  BY <1>1, <1>3, <1>4, Zenon
  DEF Tick, ReadInstances, ReadSecrets, ReadTombstones, EndEnsure, Cleanup, EndCleanup,
      SkipTeardown, EndTeardown, Report, history
<1>6. /\ f = e /\ ag.pc = "teardown"
      /\ ag' = [ag EXCEPT !.teardown = ag.teardown \ {f}]
      /\ RemoveAllBut(f, {}, {}, FALSE)
  BY <1>5, Zenon DEF RemoveEnv
<1>7. ag'.todo = ag.todo
  BY <1>6 DEF AgentTypeOK, TickState
<1>8. QED
  BY <1>6, <1>7 DEF RemoveAllBut, Networks, Absent

(* What the next tick reads, of a tick that reads it.                      *)
LEMMA RowsRead ==
    ASSUME AgentTypeOK, ReadInstances
    PROVE  /\ ag'.rows = {i \in Row : /\ i.rev \in Wanted(i.env)
                                      /\ i.def = revs[i.env][i.rev].def}
           /\ ag'.todo = ag'.rows /\ ag'.pc = "secrets" /\ ag'.up = {} /\ ag'.teardown = {}
           /\ UNCHANGED <<cpVars, docker, memory, restarts, history>>
<1> DEFINE rows == {i \in Row : /\ i.rev \in Wanted(i.env)
                                /\ i.def = revs[i.env][i.rev].def}
<1>1. ag' = [Idle EXCEPT !.pc = "secrets", !.rows = rows, !.todo = rows]
  BY DEF ReadInstances
<1>2. UNCHANGED <<cpVars, docker, memory, restarts, history>>
  BY DEF ReadInstances
<1> HIDE DEF rows
<1>3. ag'.rows = rows /\ ag'.todo = rows /\ ag'.pc = "secrets" /\ ag'.up = {} /\ ag'.teardown = {}
  BY <1>1 DEF Idle
<1>4. QED
  BY <1>2, <1>3 DEF rows

----------------------------------------------------------------------------
(* The inductive invariant                                                 *)

(* Expire deletes the rows with the environment, only a tombstone puts     *)
(* it up for teardown, and EndEnsure waits for the last row.               *)
LEMMA DeletedHasNoRowsStep ==
    ASSUME AgentInvariant, AgentNext
    PROVE  DeletedHasNoRows' /\ TeardownIsDeleted' /\ EnsuredFirst'
<1>1. AgentTypeOK /\ AgentTypeOK' /\ RevisionsMove /\ TickMoves
  BY TypeStep, ControlPlaneMoves, TickSteps DEF AgentInvariant
<1>2. DeletedHasNoRows'
  BY <1>1 DEF AgentInvariant, DeletedHasNoRows, RevisionsMove
<1>3. CASE ReadInstances
  BY <1>1, <1>2, <1>3, RowsRead DEF TeardownIsDeleted, EnsuredFirst
<1>4. CASE ag' = Idle
  BY <1>2, <1>4, IdleFields DEF TeardownIsDeleted, EnsuredFirst
<1>5. CASE ~ReadInstances /\ ag' # Idle
  <2>1. TeardownIsDeleted'
    <3> SUFFICES ASSUME NEW e \in ag'.teardown PROVE envState'[e] # "present"
      BY DEF TeardownIsDeleted
    <3>1. e \in Env
      BY <1>1 DEF AgentTypeOK, TickState
    <3>2. envState[e] # "present"
      BY <1>1, <1>5 DEF TickMoves, AgentInvariant, TeardownIsDeleted
    <3>3. QED
      BY <1>1, <3>1, <3>2 DEF RevisionsMove
  <2>2. EnsuredFirst'
    BY <1>1, <1>5 DEF TickMoves, AgentInvariant, EnsuredFirst
  <2>3. QED
    BY <1>2, <2>1, <2>2
<1>6. QED
  BY <1>3, <1>4, <1>5

(* No tick reads a row of a destroyed environment, so none ensures         *)
(* anything of it.                                                         *)
LEMMA DestroyedStaysGoneStep ==
    ASSUME AgentInvariant, AgentNext
    PROVE  DestroyedStaysGone'
<1>1. AgentTypeOK /\ AgentTypeOK' /\ RevisionsMove /\ DockerMoves /\ TickMoves
  BY TypeStep, ControlPlaneMoves, DockerSteps, TickSteps DEF AgentInvariant
<1>2. DeletedHasNoRows' /\ TeardownIsDeleted'
  BY DeletedHasNoRowsStep
<1> SUFFICES ASSUME NEW e \in destroyed'
             PROVE  /\ envState'[e] # "present"
                    /\ \A i \in ag'.todo : i.env # e
                    /\ \A n \in Name : n.env = e => ctr'[n].status = "absent"
                    /\ \A p \in nets' : p.env # e
                    /\ e \notin vols'
  BY DEF DestroyedStaysGone
<1>3. e \in Env
  BY <1>1 DEF AgentTypeOK
<1>4. CASE e \notin destroyed
  <2>1. /\ e \in ag.teardown /\ ag.pc = "teardown" /\ ag'.todo = ag.todo
        /\ \A n \in Name : n.env = e => ctr'[n].status = "absent"
        /\ \A p \in nets' : p.env # e
        /\ e \notin vols'
    BY <1>1, <1>4, DestroyedSteps
  <2>2. envState[e] # "present" /\ ag.todo = {}
    BY <2>1 DEF AgentInvariant, TeardownIsDeleted, EnsuredFirst
  <2>3. QED
    BY <1>1, <1>3, <2>1, <2>2 DEF RevisionsMove
<1>5. CASE e \in destroyed
  <2>1. /\ envState[e] # "present"
        /\ \A i \in ag.todo : i.env # e
        /\ \A n \in Name : n.env = e => ctr[n].status = "absent"
        /\ \A p \in nets : p.env # e
        /\ e \notin vols
    BY <1>5 DEF AgentInvariant, DestroyedStaysGone
  <2>2. envState'[e] # "present"
    BY <1>1, <1>3, <2>1 DEF RevisionsMove
  <2>3. \A i \in ag'.todo : i.env # e
    <3>1. CASE ReadInstances
      <4>1. Wanted(e) = {}
        BY <1>3, <2>1 DEF AgentInvariant, DeletedHasNoRows, Wanted, InPhase
      <4>2. QED
        BY <1>1, <3>1, <4>1, RowsRead
    <3>2. CASE ag' = Idle
      BY <3>2, IdleFields
    <3>3. QED
      BY <1>1, <2>1, <3>1, <3>2 DEF TickMoves
  <2>4. \A i \in ag.todo : i \in Row /\ ContainerName(i).env # e /\ ProjectName(i).env # e
    BY <1>1, <2>1, RowNames, Zenon DEF AgentTypeOK, TickState, ProjectName
  <2>5. QED
    BY <1>1, <2>1, <2>2, <2>3, <2>4 DEF DockerMoves
<1>6. QED
  BY <1>4, <1>5

(* The rows a tick reads are of existing revisions, and it makes           *)
(* containers and networks for its rows only.                              *)
LEMMA RevisionsExistStep ==
    ASSUME AgentInvariant, AgentNext
    PROVE  RevisionsExist' /\ NetworksHaveServices'
<1>1. /\ AgentTypeOK /\ AgentTypeOK' /\ RevisionsMove /\ DockerMoves /\ TickMoves
      /\ RevisionsExist /\ NetworksHaveServices
  BY TypeStep, ControlPlaneMoves, DockerSteps, TickSteps DEF AgentInvariant
<1>2. \A i \in ag.todo : i \in ag.rows /\ i \in Row
  BY <1>1 DEF AgentTypeOK, TickState
<1>3. \A i \in ag'.rows : envState'[i.env] = "present" => i.rev \in DOMAIN revs'[i.env]
  <2> SUFFICES ASSUME NEW i \in ag'.rows, envState'[i.env] = "present"
               PROVE  i.rev \in DOMAIN revs'[i.env]
    OBVIOUS
  <2>1. i.env \in Env
    BY <1>1, RowNames DEF AgentTypeOK, TickState
  <2>2. envState[i.env] = "present" /\ DOMAIN revs[i.env] \subseteq DOMAIN revs'[i.env]
    BY <1>1, <2>1 DEF RevisionsMove
  <2>3. CASE ReadInstances
    BY <1>1, <2>2, <2>3, RowsRead DEF Wanted, InPhase
  <2>4. CASE ag' = Idle
    BY <2>4, IdleFields
  <2>5. CASE i \in ag.rows
    BY <1>1, <2>2, <2>5 DEF RevisionsExist
  <2>6. QED
    BY <1>1, <2>3, <2>4, <2>5 DEF TickMoves
<1>4. \A p \in nets' : envState'[p.env] = "present" => p.rev \in DOMAIN revs'[p.env]
  <2> SUFFICES ASSUME NEW p \in nets', envState'[p.env] = "present"
               PROVE  p.rev \in DOMAIN revs'[p.env]
    OBVIOUS
  <2>1. p.env \in Env
    BY <1>1 DEF AgentTypeOK, Project
  <2>2. envState[p.env] = "present" /\ DOMAIN revs[p.env] \subseteq DOMAIN revs'[p.env]
    BY <1>1, <2>1 DEF RevisionsMove
  <2>3. CASE p \in nets
    BY <1>1, <2>2, <2>3 DEF RevisionsExist
  <2>4. ASSUME NEW i \in ag.todo, p = ProjectName(i) PROVE p.rev \in DOMAIN revs'[p.env]
    BY <1>1, <1>2, <2>2, <2>4 DEF RevisionsExist, ProjectName
  <2>5. QED
    BY <1>1, <2>3, <2>4 DEF DockerMoves
<1>5. \A n \in Name : envState'[n.env] = "present" /\ ctr'[n].status # "absent"
                        => n.rev \in DOMAIN revs'[n.env] \cup {0}
  <2> SUFFICES ASSUME NEW n \in Name, envState'[n.env] = "present", ctr'[n].status # "absent"
               PROVE  n.rev \in DOMAIN revs'[n.env] \cup {0}
    OBVIOUS
  <2>1. n.env \in Env
    BY NameFields
  <2>2. envState[n.env] = "present" /\ DOMAIN revs[n.env] \subseteq DOMAIN revs'[n.env]
    BY <1>1, <2>1 DEF RevisionsMove
  <2>3. CASE ctr[n].status # "absent"
    BY <1>1, <2>2, <2>3 DEF RevisionsExist
  <2>4. ASSUME NEW i \in ag.todo, n = ContainerName(i) PROVE n.rev \in DOMAIN revs'[n.env] \cup {0}
    BY <1>1, <1>2, <2>2, <2>4, RowNames DEF RevisionsExist
  <2>5. QED
    BY <1>1, <2>3, <2>4 DEF DockerMoves
<1>6. NetworksHaveServices'
  BY <1>1, <1>2, RowNames DEF NetworksHaveServices, DockerMoves
<1>7. QED
  BY <1>3, <1>4, <1>5, <1>6 DEF RevisionsExist

(* A revision that is wanted after a step, and of which Docker had         *)
(* something before it, was wanted before it.                              *)
LEMMA WantedBefore ==
    ASSUME AgentInvariant, AgentNext, NEW e \in Env, NEW r \in Wanted(e)',
           envState[e] = "present" => r \in DOMAIN revs[e] \cup {0}
    PROVE  r \in Wanted(e)
<1>1. AgentTypeOK' /\ RevisionsMove /\ DeletedHasNoRows
  BY TypeStep, ControlPlaneMoves DEF AgentInvariant
<1>2. r \in DOMAIN revs'[e] /\ revs'[e][r].phase \in {"rollout", "live"}
  BY DEF Wanted, InPhase
<1>3. revs'[e] \in Seq(RevisionRow)
  BY <1>1 DEF AgentTypeOK
<1>4. r # 0
  BY <1>2, <1>3, LenProperties
<1>5. envState'[e] = "present" /\ envState[e] = "present"
  BY <1>1, <1>2 DEF RevisionsMove, DeletedHasNoRows
<1>6. QED
  BY <1>1, <1>2, <1>4, <1>5 DEF RevisionsMove

(* A tick reads every wanted row; what is wanted later, and was not        *)
(* then, is new.                                                           *)
LEMMA WantedWasReadStep ==
    ASSUME AgentInvariant, AgentNext
    PROVE  WantedWasRead'
<1>1. /\ AgentTypeOK /\ AgentTypeOK' /\ DockerMoves /\ TickMoves
      /\ RevisionsExist /\ NetworksHaveServices /\ WantedWasRead
  BY TypeStep, DockerSteps, TickSteps DEF AgentInvariant
<1> SUFFICES ASSUME ag'.pc # "idle"
             PROVE  /\ \A n \in Name : n.rev \in Wanted(n.env)' /\ ctr'[n].status # "absent"
                                         => \E i \in ag'.rows : n = ContainerName(i)
                    /\ \A p \in nets' : p.rev \in Wanted(p.env)'
                                         => \E i \in ag'.rows : p = ProjectName(i)
  BY DEF WantedWasRead, Wanted, InPhase
<1>2. CASE ReadInstances
  <2>1. /\ ag'.rows = {i \in Row : /\ i.rev \in Wanted(i.env)
                                   /\ i.def = revs[i.env][i.rev].def}
        /\ UNCHANGED <<cpVars, docker>>
    BY <1>1, <1>2, RowsRead
  <2>2. \A e \in Env : Wanted(e)' = Wanted(e)
    BY <2>1 DEF Wanted, InPhase, cpVars
  <2>3. ASSUME NEW e \in Env, NEW r \in Wanted(e), NEW s \in Service
        PROVE  /\ r \in Revision
               /\ [env |-> e, rev |-> r, svc |-> s, def |-> revs[e][r].def] \in ag'.rows
    <3>1. r \in Revision /\ revs[e][r].def \in Def
      BY <1>1, RevisionsNumbered DEF Wanted, InPhase, RevisionRow
    <3>2. [env |-> e, rev |-> r, svc |-> s, def |-> revs[e][r].def] \in Row
      BY <3>1 DEF Row
    <3>3. QED
      BY <2>1, <3>1, <3>2
  <2>4. ASSUME NEW n \in Name, n.rev \in Wanted(n.env)'
        PROVE  \E i \in ag'.rows : n = ContainerName(i)
    <3> DEFINE i == [env |-> n.env, rev |-> n.rev, svc |-> n.svc, def |-> revs[n.env][n.rev].def]
    <3>1. n.env \in Env /\ n.svc \in Service /\ (n.svc \notin Swappable => n.rev = 0)
      BY NameFields
    <3>2. i \in ag'.rows /\ n.rev \in Revision
      BY <2>2, <2>3, <2>4, <3>1
    <3>3. n.rev # 0
      BY <3>2 DEF Revision
    <3>4. ContainerName(i) = [env |-> n.env, rev |-> n.rev, svc |-> n.svc]
      BY <3>1, <3>3 DEF ContainerName
    <3>5. n = [env |-> n.env, rev |-> n.rev, svc |-> n.svc]
      BY DEF Name, ContainerName
    <3>6. QED
      BY <3>2, <3>4, <3>5
  <2>5. ASSUME NEW p \in nets', p.rev \in Wanted(p.env)'
        PROVE  \E i \in ag'.rows : p = ProjectName(i)
    <3>1. p \in Project /\ p.env \in Env /\ p = [env |-> p.env, rev |-> p.rev]
      BY <1>1 DEF AgentTypeOK, Project
    <3>2. PICK s : s \in Service
      BY <1>1, <2>1, <2>5 DEF NetworksHaveServices, docker
    <3> DEFINE i == [env |-> p.env, rev |-> p.rev, svc |-> s, def |-> revs[p.env][p.rev].def]
    <3>3. i \in ag'.rows
      BY <2>2, <2>3, <2>5, <3>1, <3>2
    <3>4. p = ProjectName(i)
      BY <3>1 DEF ProjectName
    <3>5. QED
      BY <3>3, <3>4
  <2>6. QED
    BY <2>4, <2>5
<1>3. CASE ~ReadInstances
  <2>1. ag'.rows = ag.rows /\ ag.pc # "idle"
    BY <1>1, <1>3, IdleFields DEF TickMoves
  <2>2. ag.todo \subseteq ag.rows
    BY <1>1 DEF AgentTypeOK
  <2>3. ASSUME NEW n \in Name, n.rev \in Wanted(n.env)', ctr'[n].status # "absent"
        PROVE  \E i \in ag'.rows : n = ContainerName(i)
    <3>1. CASE ctr[n].status = "absent"
      BY <1>1, <2>1, <2>2, <2>3, <3>1 DEF DockerMoves
    <3>2. CASE ctr[n].status # "absent"
      <4>1. n.env \in Env /\ (envState[n.env] = "present" => n.rev \in DOMAIN revs[n.env] \cup {0})
        BY <1>1, <3>2, NameFields DEF RevisionsExist
      <4>2. n.rev \in Wanted(n.env)
        BY <2>3, <4>1, WantedBefore
      <4>3. QED
        BY <1>1, <2>1, <3>2, <4>2 DEF WantedWasRead
    <3>3. QED
      BY <3>1, <3>2
  <2>4. ASSUME NEW p \in nets', p.rev \in Wanted(p.env)'
        PROVE  \E i \in ag'.rows : p = ProjectName(i)
    <3>1. CASE p \notin nets
      BY <1>1, <2>1, <2>2, <3>1 DEF DockerMoves
    <3>2. CASE p \in nets
      <4>1. p.env \in Env /\ (envState[p.env] = "present" => p.rev \in DOMAIN revs[p.env] \cup {0})
        BY <1>1, <3>2 DEF RevisionsExist, AgentTypeOK, Project
      <4>2. p.rev \in Wanted(p.env)
        BY <2>4, <4>1, WantedBefore
      <4>3. QED
        BY <1>1, <2>1, <3>2, <4>2 DEF WantedWasRead
    <3>3. QED
      BY <3>1, <3>2
  <2>5. QED
    BY <2>3, <2>4
<1>4. QED
  BY <1>2, <1>3

(* One instance is ensured and reported: what observe leaves of it.        *)
LEMMA EnsureReports ==
    ASSUME AgentInvariant, Ensure
    PROVE  OneRowEach' /\ ReportedOnce' /\ FirstSeen' /\ DebouncedReport'
<1>0. /\ AgentTypeOK /\ OneRowEach /\ ReportedOnce /\ FirstSeen /\ DebouncedReport
      /\ ag \in TickState /\ ag.todo \subseteq ag.rows /\ streak \in [Instance -> 0..2]
      /\ firstRunning \subseteq Instance /\ ag.up \subseteq Instance
  BY DEF AgentInvariant, AgentTypeOK, TickState
<1>1. PICK i \in ag.todo, up \in BOOLEAN :
         /\ Reported(i, up)
         /\ \/ \E status : Observe(i, status, up)
            \/ ~up /\ UNCHANGED <<firstRunning, streak>>
  <2>1. PICK i \in ag.todo :
           \/ EnsureFails(i) \/ RefuseContainer(i)
           \/ \E up \in BOOLEAN :
                 \/ AdoptContainer(i, up)
                 \/ \E status \in {"created", "running", "exited"} : CreateContainer(i, status, up)
    BY DEF Ensure
  <2>2. ASSUME NEW status, NEW up, Inspect(i, status, up)
        PROVE  /\ Reported(i, up)
               /\ \/ \E st : Observe(i, st, up)
                  \/ ~up /\ UNCHANGED <<firstRunning, streak>>
    BY <2>2 DEF Inspect
  <2>3. CASE EnsureFails(i) \/ RefuseContainer(i)
    BY <2>3, Zenon DEF EnsureFails, RefuseContainer
  <2>4. ASSUME NEW up \in BOOLEAN, AdoptContainer(i, up)
        PROVE  Inspect(i, ctr[ContainerName(i)].status, up)
    BY <2>4 DEF AdoptContainer
  <2>5. ASSUME NEW up \in BOOLEAN, NEW status, CreateContainer(i, status, up)
        PROVE  \/ Inspect(i, status, up)
               \/ ~up /\ Reported(i, FALSE) /\ UNCHANGED <<firstRunning, streak>>
    BY <2>5, Zenon DEF CreateContainer
  <2>6. QED
    BY <2>1, <2>2, <2>3, <2>4, <2>5, Zenon
<1> DEFINE id == InstanceID(i)
           seen == IF up THEN ag.up \cup {id} ELSE ag.up
<1>2. i \in ag.rows /\ id \in Instance /\ id.svc = i.svc /\ id \notin ag.up
  BY <1>0, RowNames DEF TickState, ReportedOnce
<1>3. ag' = [ag EXCEPT !.todo = ag.todo \ {i}, !.up = seen]
  BY <1>1 DEF Reported
<1>4. \/ UNCHANGED <<firstRunning, streak>> /\ (~up \/ i.svc \in Probed)
      \/ ~up /\ firstRunning' = firstRunning \ {id} /\ streak' = [streak EXCEPT ![id] = 0]
      \/ /\ up => id \in firstRunning
         /\ firstRunning' = firstRunning \cup {id}
         /\ streak' = [streak EXCEPT ![id] = IF streak[id] < 2 THEN streak[id] + 1 ELSE streak[id]]
  BY <1>1 DEF Observe
<1> HIDE DEF id
<1>5. ag'.rows = ag.rows /\ ag'.todo = ag.todo \ {i} /\ ag'.up = seen
  <2> HIDE DEF seen
  <2>1. QED
    BY <1>0, <1>3 DEF TickState
<1>6. OneRowEach'
  BY <1>0, <1>5, Zenon DEF OneRowEach, InstanceID
<1>7. ReportedOnce'
  <2>1. ASSUME NEW j \in ag.todo, j # i PROVE InstanceID(j) # id
    BY <1>0, <1>2, <2>1 DEF OneRowEach, id
  <2>2. \A j \in ag'.todo : InstanceID(j) \notin ag'.up
    BY <1>0, <1>5, <2>1 DEF ReportedOnce
  <2>3. QED
    BY <2>2, Zenon DEF ReportedOnce, InstanceID
<1>8. /\ \A k \in Instance : k # id => streak'[k] = streak[k]
      /\ \/ streak' = streak /\ firstRunning' = firstRunning /\ (~up \/ i.svc \in Probed)
         \/ ~up /\ firstRunning' = firstRunning \ {id} /\ streak'[id] = 0
         \/ /\ up => id \in firstRunning
            /\ firstRunning' = firstRunning \cup {id}
            /\ streak'[id] = IF streak[id] < 2 THEN streak[id] + 1 ELSE streak[id]
  BY <1>0, <1>2, <1>4
<1>9. streak[id] \in 0..2 /\ (id \in firstRunning => streak[id] >= 1)
  BY <1>0, <1>2 DEF FirstSeen
<1>10. FirstSeen'
  BY <1>0, <1>2, <1>8, <1>9 DEF FirstSeen
<1>11. DebouncedReport'
  <2> SUFFICES ASSUME NEW k \in ag'.up, k.svc \notin Probed PROVE streak'[k] = 2
    BY DEF DebouncedReport
  <2>1. CASE k # id
    <3>1. k \in ag.up
      BY <1>5, <2>1
    <3>2. QED
      BY <1>0, <1>8, <2>1, <3>1 DEF DebouncedReport
  <2>2. CASE k = id
    <3>1. up /\ i.svc \notin Probed
      BY <1>2, <1>5, <2>2
    <3>2. QED
      BY <1>8, <1>9, <2>2, <3>1
  <2>3. QED
    BY <2>1, <2>2
<1>12. QED
  BY <1>6, <1>7, <1>10, <1>11

(* Only ensuring reports an instance or lengthens its streak; a tick       *)
(* that ends, or an agent that restarts, reports nothing more.             *)
LEMMA DebounceStep ==
    ASSUME AgentInvariant, AgentNext
    PROVE  OneRowEach' /\ ReportedOnce' /\ FirstSeen' /\ DebouncedReport'
<1>0. /\ AgentTypeOK /\ OneRowEach /\ ReportedOnce /\ FirstSeen /\ DebouncedReport
      /\ ag \in TickState
  BY DEF AgentInvariant, AgentTypeOK
<1>1. CASE Ensure
  BY <1>1, EnsureReports
<1>2. CASE ~Ensure
  <2>1. streak' = streak /\ firstRunning' \subseteq firstRunning
    <3>1. CASE ControlPlane
      BY <3>1, Zenon DEF ControlPlane, Deploy, Promote, FailRollout, RotateSecret, Expire, Sweep,
                  memory, history
    <3>2. CASE Tick
      BY <1>2, <3>2, Zenon
      DEF Tick, ReadInstances, ReadSecrets, ReadTombstones, EndEnsure, Cleanup, EndCleanup,
          SkipTeardown, RemoveEnv, EndTeardown, Report, memory, history
    <3>3. QED
      BY <3>1, <3>2 DEF AgentNext, TickFails, Restart, ContainerTurns, memory, history
  <2>2. FirstSeen'
    BY <1>0, <2>1 DEF FirstSeen
  <2>3. CASE ReadInstances
    <3>1. /\ ag'.rows = {i \in Row : /\ i.rev \in Wanted(i.env)
                                     /\ i.def = revs[i.env][i.rev].def}
          /\ ag'.up = {}
      BY <1>0, <2>3, RowsRead
    <3>2. ASSUME NEW i \in ag'.rows, NEW j \in ag'.rows, InstanceID(i) = InstanceID(j)
          PROVE  i = j
      <4>1. i \in Row /\ j \in Row /\ i.env = j.env /\ i.rev = j.rev /\ i.svc = j.svc
        BY <3>1, <3>2 DEF InstanceID
      <4>2. i.def = j.def
        BY <3>1, <4>1
      <4>3. QED
        BY <4>1, <4>2 DEF Row
    <3>3. OneRowEach'
      BY <3>2 DEF OneRowEach, InstanceID
    <3>4. QED
      BY <2>2, <3>1, <3>3 DEF ReportedOnce, DebouncedReport
  <2>4. CASE ag' = Idle
    BY <2>2, <2>4, IdleFields DEF OneRowEach, ReportedOnce, DebouncedReport
  <2>5. CASE ~ReadInstances /\ ag' # Idle
    <3>1. ag'.rows = ag.rows /\ ag'.todo \subseteq ag.todo
      BY <1>0, <2>5, TickSteps DEF TickMoves
    <3>2. ag'.up = ag.up
      <4>1. CASE UNCHANGED ag
        BY <4>1
      <4>2. CASE ControlPlane
        BY <4>2, Zenon DEF ControlPlane, Deploy, Promote, FailRollout, RotateSecret, Expire, Sweep
      <4>3. CASE Tick
        <5>1. CASE ReadSecrets
          BY <1>0, <5>1 DEF ReadSecrets, TickState
        <5>2. CASE ReadTombstones
          BY <1>0, <5>2 DEF ReadTombstones, TickState
        <5>3. CASE EndEnsure
          BY <1>0, <5>3 DEF EndEnsure, TickState
        <5>4. ASSUME NEW e \in ag.cleanup, NEW removed, NEW pruned, NEW failed,
                     Cleanup(e, removed, pruned, failed)
              PROVE  ag'.up = ag.up
          BY <1>0, <5>4 DEF Cleanup, TickState
        <5>5. CASE EndCleanup
          BY <1>0, <5>5 DEF EndCleanup, TickState
        <5>6. ASSUME NEW e, ag' = [ag EXCEPT !.teardown = ag.teardown \ {e}]
              PROVE  ag'.up = ag.up
          BY <1>0, <5>6 DEF TickState
        <5>7. CASE EndTeardown
          BY <1>0, <5>7 DEF EndTeardown, TickState
        <5>8. QED
          BY <1>2, <2>5, <4>3, <5>1, <5>2, <5>3, <5>4, <5>5, <5>6, <5>7
          DEF Tick, SkipTeardown, RemoveEnv, Report
      <4>4. QED
        BY <2>5, <4>1, <4>2, <4>3 DEF AgentNext, TickFails, Restart, ContainerTurns
    <3>3. OneRowEach'
      BY <1>0, <3>1 DEF OneRowEach, InstanceID
    <3>4. ReportedOnce'
      BY <1>0, <3>1, <3>2, Zenon DEF ReportedOnce, InstanceID
    <3>5. DebouncedReport'
      BY <1>0, <2>1, <3>2 DEF DebouncedReport
    <3>6. QED
      BY <2>2, <3>3, <3>4, <3>5
  <2>6. QED
    BY <2>3, <2>4, <2>5
<1>3. QED
  BY <1>1, <1>2

(* A node without containers, and an agent that has not ticked, satisfy    *)
(* the invariant.                                                          *)
LEMMA AgentInitInvariant == AgentInit => AgentInvariant
<1> SUFFICES ASSUME AgentInit PROVE AgentInvariant
  OBVIOUS
<1> USE AgentAssumption DEF AgentAssumption
<1>1. << >> \in Seq(RevisionRow) /\ Len(<< >>) = 0 /\ DOMAIN << >> = {}
  BY EmptySeq
<1>2. Absent \in Container /\ Absent.status = "absent"
  BY DEF Absent, Container, Fingerprint
<1>3. AgentTypeOK
  <2>1. revs \in [Env -> Seq(RevisionRow)] /\ \A e \in Env : Len(revs[e]) <= MaxRevision
    BY <1>1 DEF AgentInit
  <2>2. ctr \in [Name -> Container] /\ ag \in TickState /\ ag.todo \subseteq ag.rows
    BY <1>2, IdleFields DEF AgentInit
  <2>3. QED
    BY <2>1, <2>2 DEF AgentInit, AgentTypeOK
<1>4. DeletedHasNoRows /\ TeardownIsDeleted /\ EnsuredFirst /\ DestroyedStaysGone
  BY IdleFields DEF AgentInit, DeletedHasNoRows, TeardownIsDeleted, EnsuredFirst, DestroyedStaysGone
<1>5. RevisionsExist /\ WantedWasRead /\ NetworksHaveServices
  BY <1>2, IdleFields DEF AgentInit, RevisionsExist, WantedWasRead, NetworksHaveServices
<1>6. OneRowEach /\ ReportedOnce /\ FirstSeen /\ DebouncedReport
  BY IdleFields, Zenon DEF AgentInit, OneRowEach, ReportedOnce, FirstSeen, DebouncedReport
<1>7. QED
  BY <1>3, <1>4, <1>5, <1>6 DEF AgentInvariant

(* Every step, of the agent, Docker or the control plane, keeps it.        *)
LEMMA AgentNextInvariant == AgentInvariant /\ [AgentNext]_agentVars => AgentInvariant'
<1> SUFFICES ASSUME AgentInvariant, [AgentNext]_agentVars PROVE AgentInvariant'
  OBVIOUS
<1>1. CASE AgentNext
  <2>1. AgentTypeOK'
    BY <1>1, TypeStep DEF AgentInvariant
  <2>2. QED
    BY <1>1, <2>1, DeletedHasNoRowsStep, DestroyedStaysGoneStep, RevisionsExistStep,
       WantedWasReadStep, DebounceStep DEF AgentInvariant
<1>2. CASE UNCHANGED agentVars
  <2>1. /\ revs' = revs /\ secret' = secret /\ envState' = envState
        /\ ctr' = ctr /\ nets' = nets /\ vols' = vols /\ ag' = ag
        /\ known' = known /\ tornDown' = tornDown /\ firstRunning' = firstRunning
        /\ restarts' = restarts /\ destroyed' = destroyed /\ streak' = streak
    BY <1>2 DEF agentVars, cpVars, docker, memory, history
  <2>2. AgentTypeOK'
    BY <2>1 DEF AgentInvariant, AgentTypeOK
  <2>3. DeletedHasNoRows' /\ TeardownIsDeleted' /\ EnsuredFirst' /\ DestroyedStaysGone'
    BY <2>1, Zenon DEF AgentInvariant, DeletedHasNoRows, TeardownIsDeleted, EnsuredFirst, DestroyedStaysGone
  <2>4. RevisionsExist' /\ WantedWasRead' /\ NetworksHaveServices'
    BY <2>1, Zenon DEF AgentInvariant, RevisionsExist, WantedWasRead, NetworksHaveServices, Wanted, InPhase
  <2>5. OneRowEach' /\ ReportedOnce' /\ FirstSeen' /\ DebouncedReport'
    BY <2>1, Zenon DEF AgentInvariant, OneRowEach, ReportedOnce, FirstSeen, DebouncedReport
  <2>6. QED
    BY <2>2, <2>3, <2>4, <2>5 DEF AgentInvariant
<1>3. QED
  BY <1>1, <1>2

(* The inductive invariant holds throughout: types, what a deleted         *)
(* environment has left, and what a tick knows of the revisions that are   *)
(* wanted.                                                                 *)
THEOREM AgentInvariantHolds == AgentSpec => []AgentInvariant
BY AgentInitInvariant, AgentNextInvariant, PTL DEF AgentSpec

----------------------------------------------------------------------------
(* The agent's promises                                                    *)

(* Once RemoveEnv has succeeded nothing of the environment exists again.   *)
THEOREM NothingComesBack == AgentSpec => []NothingAfterTeardown
<1>1. AgentInvariant => NothingAfterTeardown
  BY DEF AgentInvariant, DestroyedStaysGone, NothingAfterTeardown, Containers, Networks
<1>2. QED
  BY <1>1, AgentInvariantHolds, PTL

(* A container without a healthcheck is reported running only if two ticks *)
(* in a row saw it up.                                                     *)
THEOREM ReportsAreDebounced == AgentSpec => []DebouncedReport
<1>1. AgentInvariant => DebouncedReport
  BY DEF AgentInvariant
<1>2. QED
  BY <1>1, AgentInvariantHolds, PTL

(* Pinned containers and volumes go only after the control plane has       *)
(* deleted their environment.                                              *)
THEOREM DurableIsKept == AgentSpec => DurableNeedsTombstone
<1> DEFINE Keeps ==
       \A e \in Env : envState[e] = "present" =>
         /\ e \in vols => e \in vols'
         /\ \A n \in Containers(e) : n.svc \notin Swappable => n \in Containers(e)'
<1>1. AgentInvariant /\ [AgentNext]_agentVars => [Keeps]_agentVars
  <2> SUFFICES ASSUME AgentInvariant, AgentNext, NEW e \in Env, envState[e] = "present"
               PROVE  /\ e \in vols => e \in vols'
                      /\ \A n \in Containers(e) : n.svc \notin Swappable => n \in Containers(e)'
    OBVIOUS
  <2>1. DockerMoves
    BY DockerSteps DEF AgentInvariant
  <2>2. e \notin ag.teardown
    BY DEF AgentInvariant, TeardownIsDeleted
  <2>3. e \in vols => e \in vols'
    BY <2>1, <2>2 DEF DockerMoves
  <2>4. \A n \in Containers(e) : n.svc \notin Swappable => n \in Containers(e)'
    BY <2>1, <2>2 DEF DockerMoves, Containers
  <2>5. QED
    BY <2>3, <2>4
<1>2. AgentSpec => [][Keeps]_agentVars
  <2> HIDE DEF Keeps
  <2>1. QED
    BY <1>1, AgentInvariantHolds, PTL DEF AgentSpec
<1>3. QED
  BY <1>2 DEF DurableNeedsTombstone

(* A tick works from rows it read a while ago, and removes no container or *)
(* network of a revision that is wanted when it does.                      *)
THEOREM WantedSurvivesStaleTick == AgentSpec => WantedIsKept
<1> DEFINE Keeps ==
       \A e \in Env : \A r \in Wanted(e) :
         /\ \A n \in Containers(e) : n.rev = r => n \in Containers(e)'
         /\ [env |-> e, rev |-> r] \in nets => [env |-> e, rev |-> r] \in nets'
<1>1. AgentInvariant /\ [AgentNext]_agentVars => [Keeps]_agentVars
  <2> SUFFICES ASSUME AgentInvariant, AgentNext, NEW e \in Env, NEW r \in Wanted(e)
               PROVE  /\ \A n \in Containers(e) : n.rev = r => n \in Containers(e)'
                      /\ [env |-> e, rev |-> r] \in nets => [env |-> e, rev |-> r] \in nets'
    OBVIOUS
  <2>1. DockerMoves /\ WantedWasRead
    BY DockerSteps DEF AgentInvariant
  <2>2. envState[e] = "present"
    BY DEF AgentInvariant, DeletedHasNoRows, Wanted, InPhase
  <2>3. e \notin ag.teardown
    BY <2>2 DEF AgentInvariant, TeardownIsDeleted
  <2>4. \A n \in Containers(e) : n.rev = r => n \in Containers(e)'
    BY <2>1, <2>3 DEF DockerMoves, WantedWasRead, Containers
  <2>5. [env |-> e, rev |-> r] \in nets => [env |-> e, rev |-> r] \in nets'
    BY <2>1, <2>3 DEF DockerMoves, WantedWasRead
  <2>6. QED
    BY <2>4, <2>5
<1>2. AgentSpec => [][Keeps]_agentVars
  <2> HIDE DEF Keeps
  <2>1. QED
    BY <1>1, AgentInvariantHolds, PTL DEF AgentSpec
<1>3. QED
  BY <1>2 DEF WantedIsKept
============================================================================
