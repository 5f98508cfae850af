------------------------------- MODULE Agent -------------------------------
(***************************************************************************)
(* One node's agent and its Docker daemon.  On every tick the agent asks   *)
(* the control plane which instances it must run and which environments it *)
(* must destroy, brings Docker to that state by calls any of which may     *)
(* fail, and reports which instances it saw running.  The control plane    *)
(* moves on between the steps of a tick.  It is here only as the agent     *)
(* meets it: revisions that enter and leave the desired state, secrets     *)
(* that rotate, previews that expire; Store and Rollout model it in full.  *)
(***************************************************************************)
EXTENDS Integers, Sequences, FiniteSets

CONSTANTS
    Env,            \* environments homed on this node
    Service,        \* the services of their stack
    Swappable,      \* those every revision replaces; the others are pinned
    Probed,         \* those with a healthcheck
    Mounting,       \* those that mount the environment's named volume
    Sealed,         \* those whose configuration names the secret
    Depends,        \* what each of them depends on
    Def,            \* runtime configurations a stack version may ask for
    MaxRevision,    \* bound: deployments per environment
    MaxSecret,      \* bound: versions of an environment's secret
    MaxRestarts,    \* bound: restarts of the agent
    Failing         \* whether calls of Docker and of the API may fail

ASSUME AgentAssumption ==
    /\ {Swappable, Probed, Mounting, Sealed} \subseteq SUBSET Service
    /\ Depends \in [Service -> SUBSET Service]
    /\ MaxRevision \in Nat /\ MaxSecret \in Nat \ {0} /\ MaxRestarts \in Nat
    /\ Failing \in BOOLEAN

VARIABLES
    revs,           \* control plane: the revisions of each environment
    secret,         \* control plane: the latest version of its secret
    envState,       \* control plane: present, tombstoned or swept
    ctr,            \* Docker: its containers, by name
    nets,           \* Docker: the revision networks
    vols,           \* Docker: the environments whose volume exists
    ag,             \* the tick in progress
    known,          \* knownEnvs
    tornDown,       \* tornDown
    firstRunning,   \* the keys of firstRunning
    restarts,       \* how often the agent restarted
    destroyed,      \* history: environments RemoveEnv has reported gone
    streak          \* history: ticks in a row an instance was seen up

cpVars == <<revs, secret, envState>>
docker == <<ctr, nets, vols>>
memory == <<known, tornDown, firstRunning>>
history == <<destroyed, streak>>
agentVars == <<cpVars, docker, ag, memory, restarts, history>>

Revision == 1..MaxRevision
Instance == [env : Env, rev : Revision, svc : Service]
Row == [env : Env, rev : Revision, svc : Service, def : Def]
Project == [env : Env, rev : Revision]
InstanceID(i) == [env |-> i.env, rev |-> i.rev, svc |-> i.svc]
ProjectName(i) == [env |-> i.env, rev |-> i.rev]

(* One container per revision, or one per environment (revision 0).        *)
ContainerName(i) ==
    [env |-> i.env, rev |-> IF i.svc \in Swappable THEN i.rev ELSE 0, svc |-> i.svc]
Name == {ContainerName(i) : i \in Instance}

Absent == [status |-> "absent", print |-> << >>]
EnvsOf(S) == {i.env : i \in S}

Idle == [pc |-> "idle", rows |-> {}, todo |-> {}, secrets |-> [e \in Env |-> 0],
         teardown |-> {}, offered |-> {}, cleanup |-> {}, next |-> {}, up |-> {}]

AgentInit ==
    /\ revs = [e \in Env |-> << >>]
    /\ secret = [e \in Env |-> 1]
    /\ envState = [e \in Env |-> "present"]
    /\ ctr = [n \in Name |-> Absent] /\ nets = {} /\ vols = {}
    /\ ag = Idle
    /\ known = {} /\ tornDown = {} /\ firstRunning = {}
    /\ restarts = 0
    /\ destroyed = {} /\ streak = [i \in Instance |-> 0]

----------------------------------------------------------------------------
(* The control plane as the agent meets it                                 *)

InPhase(e, phase) == {r \in DOMAIN revs[e] : revs[e][r].phase = phase}
Wanted(e) == InPhase(e, "rollout") \cup InPhase(e, "live")

(* A revision is placed on this node.  rejectPinnedDrift would hold it to  *)
(* the configuration of the live revision, but is skipped when a promotion *)
(* overtook the create (module Store), so it may ask for any.              *)
Deploy(e, def) ==
    /\ envState[e] = "present"
    /\ InPhase(e, "rollout") = {} /\ Len(revs[e]) < MaxRevision
    /\ revs' = [revs EXCEPT ![e] =
                  Append(@, [def |-> def, phase |-> "rollout", running |-> {}])]
    /\ UNCHANGED <<secret, envState, docker, ag, memory, restarts, history>>

(* The controller promotes a revision all of whose instances are reported  *)
(* running, and may fail one for reports of failure or at its deadline.    *)
(* It reads the reports of a rollout only, and only those are kept here.   *)
Promote(e, r) ==
    /\ r \in InPhase(e, "rollout") /\ revs[e][r].running = Service
    /\ revs' = [revs EXCEPT ![e] = [q \in DOMAIN @ |->
                  [@[q] EXCEPT !.phase = IF q = r THEN "live" ELSE "gone", !.running = {}]]]
    /\ UNCHANGED <<secret, envState, docker, ag, memory, restarts, history>>

FailRollout(e, r) ==
    /\ r \in InPhase(e, "rollout")
    /\ revs' = [revs EXCEPT ![e][r].phase = "gone", ![e][r].running = {}]
    /\ UNCHANGED <<secret, envState, docker, ag, memory, restarts, history>>

RotateSecret(e) ==
    /\ envState[e] = "present" /\ secret[e] < MaxSecret
    /\ secret' = [secret EXCEPT ![e] = @ + 1]
    /\ UNCHANGED <<revs, envState, docker, ag, memory, restarts, history>>

(* The reaper deletes an expired preview with its rows, leaves a tombstone *)
(* and sweeps that a day later.  The node is assumed not to be away for    *)
(* the whole day: the sweep finds the environment destroyed.               *)
Expire(e) ==
    /\ envState[e] = "present"
    /\ envState' = [envState EXCEPT ![e] = "tombstoned"]
    /\ revs' = [revs EXCEPT ![e] = << >>]
    /\ UNCHANGED <<secret, docker, ag, memory, restarts, history>>

Sweep(e) ==
    /\ envState[e] = "tombstoned" /\ e \in destroyed
    /\ envState' = [envState EXCEPT ![e] = "swept"]
    /\ UNCHANGED <<revs, secret, docker, ag, memory, restarts, history>>

----------------------------------------------------------------------------
(* A tick asks for its desired state, which handleDesiredState answers     *)
(* with one query after the other.                                         *)

ReadInstances ==
    /\ ag.pc = "idle"
    /\ LET rows == {i \in Row : /\ i.rev \in Wanted(i.env)
                                /\ i.def = revs[i.env][i.rev].def}
       IN ag' = [Idle EXCEPT !.pc = "secrets", !.rows = rows, !.todo = rows]
    /\ UNCHANGED <<cpVars, docker, memory, restarts, history>>

(* Version 0: no value, for an environment with no active revision by now. *)
(* A value that fails to decrypt is one of the ways EnsureFails.           *)
ReadSecrets ==
    /\ ag.pc = "secrets"
    /\ ag' = [ag EXCEPT !.pc = "tombstones", !.secrets =
                [e \in Env |-> IF Wanted(e) = {} THEN 0 ELSE secret[e]]]
    /\ UNCHANGED <<cpVars, docker, memory, restarts, history>>

ReadTombstones ==
    /\ ag.pc = "tombstones"
    /\ LET offered == {e \in Env : envState[e] = "tombstoned"}
       IN ag' = [ag EXCEPT !.pc = "ensure", !.offered = offered, !.teardown = offered]
    /\ UNCHANGED <<cpVars, docker, memory, restarts, history>>

(* An error of the request, or of any query of its handler, ends the tick; *)
(* nothing has been done by then.                                          *)
TickFails ==
    /\ Failing /\ ag.pc = "tombstones"
    /\ ag' = Idle
    /\ UNCHANGED <<cpVars, docker, memory, restarts, history>>

----------------------------------------------------------------------------
(* ensure, for one desired instance                                        *)

(* orderDesired: revisions in order, dependencies first.                   *)
OrderDesired(i) ==
    \A j \in ag.todo \ {i} :
       j.env = i.env => \/ j.rev > i.rev
                        \/ j.rev = i.rev /\ j.svc \notin Depends[i.svc]

(* resolveEnv finds every secret it needs; what containerFingerprint hashes *)
Resolvable(i) == i.svc \in Sealed => ag.secrets[i.env] # 0
ContainerFingerprint(i) ==
    <<i.def, IF i.svc \in Sealed THEN ag.secrets[i.env] ELSE 0>>

Existing(i) == ctr[ContainerName(i)].status # "absent"
Matching(i) == ctr[ContainerName(i)].print = ContainerFingerprint(i)

(* The calls that come before EnsureContainer, when all of them succeed.   *)
EnsureNetwork(i) == nets' = nets \cup {ProjectName(i)}
EnsureVolume(i) == vols' = IF i.svc \in Mounting THEN vols \cup {i.env} ELSE vols

Reported(i, up) ==
    ag' = [ag EXCEPT !.todo = @ \ {i}, !.up = IF up THEN @ \cup {InstanceID(i)} ELSE @]

(* A slip: a container seen down keeps its place.                          *)
ObserveNoReset(i, status, up) ==
    LET id == InstanceID(i) IN
    \/ /\ status # "running" /\ ~up
       /\ streak' = [streak EXCEPT ![id] = 0]
       /\ UNCHANGED firstRunning
    \/ /\ status = "running" /\ i.svc \in Probed
       /\ UNCHANGED <<firstRunning, streak>>
    \/ /\ status = "running" /\ i.svc \notin Probed
       /\ up => id \in firstRunning
       /\ firstRunning' = firstRunning \cup {id}
       /\ streak' = [streak EXCEPT ![id] = IF @ < 2 THEN @ + 1 ELSE @]

(* observe: the report on a container of this status.  One with no probe   *)
(* is reported running only once it has been up for the debounce, so never *)
(* on the tick that first sees it up.                                      *)
Observe(i, status, up) ==
    LET id == InstanceID(i) IN
    \/ /\ status # "running" /\ ~up
       /\ firstRunning' = firstRunning \ {id}
       /\ streak' = [streak EXCEPT ![id] = 0]
    \/ /\ status = "running" /\ i.svc \in Probed
       /\ UNCHANGED <<firstRunning, streak>>
    \/ /\ status = "running" /\ i.svc \notin Probed
       /\ up => id \in firstRunning
       /\ firstRunning' = firstRunning \cup {id}
       /\ streak' = [streak EXCEPT ![id] = IF @ < 2 THEN @ + 1 ELSE @]

(* AttachNetwork or InspectHealth failing hides the container's status.    *)
Inspect(i, status, up) ==
    /\ Reported(i, up)
    /\ \/ Observe(i, status, up)
       \/ Failing /\ ~up /\ UNCHANGED <<firstRunning, streak>>

Ensuring(i) == ag.pc = "ensure" /\ i \in ag.todo /\ OrderDesired(i)
untouched == <<cpVars, known, tornDown, restarts, destroyed>>

(* An image, network or volume that fails leaves what came before it; an   *)
(* environment that does not resolve, or a call on the container that      *)
(* fails, leaves network and volume.                                       *)
EnsureFails(i) ==
    /\ Ensuring(i)
    /\ \/ Failing /\ UNCHANGED <<nets, vols>>
       \/ Failing /\ EnsureNetwork(i) /\ UNCHANGED vols
       \/ /\ EnsureNetwork(i) /\ EnsureVolume(i)
          /\ Failing \/ ~Resolvable(i)
    /\ Reported(i, FALSE)
    /\ UNCHANGED <<ctr, firstRunning, streak, untouched>>

(* A container of the name exists with another fingerprint: a hard error.  *)
RefuseContainer(i) ==
    /\ Ensuring(i) /\ Resolvable(i) /\ Existing(i) /\ ~Matching(i)
    /\ EnsureNetwork(i) /\ EnsureVolume(i)
    /\ Reported(i, FALSE)
    /\ UNCHANGED <<ctr, firstRunning, streak, untouched>>

(* One exists with this fingerprint: whatever its status, it is adopted.   *)
AdoptContainer(i, up) ==
    /\ Ensuring(i) /\ Resolvable(i) /\ Existing(i) /\ Matching(i)
    /\ EnsureNetwork(i) /\ EnsureVolume(i)
    /\ Inspect(i, ctr[ContainerName(i)].status, up)
    /\ UNCHANGED <<ctr, untouched>>

(* None exists: ContainerCreate, then ContainerStart, which may fail.  The *)
(* container may be down again when it is inspected.                       *)
CreateContainer(i, status, up) ==
    /\ Ensuring(i) /\ Resolvable(i) /\ ~Existing(i)
    /\ EnsureNetwork(i) /\ EnsureVolume(i)
    /\ ctr' = [ctr EXCEPT ![ContainerName(i)] =
                 [status |-> status, print |-> ContainerFingerprint(i)]]
    /\ \/ status \in {"running", "exited"} /\ Inspect(i, status, up)
       \/ /\ Failing /\ status = "created" /\ ~up
          /\ Reported(i, FALSE) /\ UNCHANGED <<firstRunning, streak>>
    /\ UNCHANGED untouched

Ensure ==
    \E i \in ag.todo :
       \/ EnsureFails(i) \/ RefuseContainer(i)
       \/ \E up \in BOOLEAN :
             \/ AdoptContainer(i, up)
             \/ \E status \in {"created", "running", "exited"} : CreateContainer(i, status, up)

----------------------------------------------------------------------------
(* The rest of Reconcile: collect, tear down, report                       *)

(* Every row has been ensured; knownEnvs and the environments of this tick *)
(* are to be cleaned up.                                                   *)
EndEnsure ==
    /\ ag.pc = "ensure" /\ ag.todo = {}
    /\ firstRunning' = firstRunning \cap {InstanceID(i) : i \in ag.rows}
    /\ ag' = [ag EXCEPT !.pc = "cleanup", !.cleanup = known \cup EnvsOf(ag.rows),
                        !.next = EnvsOf(ag.rows), !.secrets = Idle.secrets]
    /\ UNCHANGED <<cpVars, docker, known, tornDown, restarts, history>>

(* Two slips: pinned containers count; so does what is not up.             *)
OrphansPinned(e) ==
    {n \in Name : /\ n.env = e
                  /\ ctr[n].status # "absent"
                  /\ n \notin {ContainerName(i) : i \in ag.rows}}
OrphansNotUp(e) ==
    {n \in Name : /\ n.env = e /\ n.svc \in Swappable
                  /\ ctr[n].status # "absent"
                  /\ n \notin {ContainerName(i) : i \in ag.up}}

(* Managed, swappable and not wanted by this tick's rows.                  *)
Orphans(e) ==
    {n \in Name : /\ n.env = e /\ n.svc \in Swappable
                  /\ ctr[n].status # "absent"
                  /\ n \notin {ContainerName(i) : i \in ag.rows}}
Obsolete(e) == {p \in nets : p.env = e /\ p \notin {ProjectName(i) : i \in ag.rows}}

(* A slip: an environment whose cleanup failed is forgotten.               *)
CleanupForgets(e, removed, pruned, failed) ==
    /\ ag.pc = "cleanup" /\ e \in ag.cleanup
    /\ removed \subseteq Orphans(e) /\ pruned \subseteq Obsolete(e)
    /\ removed # Orphans(e) \/ pruned # Obsolete(e) => failed
    /\ failed => Failing
    /\ ctr' = [n \in Name |-> IF n \in removed THEN Absent ELSE ctr[n]]
    /\ nets' = nets \ pruned
    /\ ag' = [ag EXCEPT !.cleanup = @ \ {e}]
    /\ UNCHANGED <<cpVars, vols, memory, restarts, history>>

(* Orphaned containers and obsolete networks go, those whose calls do not  *)
(* fail; an environment with a failure stays known.                        *)
Cleanup(e, removed, pruned, failed) ==
    /\ ag.pc = "cleanup" /\ e \in ag.cleanup
    /\ removed \subseteq Orphans(e) /\ pruned \subseteq Obsolete(e)
    /\ removed # Orphans(e) \/ pruned # Obsolete(e) => failed
    /\ failed => Failing
    /\ ctr' = [n \in Name |-> IF n \in removed THEN Absent ELSE ctr[n]]
    /\ nets' = nets \ pruned
    /\ ag' = [ag EXCEPT !.cleanup = @ \ {e}, !.next = IF failed THEN @ \cup {e} ELSE @]
    /\ UNCHANGED <<cpVars, vols, memory, restarts, history>>

EndCleanup ==
    /\ ag.pc = "cleanup" /\ ag.cleanup = {}
    /\ known' = ag.next
    /\ ag' = [ag EXCEPT !.pc = "teardown", !.next = {}]
    /\ UNCHANGED <<cpVars, docker, tornDown, firstRunning, restarts, history>>

SkipTeardown(e) ==
    /\ ag.pc = "teardown" /\ e \in ag.teardown /\ e \in tornDown
    /\ ag' = [ag EXCEPT !.teardown = @ \ {e}]
    /\ UNCHANGED <<cpVars, docker, memory, restarts, history>>

Containers(e) == {n \in Name : n.env = e /\ ctr[n].status # "absent"}
Networks(e) == {p \in nets : p.env = e}

(* What RemoveEnv does to Docker, leaving these behind.  A container that  *)
(* stays ends it; networks and volumes fail one by one.                    *)
RemoveAllBut(e, containers, networks, volume) ==
    /\ containers \subseteq Containers(e) /\ networks \subseteq Networks(e)
    /\ volume => e \in vols
    /\ containers # {} => networks = Networks(e) /\ (volume <=> e \in vols)
    /\ ctr' = [n \in Name |-> IF n.env = e /\ n \notin containers THEN Absent ELSE ctr[n]]
    /\ nets' = (nets \ Networks(e)) \cup networks
    /\ vols' = IF volume THEN vols ELSE vols \ {e}

(* Two slips: a failed teardown is recorded; networks that stay are no     *)
(* failure.                                                                *)
RemoveEnvRecorded(e, containers, networks, volume, failed) ==
    /\ ag.pc = "teardown" /\ e \in ag.teardown /\ e \notin tornDown
    /\ RemoveAllBut(e, containers, networks, volume)
    /\ containers # {} \/ networks # {} \/ volume => failed
    /\ failed => Failing
    /\ tornDown' = tornDown \cup {e}
    /\ destroyed' = IF failed THEN destroyed ELSE destroyed \cup {e}
    /\ ag' = [ag EXCEPT !.teardown = @ \ {e}]
    /\ UNCHANGED <<cpVars, known, firstRunning, restarts, streak>>
RemoveEnvLeavesNets(e, containers, networks, volume, failed) ==
    /\ ag.pc = "teardown" /\ e \in ag.teardown /\ e \notin tornDown
    /\ RemoveAllBut(e, containers, networks, volume)
    /\ containers # {} \/ volume => failed
    /\ failed => Failing
    /\ tornDown' = IF failed THEN tornDown ELSE tornDown \cup {e}
    /\ destroyed' = IF failed THEN destroyed ELSE destroyed \cup {e}
    /\ ag' = [ag EXCEPT !.teardown = @ \ {e}]
    /\ UNCHANGED <<cpVars, known, firstRunning, restarts, streak>>

(* One tombstone: only a teardown without a failure is recorded.           *)
RemoveEnv(e, containers, networks, volume, failed) ==
    /\ ag.pc = "teardown" /\ e \in ag.teardown /\ e \notin tornDown
    /\ RemoveAllBut(e, containers, networks, volume)
    /\ containers # {} \/ networks # {} \/ volume => failed
    /\ failed => Failing
    /\ tornDown' = IF failed THEN tornDown ELSE tornDown \cup {e}
    /\ destroyed' = IF failed THEN destroyed ELSE destroyed \cup {e}
    /\ ag' = [ag EXCEPT !.teardown = @ \ {e}]
    /\ UNCHANGED <<cpVars, known, firstRunning, restarts, streak>>

(* Tombstones no longer offered are forgotten, when there must be some.    *)
EndTeardown ==
    /\ ag.pc = "teardown" /\ ag.teardown = {}
    /\ tornDown' = IF Cardinality(tornDown) > Cardinality(ag.offered)
                   THEN tornDown \cap ag.offered ELSE tornDown
    /\ ag' = [ag EXCEPT !.pc = "report", !.offered = {}]
    /\ UNCHANGED <<cpVars, docker, known, firstRunning, restarts, history>>

(* The report updates the rows that still exist, up to one that fails.     *)
Report(sent) ==
    /\ ag.pc = "report"
    /\ sent \subseteq {InstanceID(i) : i \in ag.rows}
    /\ sent # {InstanceID(i) : i \in ag.rows} => Failing
    /\ revs' = [e \in Env |-> [r \in DOMAIN revs[e] |->
                  LET of(S) == {i.svc : i \in {j \in S : j.env = e /\ j.rev = r}}
                  IN [revs[e][r] EXCEPT !.running =
                        IF r \in InPhase(e, "rollout")
                        THEN (@ \ of(sent)) \cup of(sent \cap ag.up) ELSE @]]]
    /\ ag' = Idle
    /\ UNCHANGED <<secret, envState, docker, memory, restarts, history>>

(* The process restarts: its tick and its memory are lost, Docker is not.  *)
Restart ==
    /\ restarts < MaxRestarts
    /\ restarts' = restarts + 1
    /\ ag' = Idle
    /\ known' = {} /\ tornDown' = {} /\ firstRunning' = {}
    /\ UNCHANGED <<cpVars, docker, history>>

(* A container that was started exits, and Docker's restart policy may     *)
(* bring it back.                                                          *)
ContainerTurns(n, status) ==
    /\ {ctr[n].status, status} = {"running", "exited"}
    /\ ctr' = [ctr EXCEPT ![n].status = status]
    /\ UNCHANGED <<cpVars, nets, vols, ag, memory, restarts, history>>

----------------------------------------------------------------------------
ControlPlane ==
    \E e \in Env :
       \/ \E def \in Def : Deploy(e, def)
       \/ \E r \in Revision : Promote(e, r) \/ FailRollout(e, r)
       \/ RotateSecret(e) \/ Expire(e) \/ Sweep(e)

Tick ==
    \/ ReadInstances \/ ReadSecrets \/ ReadTombstones
    \/ Ensure \/ EndEnsure
    \/ \E e \in ag.cleanup : \E removed \in SUBSET Orphans(e), pruned \in SUBSET Obsolete(e),
                                failed \in BOOLEAN : Cleanup(e, removed, pruned, failed)
    \/ EndCleanup
    \/ \E e \in ag.teardown :
          \/ SkipTeardown(e)
          \/ \E containers \in SUBSET Containers(e), networks \in SUBSET Networks(e),
                volume, failed \in BOOLEAN : RemoveEnv(e, containers, networks, volume, failed)
    \/ EndTeardown
    \/ \E sent \in SUBSET {InstanceID(i) : i \in ag.rows} : Report(sent)

AgentNext ==
    \/ ControlPlane \/ Tick \/ TickFails \/ Restart
    \/ \E n \in Name, status \in {"running", "exited"} : ContainerTurns(n, status)

AgentSpec == AgentInit /\ [][AgentNext]_agentVars

(* The ticker keeps calling; an API or a daemon that fails does not fail   *)
(* for ever, so a call made again on every tick succeeds at last.          *)
Answered == ReadTombstones
CleanedUp(e) == Cleanup(e, Orphans(e), Obsolete(e), FALSE)
TornDown(e) == RemoveEnv(e, {}, {}, FALSE, FALSE)
AgentFairness ==
    /\ WF_agentVars(Tick)
    /\ SF_agentVars(Answered)
    /\ \A e \in Env : SF_agentVars(CleanedUp(e)) /\ SF_agentVars(TornDown(e))

AgentFairSpec == AgentSpec /\ AgentFairness

----------------------------------------------------------------------------
Phase == {"rollout", "live", "gone"}
RevisionRow == [def : Def, phase : Phase, running : SUBSET Service]
Fingerprint == {<< >>} \cup (Def \X (0..MaxSecret))
Container == [status : {"absent", "created", "running", "exited"}, print : Fingerprint]
TickState ==
    [pc : {"idle", "secrets", "tombstones", "ensure", "cleanup", "teardown", "report"},
     rows : SUBSET Row, todo : SUBSET Row, secrets : [Env -> 0..MaxSecret],
     teardown : SUBSET Env, offered : SUBSET Env, cleanup : SUBSET Env, next : SUBSET Env,
     up : SUBSET Instance]

(* Every variable has its type, and a tick's work list is part of what it  *)
(* was told.                                                               *)
AgentTypeOK ==
    /\ revs \in [Env -> Seq(RevisionRow)]
    /\ \A e \in Env : Len(revs[e]) <= MaxRevision
    /\ secret \in [Env -> 1..MaxSecret]
    /\ envState \in [Env -> {"present", "tombstoned", "swept"}]
    /\ ctr \in [Name -> Container] /\ nets \subseteq Project /\ vols \subseteq Env
    /\ ag \in TickState /\ ag.todo \subseteq ag.rows
    /\ known \subseteq Env /\ tornDown \subseteq Env /\ destroyed \subseteq Env
    /\ firstRunning \subseteq Instance
    /\ restarts \in 0..MaxRestarts
    /\ streak \in [Instance -> 0..2]

(* Pinned containers and volumes are the durable state of an environment.  *)
(* Whatever the agent has forgotten, misread or not been told, it removes  *)
(* one only after the control plane has deleted the environment.           *)
DurableNeedsTombstone ==
    [][\A e \in Env : envState[e] = "present" =>
         /\ e \in vols => e \in vols'
         /\ \A n \in Containers(e) : n.svc \notin Swappable => n \in Containers(e)']_agentVars

(* The desired state a tick works from is old by the time it collects.  A  *)
(* container or network of a revision that is wanted now is collected all  *)
(* the same by no tick.                                                    *)
WantedIsKept ==
    [][\A e \in Env : \A r \in Wanted(e) :
         /\ \A n \in Containers(e) : n.rev = r => n \in Containers(e)'
         /\ [env |-> e, rev |-> r] \in nets => [env |-> e, rev |-> r] \in nets']_agentVars

(* Once RemoveEnv has succeeded nothing of the environment exists again,   *)
(* though the tick that destroys it may itself have been told to run it,   *)
(* and later ticks skip it.                                                *)
NothingAfterTeardown ==
    \A e \in destroyed : Containers(e) = {} /\ Networks(e) = {} /\ e \notin vols

(* A container without a healthcheck is reported running only if two ticks *)
(* in a row saw it up, so a crash loop does not pass for a started one.    *)
DebouncedReport ==
    \A i \in ag.up : i.svc \notin Probed => streak[i] = 2

(* Again and again nothing is left of revisions that have gone, for any    *)
(* environment that still has a revision to run, or whose failed first     *)
(* rollout this agent process has witnessed.                               *)
OrphansCollected ==
    \A e \in Env :
       []<>(\/ \A n \in Containers(e) : n.svc \in Swappable => n.rev \in Wanted(e)
            \/ restarts > 0 /\ Wanted(e) = {})

(* An environment the control plane has deleted is destroyed on the node,  *)
(* whatever fails or restarts on the way.                                  *)
TombstoneHonoured ==
    \A e \in Env : []<>(\/ envState[e] = "present"
                        \/ Containers(e) = {} /\ e \notin vols)

(* "Adoption is how a pinned service is shared: the second deployment to   *)
(* want it finds it already running" (driver.go): no container that was    *)
(* created but never started is adopted.                                   *)
AdoptedWasStarted ==
    [][\A i \in ag.todo, up \in BOOLEAN :
         AdoptContainer(i, up) => ctr[ContainerName(i)].status # "created"]_agentVars
============================================================================
