------------------------------ MODULE Rollout ------------------------------
(***************************************************************************)
(* The control plane at work on its tables: the scheduler and the          *)
(* controller, each a loop in a goroutine of its own, the API handlers an  *)
(* operator calls, and the agents' reports.  A query and a transaction are *)
(* each one step; what a loop read earlier it remembers, and anything may  *)
(* happen before it acts on it.  The loops list rows in time order; here   *)
(* they take them in any order, which allows every run of the code.        *)
(***************************************************************************)
EXTENDS Store, Placement

CONSTANT Faults     \* which of the environment's mishaps may happen

ASSUME ResourceAssumption == Resource = {"mem", "cpu"}
ASSUME FaultsAssumption == Faults \subseteq {"silence", "drain", "restart", "sync"}

VARIABLES
    sched,          \* the scheduler: where it is and what it has read
    ctl,            \* the controller: the same, and firstTerminal
    drain,          \* the drain handler: the node and what is left to release
    routes,         \* the router's configuration: a target per environment
    ran             \* history: deployments all of whose instances ran at once

loopVars == <<sched, ctl, drain, routes, ran>>
vars == <<storeVars, loopVars>>

Deployment == [env : Env, rev : 1..MaxRevision]
Dep(e, r) == [env |-> e, rev |-> r]

SchedIdle == [pc |-> "idle", todo |-> {}, cur |-> None, fleet |-> << >>, node |-> None]
CtlIdle(first) ==
    [pc |-> "idle", todo |-> {}, cur |-> None, verdict |-> "none", read |-> << >>,
     first |-> first, seen |-> {}]
DrainIdle == [pc |-> "idle", node |-> None, todo |-> {}]

RolloutInit ==
    /\ Init
    /\ sched = SchedIdle
    /\ ctl = CtlIdle({})
    /\ drain = DrainIdle
    /\ routes = [e \in Env |-> None]
    /\ ran = {}

----------------------------------------------------------------------------
(* ScheduleOnce                                                            *)

ScheduleMark ==
    /\ sched.pc = "idle"
    /\ MarkStaleNodesUnreachable
    /\ sched' = [sched EXCEPT !.pc = "list"]
    /\ UNCHANGED <<ctl, drain, routes, ran>>

(* ListPendingDeployments, with each environment's home.                   *)
ScheduleList ==
    /\ sched.pc = "list"
    /\ sched' = [sched EXCEPT !.pc = "place", !.todo =
                   {[env |-> d.env, rev |-> d.rev, home |-> home[d.env],
                     version |-> Row(d.env, d.rev).version] :
                    d \in {d \in Deployment : Pending(d.env, d.rev)}}]
    /\ UNCHANGED <<storeVars, ctl, drain, routes, ran>>

(* place, up to its first write.  No ready node, or the home node is not   *)
(* ready: left pending.  Homed: there or nowhere.  Otherwise remember the  *)
(* fleet ListReadyNodes returned and go on to score it.                    *)
SchedulePlace(d) ==
    /\ sched.pc = "place" /\ d \in sched.todo
    /\ LET ready == ListReadyNodes
           rest  == [sched EXCEPT !.todo = sched.todo \ {d}]
       IN  sched' = CASE ready = {} \/ d.home \notin ready \cup {None} -> rest
                      [] ready # {} /\ d.home = None ->
                            [rest EXCEPT !.pc = "score", !.cur = d,
                               !.fleet = [n \in ready |-> [cap |-> cap[n], alloc |-> alloc[n]]]]
                      [] d.home \in ready ->
                            [rest EXCEPT !.cur = d, !.node = d.home,
                               !.pc = IF Fits(d.home, d.version) THEN "commit" ELSE "fail"]
    /\ UNCHANGED <<storeVars, ctl, drain, routes, ran>>

PeakOf(v) == [res \in Resource |-> Peak(v, res)]
HomedPerNode == [n \in Node |-> Cardinality({e \in Env : home[e] = n})]

(* EnvironmentsHomedPerNode and bestNode.                                  *)
ScheduleScore ==
    /\ sched.pc = "score"
    /\ \/ /\ Candidates(sched.fleet, PeakOf(sched.cur.version)) = {}
          /\ sched' = [sched EXCEPT !.pc = "fail", !.fleet = << >>]
       \/ \E n \in DOMAIN sched.fleet :
             /\ IsBest(sched.fleet, HomedPerNode, PeakOf(sched.cur.version), n)
             /\ sched' = [sched EXCEPT !.pc = "commit", !.fleet = << >>, !.node = n]
    /\ UNCHANGED <<storeVars, ctl, drain, routes, ran>>

SchedNext == [sched EXCEPT !.pc = "place", !.cur = None, !.node = None]

(* commit: a conflict fails the deployment, any other refusal is logged.   *)
ScheduleCommit ==
    /\ sched.pc = "commit"
    /\ LET e == sched.cur.env
           r == sched.cur.rev
       IN  \/ PlaceDeployment(e, r, sched.node) /\ sched' = SchedNext
           \/ /\ PlaceConflicts(e, r, sched.node)
              /\ sched' = [sched EXCEPT !.pc = "fail"]
              /\ UNCHANGED storeVars
           \/ ~Pending(e, r) /\ sched' = SchedNext /\ UNCHANGED storeVars
    /\ UNCHANGED <<ctl, drain, routes, ran>>

(* UpdateDeploymentState as a caller sees it: an illegal move, or a row    *)
(* that has gone, changes nothing.                                         *)
TryUpdate(e, r, to) ==
    IF r \in Revisions(e) /\ ValidMove(Row(e, r).state, to)
    THEN UpdateDeploymentState(e, r, to) ELSE UNCHANGED storeVars

ScheduleFail ==
    /\ sched.pc = "fail"
    /\ TryUpdate(sched.cur.env, sched.cur.rev, "failed")
    /\ sched' = SchedNext
    /\ UNCHANGED <<ctl, drain, routes, ran>>

ScheduleDone ==
    /\ sched.pc = "place" /\ sched.todo = {}
    /\ sched' = SchedIdle
    /\ UNCHANGED <<storeVars, ctl, drain, routes, ran>>

SchedulerStep ==
    \/ ScheduleMark \/ ScheduleList \/ (\E d \in sched.todo : SchedulePlace(d))
    \/ ScheduleScore \/ ScheduleCommit \/ ScheduleFail \/ ScheduleDone

----------------------------------------------------------------------------
(* ReconcileOnce                                                           *)

InState(S) == {d \in Deployment : d.rev \in Revisions(d.env) /\ Row(d.env, d.rev).state \in S}

ReconcileList ==
    /\ ctl.pc = "idle"
    /\ ctl' = [ctl EXCEPT !.pc = "advance", !.todo =
                 {[env |-> d.env, rev |-> d.rev, state |-> Row(d.env, d.rev).state] :
                  d \in InState({"scheduling", "starting", "healthy"})}]
    /\ UNCHANGED <<storeVars, sched, drain, routes, ran>>

(* The states of a deployment's instance rows; none when it has no rows or *)
(* is gone with its environment.                                           *)
InstanceStates(e, r) ==
    IF r \in Revisions(e) THEN {Row(e, r).inst[s] : s \in Service} \ {"absent"} ELSE {}

(* Slips: one running instance is enough; no start timeout.                *)
VerdictOfOne(state, insts, late) ==
    CASE insts = {} -> "none"
      [] insts # {} /\ "failed" \in insts -> "failed"
      [] insts # {} /\ "failed" \notin insts ->
           CASE state = "scheduling" /\ "pending" \notin insts -> "starting"
             [] state = "starting" /\ "running" \in insts -> "healthy"
             [] state = "starting" /\ "running" \notin insts /\ late -> "failed"
             [] state = "healthy" -> "promote"
             [] OTHER -> "none"

VerdictPatient(state, insts, late) ==
    CASE insts = {} -> "none"
      [] insts # {} /\ "failed" \in insts -> "failed"
      [] insts # {} /\ "failed" \notin insts ->
           CASE state = "scheduling" /\ "pending" \notin insts -> "starting"
             [] state = "starting" /\ insts = {"running"} -> "healthy"
             [] state = "healthy" -> "promote"
             [] OTHER -> "none"

(* advance: what the aggregate of the instances asks for, for a deployment *)
(* listed in state "state"; "late" says the start timeout has passed.      *)
Verdict(state, insts, late) ==
    CASE insts = {} -> "none"
      [] insts # {} /\ "failed" \in insts -> "failed"
      [] insts # {} /\ "failed" \notin insts ->
           CASE state = "scheduling" /\ "pending" \notin insts -> "starting"
             [] state = "starting" /\ insts = {"running"} -> "healthy"
             [] state = "starting" /\ insts # {"running"} /\ late -> "failed"
             [] state = "healthy" -> "promote"
             [] OTHER -> "none"

ReconcileRead(d, late) ==
    /\ ctl.pc = "advance" /\ d \in ctl.todo
    /\ LET verdict == Verdict(d.state, InstanceStates(d.env, d.rev), late)
           rest == [ctl EXCEPT !.todo = ctl.todo \ {d}]
       IN  ctl' = IF verdict = "none" THEN rest
                  ELSE [rest EXCEPT !.pc = "apply", !.cur = d, !.verdict = verdict]
    /\ UNCHANGED <<storeVars, sched, drain, routes, ran>>

(* PromoteDeployment as its callers see it.                                *)
TryPromote(e, r) ==
    IF r \in Revisions(e) /\ Row(e, r).state = "healthy"
    THEN PromoteDeployment(e, r) ELSE UNCHANGED storeVars

ReconcileApply ==
    /\ ctl.pc = "apply"
    /\ IF ctl.verdict = "promote" THEN TryPromote(ctl.cur.env, ctl.cur.rev)
       ELSE TryUpdate(ctl.cur.env, ctl.cur.rev, ctl.verdict)
    /\ ctl' = [ctl EXCEPT !.pc = "advance", !.cur = None, !.verdict = "none"]
    /\ UNCHANGED <<sched, drain, routes, ran>>

(* liveRoutes: the live revision at the address of the environment's home  *)
(* node, when that node is ready and heard from within the strand window,  *)
(* and syncRouter's omission of routes without an address or a port.  The  *)
(* port Docker picked is named by the revision whose container has it.     *)
LiveRoutes ==
    [e \in Env |->
       IF /\ live[e] # 0
          /\ home[e] # None
          /\ nodeState[home[e]] = "ready" /\ silence[home[e]] < 2
          /\ Row(e, live[e]).published
       THEN [node |-> home[e], rev |-> live[e]] ELSE None]

ReconcileRoutes ==
    /\ ctl.pc = "advance" /\ ctl.todo = {}
    /\ ctl' = [ctl EXCEPT !.pc = "sync", !.read = LiveRoutes]
    /\ UNCHANGED <<storeVars, sched, drain, routes, ran>>

(* A slip: only missing routes are written.                                *)
SyncMissingOnly ==
    /\ ctl.pc = "sync"
    /\ routes' = [e \in Env |-> IF routes[e] = None THEN ctl.read[e] ELSE routes[e]]
    /\ ctl' = [ctl EXCEPT !.pc = "terminal", !.read = << >>]
    /\ UNCHANGED <<storeVars, sched, drain, ran>>

(* Router.Sync replaces the whole file or, failing, leaves the old one; a  *)
(* failure ends the tick before anything is torn down.                     *)
ReconcileSync ==
    /\ ctl.pc = "sync"
    /\ routes' = ctl.read
    /\ ctl' = [ctl EXCEPT !.pc = "terminal", !.read = << >>]
    /\ UNCHANGED <<storeVars, sched, drain, ran>>

ReconcileSyncFails ==
    /\ "sync" \in Faults /\ ctl.pc = "sync"
    /\ ctl' = CtlIdle(ctl.first)
    /\ UNCHANGED <<storeVars, sched, drain, routes, ran>>

(* A slip: live deployments are listed for teardown too.                   *)
ListLiveToo ==
    /\ ctl.pc = "terminal"
    /\ ctl' = [ctl EXCEPT !.pc = "teardown", !.todo = InState(Terminal \cup {"live"})]
    /\ UNCHANGED <<storeVars, sched, drain, routes, ran>>

ReconcileTerminal ==
    /\ ctl.pc = "terminal"
    /\ ctl' = [ctl EXCEPT !.pc = "teardown", !.todo = InState(Terminal)]
    /\ UNCHANGED <<storeVars, sched, drain, routes, ran>>

(* Held back until it has been terminal for teardownGrace, which cannot be *)
(* so on the tick that first sees it; also the retry of a failed delete.   *)
ReconcileHold(d) ==
    /\ ctl.pc = "teardown" /\ d \in ctl.todo
    /\ ctl' = [ctl EXCEPT !.todo = ctl.todo \ {d}, !.seen = ctl.seen \cup {d}]
    /\ UNCHANGED <<storeVars, sched, drain, routes, ran>>

(* A slip: no grace.                                                       *)
NoGrace(d) == d \in ctl.todo

GraceOver(d) == d \in ctl.first

ReconcileTeardown(d) ==
    /\ ctl.pc = "teardown" /\ d \in ctl.todo
    /\ GraceOver(d)
    /\ IF d.rev \in Revisions(d.env) /\ Row(d.env, d.rev).node # None
       THEN DeleteInstances(d.env, d.rev) ELSE UNCHANGED storeVars
    /\ ctl' = [ctl EXCEPT !.todo = ctl.todo \ {d}]
    /\ UNCHANGED <<sched, drain, routes, ran>>

(* A slip: what was seen terminal is forgotten between ticks.              *)
ForgetFirst ==
    /\ ctl.pc = "teardown" /\ ctl.todo = {}
    /\ ctl' = CtlIdle({})
    /\ UNCHANGED <<storeVars, sched, drain, routes, ran>>

ReconcileDone ==
    /\ ctl.pc = "teardown" /\ ctl.todo = {}
    /\ ctl' = CtlIdle(ctl.seen)
    /\ UNCHANGED <<storeVars, sched, drain, routes, ran>>

ControllerStep ==
    \/ ReconcileList \/ ReconcileApply
    \/ (\E d \in ctl.todo, late \in BOOLEAN : ReconcileRead(d, late))
    \/ ReconcileRoutes \/ ReconcileSync \/ ReconcileSyncFails \/ ReconcileTerminal
    \/ (\E d \in ctl.todo : ReconcileHold(d) \/ ReconcileTeardown(d)) \/ ReconcileDone

----------------------------------------------------------------------------
(* API handlers                                                            *)

Api(action) == action /\ UNCHANGED loopVars

(* RollbackDeployment: re-deploy revision "to", or for 0 the one before    *)
(* the live one.  Rows are never rewritten, so the spec it reads ahead of  *)
(* the transaction is the one it would read inside it.                     *)
RollbackTarget(e, to) ==
    IF to # 0 THEN to
    ELSE IF live[e] > 1 THEN live[e] - 1 ELSE 0

RollbackDeployment(e, to) ==
    /\ RollbackTarget(e, to) \in Revisions(e)
    /\ CreateDeployment(e, Row(e, RollbackTarget(e, to)).version)

(* handleDrainNode: cordon, list what is homed there and not durable, then *)
(* release it environment by environment.                                  *)
DrainStart(n) ==
    /\ "drain" \in Faults /\ drain.pc = "idle"
    /\ DrainNode(n)
    /\ drain' = [pc |-> "list", node |-> n, todo |-> {}]
    /\ UNCHANGED <<sched, ctl, routes, ran>>

DrainList ==
    /\ drain.pc = "list"
    /\ drain' = [drain EXCEPT !.pc = "release", !.todo =
                   {e \in Env : home[e] = drain.node /\ Releasable(e)}]
    /\ UNCHANGED <<storeVars, sched, ctl, routes, ran>>

(* A slip: what was listed is released without another look.               *)
ReleaseAsListed(e) ==
    /\ drain.pc = "release" /\ e \in drain.todo
    /\ home' = [home EXCEPT ![e] = None]
    /\ drain' = [drain EXCEPT !.todo = drain.todo \ {e}]
    /\ UNCHANGED <<envState, live, deps, tombstones, nodeVars, alloc, sched, ctl, routes, ran>>

DrainRelease(e) ==
    /\ drain.pc = "release" /\ e \in drain.todo
    /\ IF envState[e] = "present" /\ home[e] # None /\ Releasable(e)
       THEN ReleaseEnvironmentHome(e) ELSE UNCHANGED storeVars
    /\ drain' = [drain EXCEPT !.todo = drain.todo \ {e}]
    /\ UNCHANGED <<sched, ctl, routes, ran>>

DrainDone ==
    /\ drain.pc = "release" /\ drain.todo = {}
    /\ drain' = DrainIdle
    /\ UNCHANGED <<storeVars, sched, ctl, routes, ran>>

DrainStep ==
    \/ (\E n \in Node : DrainStart(n)) \/ DrainList
    \/ (\E e \in drain.todo : DrainRelease(e)) \/ DrainDone

(* handlePromote, beside the controller's own promotion.                   *)
ApiStep ==
    \/ \E e \in Env, v \in Version : Api(CreateDeployment(e, v) \/ CreatePreview(e, v))
    \/ \E e \in Env, to \in 0..MaxRevision : Api(RollbackDeployment(e, to))
    \/ \E e \in Env, r \in 1..MaxRevision : Api(PromoteDeployment(e, r))
    \/ \E n \in Node : Api(UncordonNode(n))

----------------------------------------------------------------------------
(* Agents, the reaper, and what happens to them all                        *)

AllRunning(row) ==
    row.node # None /\ \A s \in Service : row.inst[s] \in {"running", "absent"}

(* An agent reports what it sees of one container, whatever that is and    *)
(* however late, as long as the row exists.                                *)
Report(n, e, r, s, st, port) ==
    /\ ReportInstance(n, e, r, s, st, port)
    /\ ran' = ran \cup IF AllRunning(deps'[e][r]) THEN {Dep(e, r)} ELSE {}
    /\ UNCHANGED <<sched, ctl, drain, routes>>

AgentStep ==
    \/ \E n \in Node : Api(Heartbeat(n) \/ \E c \in Capacity[n] : RegisterNode(n, c))
    \/ \E n \in Node, e \in Env, r \in 1..MaxRevision, s \in Service,
          st \in Reported, port \in BOOLEAN : Report(n, e, r, s, st, port)

ReaperStep ==
    \/ \E expired \in SUBSET Preview : expired # {} /\ Api(ExpireEnvironments(expired))
    \/ \E old \in SUBSET tombstones : old # {} /\ Api(SweepTombstones(old))

Silence == "silence" \in Faults /\ \E n \in Node : Api(HeartbeatAges(n))

(* The control plane restarts: the tables and the router's file survive.   *)
Restart ==
    /\ "restart" \in Faults
    /\ sched' = SchedIdle /\ ctl' = CtlIdle({}) /\ drain' = DrainIdle
    /\ UNCHANGED <<storeVars, routes, ran>>

RolloutNext ==
    \/ SchedulerStep \/ ControllerStep \/ ApiStep \/ DrainStep
    \/ AgentStep \/ ReaperStep \/ Silence \/ Restart

RolloutSpec == RolloutInit /\ [][RolloutNext]_vars

(* The loops tick for ever.  A rollout that stays in starting is read      *)
(* after its timeout sooner or later, and a terminal one that holds rows   *)
(* after its grace; Sync does not fail for ever; an agent registers, and   *)
(* reports something about every container it was asked for.  Nothing is   *)
(* assumed of the API.                                                     *)
Fairness ==
    /\ WF_vars(SchedulerStep) /\ WF_vars(ControllerStep) /\ SF_vars(ReconcileSync)
    /\ \A e \in Env :
         /\ SF_vars(\E d \in ctl.todo : d.env = e /\ ReconcileRead(d, TRUE))
         /\ SF_vars(\E d \in ctl.todo : /\ d.env = e /\ d.rev \in Revisions(e)
                                       /\ Row(e, d.rev).node # None
                                       /\ ReconcileTeardown(d))
         /\ \A r \in 1..MaxRevision, s \in Service, n \in Node :
              WF_vars(/\ r \in Revisions(e) /\ Row(e, r).inst[s] = "pending"
                      /\ \E st \in Reported, port \in BOOLEAN : Report(n, e, r, s, st, port))
    /\ \A n \in Node : WF_vars(\E c \in Capacity[n] : Api(RegisterNode(n, c)))

FairSpec == RolloutSpec /\ Fairness

----------------------------------------------------------------------------
(* Properties                                                              *)

(* advance's health gate, across its separate read, verdict and write: no  *)
(* revision becomes healthy or live, and the router never sends traffic to *)
(* one, unless there was an instant at which all its instances ran.        *)
HealthGate ==
    \A e \in Env : \A r \in Revisions(e) :
        (Row(e, r).state \in {"healthy", "live", "superseded"}
           \/ (routes[e] # None /\ routes[e].rev = r))
        => Dep(e, r) \in ran

(* ReconcileOnce's ordering, "repoint external traffic first, before       *)
(* anything is torn down", with promotions from the API landing between    *)
(* any two of its steps: instance rows the router's file still points at   *)
(* are never deleted, unless with their whole environment.                 *)
RouteBeforeTeardown ==
    [][\A e \in Env : \A r \in Revisions(e) \cap DOMAIN deps'[e] :
          Row(e, r).node # None /\ deps'[e][r].node = None
             => routes[e] = None \/ routes[e].rev # r]_vars

(* PlaceDeployment's comment, "two pending rollouts cannot both see the    *)
(* same free space": whatever the scheduler scored, on whatever capacity   *)
(* the node had registered then, no placement takes a node past the        *)
(* capacity it has now.                                                    *)
NoOvercommit ==
    [][\A n \in Node, res \in Resource :
          alloc'[n][res] > alloc[n][res] => alloc'[n][res] <= cap[n][res]]_vars

(* place's comment, "falling back to another node ... would deploy over an *)
(* empty volume": with no drain, every row of an environment is on its     *)
(* home node, however stale the home and the fleet that place read.        *)
PlacedAtHome ==
    \A e \in Env : \A r \in Revisions(e) : Row(e, r).node \in {None, home[e]}

(* handleDrainNode lists what it may release, then releases it in later    *)
(* transactions.  Whatever is promoted in between, an environment whose    *)
(* live spec is pinned or mounts a volume keeps its home while it exists.  *)
DurableStays ==
    [][\A e \in Env :
          /\ envState'[e] = "present" /\ live[e] # 0 /\ home[e] # None
          /\ \E s \in DOMAIN Spec[Row(e, live[e]).version] :
                LET def == Spec[Row(e, live[e]).version][s]
                IN  ~def.swappable \/ def.volume
          => home'[e] = home[e]]_vars

(* No rollout hangs: while agents answer and nodes stay, no deployment     *)
(* remains in an active state for ever, be it failed or promoted, so the   *)
(* one-active index never blocks an environment for good.                  *)
RolloutResolves ==
    \A e \in Env, r \in 1..MaxRevision :
        []<>~(r \in Revisions(e) /\ Row(e, r).state \in Active)

(* A deployment that left the live path does not hold its instance rows    *)
(* and its reservation for ever, however many ticks of the controller are  *)
(* cut short by a failing router.                                          *)
TeardownHappens ==
    \A e \in Env, r \in 1..MaxRevision :
        []<>~(/\ r \in Revisions(e) /\ Row(e, r).state \in Terminal
              /\ Row(e, r).node # None)

(* "A router restart or a missed write reconverges": once the route an     *)
(* environment should have settles, the router's file settles on it.       *)
RouteConverges ==
    \A e \in Env, n \in Node, r \in 1..MaxRevision :
        LET target == [node |-> n, rev |-> r]
        IN  <>[](LiveRoutes[e] = target) => <>[](routes[e] = target)

(* An expired preview stops receiving traffic for good, although the       *)
(* controller may be about to write a route it read before the reaper      *)
(* deleted the environment.                                                *)
RouteWithdrawn ==
    \A e \in Preview : <>[](envState[e] = "deleted" => routes[e] = None)

(* syncRouter brings the file to where traffic belongs and keeps it there:  *)
(* to the live revision, or to none after an expiry.                        *)
RouteSettles == RouteConverges /\ RouteWithdrawn

----------------------------------------------------------------------------
(* What comments of the code say and the code does not keep                *)

(* liveRoutes' comment on joining on the environment's home instead of the *)
(* instance's node: "They name the same node once anything is placed".     *)
RouteReachesInstance ==
    \A e \in Env : \A r \in Revisions(e) :
        routes[e] # None /\ routes[e].rev = r /\ Row(e, r).node # None
            => routes[e].node = Row(e, r).node

============================================================================
