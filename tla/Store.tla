------------------------------- MODULE Store -------------------------------
(***************************************************************************)
(* The control plane's rollout tables (internal/store, over Postgres) and  *)
(* the transactions that change them.  Every store method runs in one      *)
(* transaction, so every method is one action here; the loops and the API  *)
(* handlers that call them, and the steps between two calls, are in module *)
(* Rollout.  Next lets any caller call any method at any moment: whatever  *)
(* holds of Spec holds whoever the callers are.                            *)
(***************************************************************************)
EXTENDS Integers, Sequences, FiniteSets, FiniteSetsExt

CONSTANTS
    Env,            \* environment ids; an id is never reused
    Preview,        \* the ephemeral ones among them
    Node,           \* node ids, ordered as their uuid strings are
    Version,        \* resolved specs: stack versions after the env overlay
    Service,        \* service names
    Image,          \* what two definitions of one service may differ in
    Resource,       \* memory bytes, cpu millis
    Spec,           \* Spec[v][s]: definition of service s in resolved spec v
    Capacity,       \* Capacity[n]: capacities node n may register with
    MaxRevision,    \* bound: deployments per environment
    None            \* SQL NULL

(* Every definition a service can have.  "volume" says the service mounts  *)
(* a named volume, "image" stands for all the rest of spec.Service.        *)
ServiceDef == [swappable : BOOLEAN, volume : BOOLEAN, ingress : BOOLEAN,
               image : Image, limits : [Resource -> Nat]]

PinnedServices(v) == {s \in DOMAIN Spec[v] : ~Spec[v][s].swappable}

DurableReasons(v) ==
    PinnedServices(v) \cup {s \in DOMAIN Spec[v] : Spec[v][s].volume}

(* A rollout runs pinned services once and swappable services twice.       *)
Peak(v, res) ==
    MapThenSumSet(LAMBDA s : Spec[v][s].limits[res]
                             * (IF Spec[v][s].swappable THEN 2 ELSE 1),
                  DOMAIN Spec[v])

(* rejectPinnedDrift: a pinned service of the live spec must be in the     *)
(* next one, identical.                                                    *)
PinnedKept(liveV, nextV) ==
    \A s \in PinnedServices(liveV) :
        s \in DOMAIN Spec[nextV] /\ Spec[nextV][s] = Spec[liveV][s]

ASSUME FiniteAssumption == IsFiniteSet(Env) /\ MaxRevision \in Nat
ASSUME NoneAssumption == None \notin Node
ASSUME NodeAssumption == Node \subseteq Nat
ASSUME PreviewAssumption == Preview \subseteq Env
ASSUME SpecAssumption ==
    /\ Version \subseteq DOMAIN Spec
    /\ \A v \in Version : /\ DOMAIN Spec[v] \in SUBSET Service
                          /\ DOMAIN Spec[v] # {}
                          /\ \A s \in DOMAIN Spec[v] : Spec[v][s] \in ServiceDef
ASSUME PeakAssumption == \A v \in Version, res \in Resource : Peak(v, res) \in Nat
ASSUME CapacityAssumption ==
    \A n \in Node : Capacity[n] \subseteq [Resource -> Nat]

Active   == {"pending", "scheduling", "starting", "healthy"}
Desired  == {"scheduling", "starting", "healthy", "live"}
Terminal == {"superseded", "failed"}
DeploymentState == Active \cup Terminal \cup {"live"}    \* nothing sets "stopped"
NodeState == {"absent", "ready", "draining", "unreachable"}

(* What the control plane's readers tell apart: "starting" also stands for *)
(* pulling and stopped, "failed" for unhealthy.  "absent": no row.         *)
InstanceState == {"pending", "starting", "running", "failed"}
Reported == InstanceState \ {"pending"}

(* A row of deployments together with its rows of service_instances, which *)
(* are all on one node.  "published": its ingress instance has a port.     *)
DeploymentRow ==
    [state : DeploymentState, version : Version, slot : {"blue", "green"},
     node : Node \cup {None}, inst : [Service -> InstanceState \cup {"absent"}],
     published : BOOLEAN,
     blind : BOOLEAN]       \* history: its create did not see the live revision

VARIABLES
    envState,       \* whether the environment has a row
    home,           \* environments.home_node_id
    live,           \* environments.live_deployment_id, as a revision; 0 is NULL
    deps,           \* deps[e][r]: the deployment of revision r
    nodeState,      \* nodes.state
    silence,        \* age of last_heartbeat: 0 below 30 s, 1 above, 2 stranded
    cap,            \* nodes.cpu_millis, memory_bytes
    alloc,          \* nodes.alloc_cpu_millis, alloc_memory_bytes
    tombstones      \* environment_tombstones

envVars   == <<envState, home, live, tombstones>>
nodeVars  == <<nodeState, silence, cap>>
storeVars == <<envState, home, live, deps, nodeState, silence, cap, alloc, tombstones>>

(* What the store's methods may leave in the tables; no method leaves a    *)
(* negative allocation or a state outside the ones it is written to set.   *)
TypeOK ==
    /\ envState \in [Env -> {"new", "present", "deleted"}]
    /\ home \in [Env -> Node \cup {None}]
    /\ live \in [Env -> Nat]
    /\ deps \in [Env -> Seq(DeploymentRow)]
    /\ nodeState \in [Node -> NodeState]
    /\ silence \in [Node -> 0..2]
    /\ cap \in [Node -> [Resource -> Nat]]
    /\ alloc \in [Node -> [Resource -> Nat]]
    /\ tombstones \in SUBSET Env

Init ==
    /\ envState = [e \in Env |-> IF e \in Preview THEN "new" ELSE "present"]
    /\ home = [e \in Env |-> None]
    /\ live = [e \in Env |-> 0]
    /\ deps = [e \in Env |-> << >>]
    /\ nodeState = [n \in Node |-> "absent"]
    /\ silence = [n \in Node |-> 0]
    /\ cap = [n \in Node |-> [res \in Resource |-> 0]]
    /\ alloc = [n \in Node |-> [res \in Resource |-> 0]]
    /\ tombstones = {}

Revisions(e) == DOMAIN deps[e]
Row(e, r) == deps[e][r]

(* deps with the row of (e, r) replaced.                                   *)
WithRow(e, r, row) == [deps EXCEPT ![e] = [deps[e] EXCEPT ![r] = row]]

NoInstances == [s \in Service |-> "absent"]

----------------------------------------------------------------------------
(* Nodes                                                                   *)

RegisterNode(n, c) ==
    /\ nodeState' = [nodeState EXCEPT ![n] =
                        IF nodeState[n] = "draining" THEN "draining" ELSE "ready"]
    /\ cap' = [cap EXCEPT ![n] = c]
    /\ silence' = [silence EXCEPT ![n] = 0]
    /\ UNCHANGED <<envVars, deps, alloc>>

(* A heartbeat proves liveness; it neither un-drains nor touches alloc.    *)
Heartbeat(n) ==
    /\ nodeState[n] # "absent"
    /\ nodeState' = [nodeState EXCEPT ![n] =
                        IF nodeState[n] = "draining" THEN "draining" ELSE "ready"]
    /\ silence' = [silence EXCEPT ![n] = 0]
    /\ UNCHANGED <<envVars, deps, cap, alloc>>

(* The clock: a node's last heartbeat ages past 30 s, then past the strand *)
(* window after which its routes are withdrawn.                            *)
HeartbeatAges(n) ==
    /\ nodeState[n] # "absent" /\ silence[n] < 2
    /\ silence' = [silence EXCEPT ![n] = silence[n] + 1]
    /\ UNCHANGED <<envVars, deps, nodeState, cap, alloc>>

MarkStaleNodesUnreachable ==
    /\ nodeState' = [n \in Node |-> IF nodeState[n] = "ready" /\ silence[n] > 0
                                    THEN "unreachable" ELSE nodeState[n]]
    /\ UNCHANGED <<envVars, deps, silence, cap, alloc>>

DrainNode(n) ==
    /\ nodeState[n] \in {"ready", "unreachable"}
    /\ nodeState' = [nodeState EXCEPT ![n] = "draining"]
    /\ UNCHANGED <<envVars, deps, silence, cap, alloc>>

UncordonNode(n) ==
    /\ nodeState[n] = "draining"
    /\ nodeState' = [nodeState EXCEPT ![n] =
                        IF silence[n] = 0 THEN "ready" ELSE "unreachable"]
    /\ UNCHANGED <<envVars, deps, silence, cap, alloc>>

ListReadyNodes == {n \in Node : nodeState[n] = "ready" /\ silence[n] = 0}

Fits(n, v) == \A res \in Resource : cap[n][res] - alloc[n][res] >= Peak(v, res)

----------------------------------------------------------------------------
(* Deployments                                                             *)

HasActive(e) == \E r \in Revisions(e) : Row(e, r).state \in Active

(* What createDeploymentTx's first statement joins as the live deployment, *)
(* 0 for NULL.  The statement reads both tables in a snapshot, then waits  *)
(* for the environment's row (FOR UPDATE OF e).  When a promotion commits  *)
(* between the two, READ COMMITTED looks at the environment's row again    *)
(* but not at the deployments: the old live row no longer matches the      *)
(* pointer, the new one is not in the snapshot, and the LEFT JOIN gives    *)
(* NULL.  A create may have begun before the last promotion however long   *)
(* ago that was, so once a revision is live either can be what it sees.    *)
JoinedLive(e) == {live[e], 0}

(* A slip: every revision takes the blue slot.                             *)
NewRowBlue(e, v, joined) ==
    [state |-> "pending", version |-> v, slot |-> "blue",
     node |-> None, inst |-> NoInstances, published |-> FALSE,
     blind |-> joined # live[e]]

NewRow(e, v, joined) ==
    [state |-> "pending", version |-> v,
     slot |-> IF joined # 0 /\ deps[e][joined].slot = "blue" THEN "green" ELSE "blue",
     node |-> None, inst |-> NoInstances, published |-> FALSE,
     blind |-> joined # live[e]]

(* Slips: no unique index on active deployments; no drift check.           *)
CreateBesideActive(e, v) ==
    /\ envState[e] = "present"
    /\ Len(deps[e]) < MaxRevision
    /\ \E joined \in JoinedLive(e) :
          /\ joined # 0 => PinnedKept(deps[e][joined].version, v)
          /\ deps' = [deps EXCEPT ![e] = Append(deps[e], NewRow(e, v, joined))]
    /\ UNCHANGED <<envVars, nodeVars, alloc>>

CreateDrifting(e, v) ==
    /\ envState[e] = "present"
    /\ ~HasActive(e)
    /\ Len(deps[e]) < MaxRevision
    /\ \E joined \in JoinedLive(e) :
          deps' = [deps EXCEPT ![e] = Append(deps[e], NewRow(e, v, joined))]
    /\ UNCHANGED <<envVars, nodeVars, alloc>>

(* createDeploymentTx: the environment row is locked, drift against the    *)
(* live spec it joined is refused, the slot is the opposite of the live    *)
(* one it joined, the revision is the highest plus one, read in a later    *)
(* statement.  deployments_one_active_idx refuses a second active          *)
(* deployment.                                                             *)
CreateDeployment(e, v) ==
    /\ envState[e] = "present"
    /\ ~HasActive(e)
    /\ Len(deps[e]) < MaxRevision
    /\ \E joined \in JoinedLive(e) :
          /\ joined # 0 => PinnedKept(deps[e][joined].version, v)
          /\ deps' = [deps EXCEPT ![e] = Append(deps[e], NewRow(e, v, joined))]
    /\ UNCHANGED <<envVars, nodeVars, alloc>>

(* validTransitions: the states a target state may be entered from.        *)
ValidTransitions ==
    [scheduling |-> {"pending"}, starting |-> {"scheduling"},
     healthy |-> {"starting"}, live |-> {"healthy"}, superseded |-> {"live"},
     failed |-> Active, stopped |-> {"superseded", "failed", "live"}]

(* The lookup: a state that is no key of the map is never entered.         *)
ValidMove(from, to) == to \in DOMAIN ValidTransitions /\ from \in ValidTransitions[to]

(* A slip: the transition is not looked up.                                *)
UpdateFromAnyState(e, r, to) ==
    /\ r \in Revisions(e)
    /\ deps' = WithRow(e, r, [Row(e, r) EXCEPT !.state = to])
    /\ UNCHANGED <<envVars, nodeVars, alloc>>

UpdateDeploymentState(e, r, to) ==
    /\ r \in Revisions(e)
    /\ ValidMove(Row(e, r).state, to)
    /\ deps' = WithRow(e, r, [Row(e, r) EXCEPT !.state = to])
    /\ UNCHANGED <<envVars, nodeVars, alloc>>

(* A slip: the previous live revision is left live.                        *)
PromoteBeside(e, r) ==
    /\ r \in Revisions(e)
    /\ Row(e, r).state = "healthy"
    /\ deps' = WithRow(e, r, [Row(e, r) EXCEPT !.state = "live"])
    /\ live' = [live EXCEPT ![e] = r]
    /\ UNCHANGED <<envState, home, tombstones, nodeVars, alloc>>

(* PromoteDeployment: supersede the previous live revision, mark this one  *)
(* live and repoint the environment, in one transaction.                   *)
PromoteDeployment(e, r) ==
    /\ r \in Revisions(e)
    /\ Row(e, r).state = "healthy"
    /\ deps' = [deps EXCEPT ![e] =
                 [q \in DOMAIN deps[e] |->
                    IF q = r THEN [deps[e][q] EXCEPT !.state = "live"]
                    ELSE IF q = live[e] /\ deps[e][q].state = "live"
                         THEN [deps[e][q] EXCEPT !.state = "superseded"]
                         ELSE deps[e][q]]]
    /\ live' = [live EXCEPT ![e] = r]
    /\ UNCHANGED <<envState, home, tombstones, nodeVars, alloc>>

Pending(e, r) == r \in Revisions(e) /\ Row(e, r).state = "pending"

(* A slip: the fit is not looked at again under the node's lock.           *)
ConflictsAtHomeOnly(e, r, n) == Pending(e, r) /\ home[e] \notin {None, n}

(* PlaceDeployment's ErrConflict: homed elsewhere, or the node is full.    *)
PlaceConflicts(e, r, n) ==
    Pending(e, r) /\ (home[e] \notin {None, n} \/ ~Fits(n, Row(e, r).version))

(* A slip: the first placement does not bind the environment.              *)
PlaceUnbound(e, r, n) ==
    /\ Pending(e, r)
    /\ ~PlaceConflicts(e, r, n)
    /\ deps' = WithRow(e, r, [Row(e, r) EXCEPT !.state = "scheduling", !.node = n,
                 !.inst = [s \in Service |-> IF s \in DOMAIN Spec[Row(e, r).version]
                                             THEN "pending" ELSE "absent"]])
    /\ alloc' = [alloc EXCEPT ![n] =
                   [res \in Resource |-> alloc[n][res] + Peak(Row(e, r).version, res)]]
    /\ UNCHANGED <<envVars, nodeVars>>

(* PlaceDeployment: insert the instance rows, bind the environment to the  *)
(* node on its first placement, reserve the peak, enter scheduling.        *)
PlaceDeployment(e, r, n) ==
    /\ Pending(e, r)
    /\ ~PlaceConflicts(e, r, n)
    /\ deps' = WithRow(e, r, [Row(e, r) EXCEPT !.state = "scheduling", !.node = n,
                 !.inst = [s \in Service |-> IF s \in DOMAIN Spec[Row(e, r).version]
                                             THEN "pending" ELSE "absent"]])
    /\ home' = [home EXCEPT ![e] = n]
    /\ alloc' = [alloc EXCEPT ![n] =
                   [res \in Resource |-> alloc[n][res] + Peak(Row(e, r).version, res)]]
    /\ UNCHANGED <<envState, live, tombstones, nodeVars>>

(* ReportInstance: the row must still exist and belong to the node.  Only  *)
(* the ingress instance ever carries a port.                               *)
ReportInstance(n, e, r, s, st, port) ==
    /\ r \in Revisions(e)
    /\ Row(e, r).node = n /\ Row(e, r).inst[s] # "absent"
    /\ deps' = WithRow(e, r, [Row(e, r) EXCEPT !.inst[s] = st,
                 !.published = IF Spec[Row(e, r).version][s].ingress THEN port ELSE @])
    /\ UNCHANGED <<envVars, nodeVars, alloc>>

(* A slip: the peak is not given back.                                     *)
DeleteKeepingAlloc(e, r) ==
    /\ r \in Revisions(e)
    /\ Row(e, r).node # None
    /\ deps' = WithRow(e, r, [Row(e, r) EXCEPT !.node = None, !.inst = NoInstances,
                                               !.published = FALSE])
    /\ UNCHANGED <<envVars, nodeVars, alloc>>

(* DeleteInstances: drop a deployment's instance rows and give back the    *)
(* peak it reserved.                                                       *)
DeleteInstances(e, r) ==
    /\ r \in Revisions(e)
    /\ Row(e, r).node # None
    /\ deps' = WithRow(e, r, [Row(e, r) EXCEPT !.node = None, !.inst = NoInstances,
                                               !.published = FALSE])
    /\ alloc' = [alloc EXCEPT ![Row(e, r).node] =
                   [res \in Resource |->
                      IF alloc[Row(e, r).node][res] >= Peak(Row(e, r).version, res)
                      THEN alloc[Row(e, r).node][res] - Peak(Row(e, r).version, res)
                      ELSE 0]]
    /\ UNCHANGED <<envVars, nodeVars>>

(* A slip: deployments are torn down in any state.                         *)
DeleteAny(e, r) == DeleteInstances(e, r)

(* Its only caller, the controller, only passes terminal deployments.      *)
DeleteTerminal(e, r) ==
    r \in Revisions(e) /\ Row(e, r).state \in Terminal /\ DeleteInstances(e, r)

----------------------------------------------------------------------------
(* Environments                                                            *)

(* What ReleaseEnvironmentHome and EnvironmentsHomedOnNode ask: the live   *)
(* spec holds nothing durable.  No live deployment counts as nothing.      *)
Releasable(e) == live[e] # 0 => DurableReasons(deps[e][live[e]].version) = {}

ReleaseEnvironmentHome(e) ==
    /\ envState[e] = "present"
    /\ home[e] # None
    /\ Releasable(e)
    /\ home' = [home EXCEPT ![e] = None]
    /\ UNCHANGED <<envState, live, deps, tombstones, nodeVars, alloc>>

(* CreatePreview: the environment and its first deployment, atomically.    *)
CreatePreview(e, v) ==
    /\ e \in Preview /\ envState[e] = "new"
    /\ envState' = [envState EXCEPT ![e] = "present"]
    /\ deps' = [deps EXCEPT ![e] = << NewRow(e, v, 0) >>]
    /\ UNCHANGED <<home, live, tombstones, nodeVars, alloc>>

(* ExpireEnvironments: tombstone and delete every preview past its TTL in  *)
(* one transaction; the delete cascades to deployments and instances.      *)
ExpireEnvironments(expired) ==
    /\ \A e \in expired : e \in Preview /\ envState[e] = "present"
    /\ tombstones' = tombstones \cup expired
    /\ envState' = [e \in Env |-> IF e \in expired THEN "deleted" ELSE envState[e]]
    /\ live' = [e \in Env |-> IF e \in expired THEN 0 ELSE live[e]]
    /\ home' = [e \in Env |-> IF e \in expired THEN None ELSE home[e]]
    /\ deps' = [e \in Env |-> IF e \in expired THEN << >> ELSE deps[e]]
    /\ UNCHANGED <<nodeVars, alloc>>

(* SweepTombstones: forget instructions past the retention window.         *)
SweepTombstones(old) ==
    /\ old \subseteq tombstones
    /\ tombstones' = tombstones \ old
    /\ UNCHANGED <<envState, home, live, deps, nodeVars, alloc>>

----------------------------------------------------------------------------
NodeStep ==
    \/ MarkStaleNodesUnreachable
    \/ \E n \in Node :
          \/ \E c \in Capacity[n] : RegisterNode(n, c)
          \/ Heartbeat(n)
          \/ HeartbeatAges(n)
          \/ DrainNode(n)
          \/ UncordonNode(n)

(* The callers of UpdateDeploymentState only ever ask for these targets.   *)
DeploymentStep(e) ==
    \/ \E v \in Version : CreateDeployment(e, v)
    \/ \E r \in 1..MaxRevision :
          \/ \E to \in {"starting", "healthy", "failed"} : UpdateDeploymentState(e, r, to)
          \/ PromoteDeployment(e, r)
          \/ DeleteTerminal(e, r)
          \/ \E n \in Node : \/ PlaceDeployment(e, r, n)
                             \/ \E s \in Service, st \in Reported, port \in BOOLEAN :
                                   ReportInstance(n, e, r, s, st, port)

EnvironmentStep ==
    \/ \E e \in Env : ReleaseEnvironmentHome(e)
    \/ \E e \in Env, v \in Version : CreatePreview(e, v)
    \/ \E expired \in SUBSET Preview : expired # {} /\ ExpireEnvironments(expired)
    \/ \E old \in SUBSET tombstones : old # {} /\ SweepTombstones(old)

Next == NodeStep \/ EnvironmentStep \/ \E e \in Env : DeploymentStep(e)

StoreSpec == Init /\ [][Next]_storeVars

----------------------------------------------------------------------------
(* Properties                                                              *)

(* PromoteDeployment keeps three columns in step: the environment's live   *)
(* pointer names a deployment exactly when that deployment is live, so an  *)
(* environment never has two live revisions and the router never follows a *)
(* pointer to a revision the deployments table calls something else.       *)
LivePointer ==
    \A e \in Env : /\ live[e] \in Revisions(e) \cup {0}
                   /\ \A r \in Revisions(e) : Row(e, r).state = "live" <=> r = live[e]

(* Revision allocation in createDeploymentTx and the one-active index      *)
(* together: a rollout in progress is always the newest revision of its    *)
(* environment, so nothing older can still be promoted over it.            *)
ActiveIsNewest ==
    \A e \in Env : \A r \in Revisions(e) : Row(e, r).state \in Active => r = Len(deps[e])

(* createDeploymentTx compares with the revision it saw live when the      *)
(* deployment was created.  Unless a promotion overtook that look, it is   *)
(* still the revision the deployment replaces whenever it is promoted: its *)
(* slot is the other colour, and every pinned service of the live spec is  *)
(* in its spec unchanged.                                                  *)
RolloutFitsLive ==
    \A e \in Env : \A r \in Revisions(e) :
        Row(e, r).state \in Active /\ ~Row(e, r).blind /\ live[e] # 0
            => /\ Row(e, r).slot # Row(e, live[e]).slot
               /\ PinnedKept(Row(e, live[e]).version, Row(e, r).version)

(* PlaceDeployment and DeleteInstances keep the instance rows in step with *)
(* the deployment's state: what an agent may be asked to run has a row per *)
(* service on one node, and what was never placed holds none.              *)
RowsMatchState ==
    \A e \in Env : \A r \in Revisions(e) :
        /\ Row(e, r).state \in Desired => Row(e, r).node # None
        /\ Row(e, r).state = "pending" => Row(e, r).node = None
        /\ \A s \in Service : Row(e, r).inst[s] # "absent"
                 <=> Row(e, r).node # None /\ s \in DOMAIN Spec[Row(e, r).version]

(* PlaceDeployment reserves and DeleteInstances gives back the same peak:  *)
(* however often the controller retries a teardown, a node's alloc is the  *)
(* sum of the peaks of the deployments with rows on it.                    *)
Reservation(n, res) ==
    [d \in Env \X (1..MaxRevision) |->
       IF d[2] \in Revisions(d[1]) /\ Row(d[1], d[2]).node = n
       THEN Peak(Row(d[1], d[2]).version, res) ELSE 0]

AllocIsReserved ==
    \A n \in Node, res \in Resource : alloc[n][res] = SumFunction(Reservation(n, res))

(* What a promotion may do to an environment: traffic only ever moves to a *)
(* newer revision, and never to one that drops or redefines a pinned       *)
(* service the replaced revision ran, unless a promotion overtook its      *)
(* create's look at what is live.                                          *)
LiveAdvances ==
    [][\A e \in Env : live'[e] \notin {live[e], 0}
          => /\ live'[e] > live[e]
             /\ live[e] # 0 /\ ~deps'[e][live'[e]].blind
                  => PinnedKept(deps[e][live[e]].version,
                                deps'[e][live'[e]].version)]_storeVars

(* The deployments table is append-only (README): rows of an               *)
(* environment that stays are never dropped or renumbered, their version   *)
(* and slot never change, and their state only moves along                 *)
(* validTransitions, so a terminal deployment is never revived.            *)
AppendOnly ==
    [][\A e \in Env : envState'[e] = "present" =>
          \A r \in Revisions(e) :
             /\ r \in DOMAIN deps'[e]
             /\ deps'[e][r].version = Row(e, r).version
             /\ deps'[e][r].slot = Row(e, r).slot
             /\ \/ deps'[e][r].state = Row(e, r).state
                \/ ValidMove(Row(e, r).state, deps'[e][r].state)]_storeVars

----------------------------------------------------------------------------
(* What a comment of the code says and the code does not keep              *)

(* rejectPinnedDrift's comment, "prevents a rollout from pretending it     *)
(* changed a stateful container": no rollout in progress drops or          *)
(* redefines a pinned service of the live revision.                        *)
DriftRejected ==
    \A e \in Env : \A r \in Revisions(e) :
        Row(e, r).state \in Active /\ live[e] # 0
            => PinnedKept(Row(e, live[e]).version, Row(e, r).version)

============================================================================
