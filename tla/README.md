# A TLA+ model of Navarch's control plane and agent

Navarch deploys Compose stacks onto a fleet of Docker hosts. This directory
models the part of it that decides what runs where and which revision gets the
traffic, the agent that makes a host run it, and the parts around them: manifests
and versions, secrets, enrolment, people, logs and the dashboard. TLC checks the
model on small instances. TLAPS proves every safety property and every refinement
for fleets, specs, histories and numbers of callers of any size.

## The system

| Part | Source | Role |
|---|---|---|
| Store | `internal/store`, `migrations` | Postgres tables; every change is a transaction |
| Scheduler | `internal/rollout/scheduler.go` | one-second loop: places pending deployments |
| Controller | `internal/rollout/controller.go` | one-second loop: health gate, promotion, routes, teardown |
| Reaper | `internal/rollout/reaper.go` | one-second loop: expired previews, tombstones, logs, old secrets |
| API | `internal/api` | operators deploy, promote, roll back, drain; agents poll and report |
| Agent | `internal/agent`, `internal/agent/dockerd` | polls desired state, drives Docker, reports |
| Router | `internal/router` | renders the live routes into Traefik's file |
| Logs | `store/logs.go`, `api/logs.go`, `internal/logbuf`, `agent/logs.go` | on-demand tails, buffered in memory |
| Secrets | `store/secrets.go`, `api/secrets.go`, `internal/secrets` | values sealed to the nodes that may open them |
| Access | `store/{operators,invites,access_requests,join_tokens}.go` and their handlers | who may act |
| Parser, overlay | `internal/parser`, `internal/api/overlay.go` | Compose to `DeploymentSpec` |
| Front ends | `internal/{cli,client,tui,web}`, `cmd` | presentation |

The loops, the handlers and the agents share nothing but the tables, the
router's file and a few maps in memory. Each reads in one query, decides, and
writes in a later transaction. That is where the hazards are, and where the
model puts its steps. `PROJECT.json` lists every part and every hazard.

## Modules

| Module | Models | Checked by |
|---|---|---|
| `Store` | environments, deployments, instances, nodes, tombstones; one action per store method | runs `store`, `drift`, `StoreProofs`, `ReservationProofs` |
| `Catalog` | stack versions, environments, secrets' keys, the calls that deploy, in steps | run `placement`, `HandlerProofs` |
| `Placement` | `bestNode`'s ranking as an order on nodes | through the next two |
| `BestNode` | `bestNode`'s loop, one iteration per step | run `node`, `PartsProofs` |
| `Rollout` | scheduler, controller, drain handler, API, agents, reaper over the tables of `Store` | runs `store`, `placement`, `progress`, `misrouted`, `leak`, `RolloutProofs` |
| `Agent` | one node's agent and its Docker daemon, against a sketch of the control plane | runs `node`, `parts`, `wedged`, `AgentProofs` |
| `Logs` | one log request: row, buffer, agent's delivery, handlers, session, reaper | runs `views`, `cut`, `LogsProofs` |
| `Tui` | the dashboard's model, messages and requests | runs `views`, `frozen`, `HandlerProofs` |
| `Ticket` | what an invitation and a join token both promise (abstract) | implemented by the next two |
| `Access` | operators, tokens, members, invites, access requests | run `parts`, `HandlerProofs` |
| `Enrol` | join tokens, registration, the agent's key and token files | run `node`, `EnrolProofs` |
| `Secrets` | a secret's versions, who they are sealed to, who opens them; extends `Enrol` | run `node`, `EnrolProofs` |
| `Compose` | the parser and the environment overlay | run `parts`, `PartsProofs` |
| `*Proofs` | proofs | TLAPS |
| `MC*` | values for the constants; `MCPlacement`, `MCNode`, `MCParts`, `MCViews` put parts that share no state side by side, one per behaviour; `MCStore` any caller of the methods beside the loops | |

### Store

`envState`, `home`, `live` are columns of `environments`; `deps[e]` is the
sequence of the environment's deployment rows, revision r at index r, each with
its version, slot, state, the node its instance rows are on and their states;
`nodeState`, `silence`, `cap`, `alloc` are columns of `nodes`. `silence` counts
how many of the two heartbeat windows (unreachable, stranded) have passed. A row
refers to a stack version; `Spec` gives each version its services: swappable or
pinned, with or without a volume, an image, limits. Definitions differ when any
field does, which is all `rejectPinnedDrift` looks at.

Each method is one action, because each runs in one transaction and takes its
row locks before it decides. The exception is what `createDeploymentTx` knows of
the live revision. It takes the lock and joins the live deployment in one
statement, at READ COMMITTED: the statement's snapshot is taken, it waits for the
environment's row, and if a promotion committed in between, Postgres looks at
that row again and at the deployments not. The old live row does not match the
new pointer, the new one is not in the snapshot, and the join is NULL. So
`JoinedLive` is the live revision or none; with none the drift check is skipped
and the slot is blue. The revision number is read in a later statement, under the
lock. `blind`, a history field of a row, marks the deployments made so. No other
statement of the store joins a second table while it locks.

Callers are not modelled here: any method may be called at any time. What holds
of `Store` therefore holds whatever the loops do. `DeleteInstances` checks no
state itself; `Store` takes the guard from its only caller, the controller's list
of terminal deployments, and `Rollout` is checked to refine `Store`.

### Rollout

A loop is a program counter and what it remembers. `sched` goes list, place,
score, commit or fail; `ctl` goes advance, apply, sync, terminal, teardown, and
keeps `firstTerminal`; `drain` goes list, release. Between any two steps
anything else may happen. `routes` is the router's file, `ran` a history
variable: the deployments all of whose instances were running at one instant.

Abstractions:

- The loops list rows oldest first; the model takes them in any order.
- The start timeout and the teardown grace are a choice, not a clock. A rollout
  may be found late at any read. A deployment may be torn down only on a tick
  after the one that first saw it terminal, and may be held longer.
- An agent may report any state of any instance row on its node at any time.
- A host port is named by the revision whose container has it.
- `Restart` forgets `sched`, `ctl` and `drain`; tables and the file survive.
- `Faults` selects which mishaps a run includes: `silence` (a node stops
  sending heartbeats), `drain`, `restart`, `sync` (a router write fails).

`RolloutSpec` implements `StoreSpec` under the identity mapping; run `progress`
checks this as a property and `RolloutProofs` proves it.

### Placement and BestNode

`bestNode` prefers fewer homed environments, then the larger free ratio, then
the smaller id. Ratios are compared by cross-multiplication, exactly; the code
divides floats, so two ratios closer than a rounding error are outside the
model. `BestNode` runs the loop on every listing of up to `MaxNodes` rows.

### Agent

`ag` is the tick in progress: its program counter, the rows, secrets and
tombstones it was sent, what is left to do and what it saw running. It goes
secrets, tombstones, ensure, cleanup, teardown, report, and the control plane,
the containers and a restart may act between any two steps. `known`, `tornDown`
and `firstRunning` are the reconciler's maps; `ctr`, `nets`, `vols` are Docker's.
`destroyed` and `streak` are history variables.

- The control plane is reduced to revisions that are rolled out, live or gone,
  a secret's version and an environment's tombstone. It promotes a revision
  whose instances are all reported running and fails one at will.
- `Failing` lets every call fail, on its own, at every place the code tests for
  an error. A call that fails leaves what the calls before it did.
- A report is running or not: the controller's other distinctions are left to
  its free choice to fail a rollout. The debounce is a choice, except that the
  tick that first sees a container up cannot report it running.
- A new revision may have any configuration, since the check for pinned drift may
  be skipped (`Store`); a container of another configuration is not adopted.
- A fingerprint is the configuration and the secret's version. A failed
  decryption is one of the ways to fail before the container is made.
- The sweep of a tombstone waits for its environment to be destroyed: the node
  is not away for the whole retention of a day.
- Replacing a container with a wrong published port is left out, because only
  agents older than this one made such containers; so are network attachments.

### Catalog

`versions` is `stack_versions`; `env`, `set` and `dep` are the environments, the
keys they have a secret for and the manifests deployed to them; `call` is what
each handler in progress holds. A push looks at the newest version, then takes
its number from its own snapshot, then inserts and may meet the unique index. A
deploy, a rollback and a preview each read, check the required secrets, and
commit in a last transaction, with secrets deleted and environments expired in
between. `lost`, a history field, is what went after the check.

A manifest is its digest and the secrets it requires. Slugs and hostnames that
are taken are a refusal; whatever else refuses a deployment is `Store`'s.

### Access, Enrol and Ticket

`Ticket` says what both kinds of credential promise: issued once, spent at most
`Uses` times, never after it is closed, and admitting no more than it was spent.
`Access` maps an invitation to it (`InviteLife`, `InvitesAreTickets`), `Enrol` a
join token (`JoinLife`, `JoinTokensAreTickets`). An invite is spent and its
operator made in one transaction. A join token is spent by the authentication
middleware before the handler runs, so what it admits comes later or never;
that is why `Ticket` separates the two.

In `Access` a handler's statements are steps: lookups, inserts of operator,
token and membership, counts before removals. `Abort` ends a call between any
two. One organization is modelled. In `Enrol` an agent has two files, its key
and its node token, and may stop at any point, lose either file, and start
again. Agents older than the key advertisement, which register without a
recipient, are left out.

### Secrets

`sec` is the versions of one secret, each the set of keys that open it; `w` is a
`handleSetSecret` in progress, which asks in turn for the home's recipient, the
recipients of nodes running the environment, those of ready nodes. Placement,
drain, registration, rotation and pruning happen between any two. `approved` and
`settled` are history variables: the keys an operator let in, and whether the
home and its key are what they were when the recipients were read.

### Compose

`Parse` maps a document to a spec or to the errors found, `applyEnvConfig` lays
an environment's config under it. A service is described by the kinds of field
the rules look at: mounts with volume and read-only flag, variables that are
plain, secret or unset, the rollout and ingress declarations, well-formed or not,
flaws that are rejected.

`findCycle` runs between the conversion and the answer, one step at a time:
`search` holds its `color`, `path` and `out`, and, for the two loops it is inside,
the dependencies each call has `left` to look at and the `names` left to try. A
step is one turn of a loop or the return of a call. The code sorts names and
dependencies; services are numbered, and a step takes the least. `FindsDeadlock`
compares what the search finds with what it is for: services that wait for one
another would never start.

### Logs

The module follows one request. `req` is its row, `buf` its buffer, `others` how
many buffers other requests hold, `cli` the operator's session, `ag` the agent's
delivery and the handler it waits for. A line is its position, and the clock of
`since_at` the number of lines written. Underneath, two revisions are placed,
promoted, removed and deleted, which takes the row by cascade.

### Tui

`m` is the code's `Model`, `net` how many requests of each kind are out. Every
message is one step: the model takes it, then asks for what is due. Time is
counted in refresh intervals. A cursor of another pane selects nothing that is
modelled.

## Runs

| Run | Properties | Bounds |
|---|---|---|
| `store` | `LivePointer`, `ActiveIsNewest`, `RolloutFitsLive`, `RowsMatchState`, `LiveAdvances`, `AppendOnly` | one preview environment, one node, three versions (pinned service kept, changed, dropped), two revisions |
| | `HealthGate`, `DurableStays` | two services, one with a volume; one revision; drain, silence up to unreachable, a node that comes back too small, restarts |
| `placement` | `PlacedAtHome`, `AllocIsReserved`, `NoOvercommit`, `RouteBeforeTeardown` | two nodes, one of which may shrink; two revisions; restarts and failed writes |
| | `PushesAppend`, `DeploysWithSecrets` | one stack, two versions, two environments, one secret, two calls in progress |
| `progress` | `RolloutResolves`, `TeardownHappens`, `RouteSettles`, `StoreSpec` | one preview, two revisions; failed writes |
| `node` | `DurableNeedsTombstone`, `WantedIsKept` | a pinned service with a volume and a secret, a swappable one; two revisions, two secret versions; every call may fail |
| | `NeverUnapproved`, `OpenableAtHome`, `HeardUnlessLost`, `JoinTokensAreTickets` | two nodes, one of which stops and loses files; one join token of one use; two keys each; two secret versions |
| | `OrderIndependent` | three nodes, five rows, two peaks |
| `parts` | `NothingAfterTeardown`, `DebouncedReport`, `OrphansCollected`, `TombstoneHonoured` | one swappable service with a volume, two revisions, one agent restart; every call may fail |
| | `InviteLedger`, `KeepsMember`, `InvitesAreTickets` | a founder and a guest, two invites, two requests, two tokens each |
| | `FindsDeadlock`, `Deployable` | every dependency graph of three services with one unknown name; pairs of services over six mounts, three declarations, four volume sections |
| `views` | `SessionSeesAll`, `BufferBounded`, `Released` | two revisions, two lines, a buffer of one line, one buffer, one fault |
| | `OwnRevisions`, `OneOutstanding`, `Polled` | two environments, a catalog that loses one, one fast section, one failed request |
| `misrouted`, `leak`, `wedged`, `frozen`, `drift`, `cut` | one each, violated | the smallest instance that shows it, or that of the passing run |

Each line is a part of its run: a behaviour takes the steps of one part. In the
first part of `store` every revision counts as having run, so that `HealthGate`
speaks of the loops alone; which part a behaviour is of can be read off `ran`,
and the constraints `Bounds` and `LoopsStandStill` of `MCStore` keep each within
its bounds. Silence stops there at the age that makes a node unreachable: no
method of the store tells a longer one apart.

Two revisions are the least at which one supersedes another; by
`ActiveIsNewest` no more than two ever matter to one another. One environment is
enough for what an environment promises, since environments meet only at a
node's capacity, and two revisions of one environment meet there as well. Two
services are the least at which one can be running while the other is not. Two
calls in progress are the least that overlap. Every safety property is also
proved without these bounds, so they limit the liveness properties alone. A buffer of one line makes every
second line drop one; one buffer makes every other request a refusal. In `node`
one host starts; that overlapping registrations stay within
`max_uses` is proved.

Some properties are conjunctions of facts about one mechanism: `PushesAppend` of
`VersionsAppend` and `NoChurn`, `RouteSettles` of `RouteConverges` and
`RouteWithdrawn`, `InviteLedger` of `OneLiveInvite` and `RequestLedger`,
`SessionSeesAll` of `PageIsNews` and `OneShotComplete`, and `Deployable` of
`OneWriter`, `VolumesOwned`, `IngressSwaps` and `OverlayKeeps`. `TypeOK`,
`LoopInvariant`, `DecisionIsFinal`, `CursorInList` and `SearchAdvances` are
proved only.

### What the violations show

- `misrouted`: `liveRoutes` takes the address from the environment's home and
  the port from the live revision's instance, which its comment says name the
  same node. After a drain released a stateless environment and the next
  revision was placed elsewhere, they do not, until that revision is promoted.
- `leak`: an expired preview's rows go by cascade, and its reservation stays on
  the node. `AllocIsReserved` holds in `placement`, which has no previews.
- `wedged`: `EnsureContainer` "creates and starts the container if absent, or
  adopts the existing one". When create succeeds and start fails, the next tick
  adopts a container that was never started, and nothing starts it. A swappable
  container is replaced by the next revision; a pinned one keeps its name.
- `frozen`: "Deployments follow the cursor". Move to another environment and
  back before its answer comes: the answer is dropped and the section stays
  marked as loading, so what is under the cursor is never refreshed again.
- `drift`: `rejectPinnedDrift` "prevents a rollout from pretending it changed a
  stateful container". A create that waited for a promotion's lock sees no live
  revision: it drops the pinned service that just went live, unrefused, and takes
  the colour of the live slot. Reading the live row in a statement after the lock
  would see it.
- `cut`: the TTL of a log request "is the window a tail may be idle in, not the
  length of a session". `expires_at` is written once and nothing moves it, so a
  tail is swept from under a session that is reading it.

### What the exceptions in the properties mean

Some properties except a case on purpose, because the code has it:

- `RolloutFitsLive` and the second half of `LiveAdvances` speak of deployments
  whose create saw the live revision; run `drift` is about the others. That the
  live pointer only moves to newer revisions holds of all.
- `Released` speaks of requests that are read no more from some time on, which is
  what the TTL is for; run `cut` is about the others.
- `OneOutstanding` leaves out two sections whose requests do stack: the first
  health request is not marked, and deployments are asked for at every message
  until those of the selected environment are there.
- `OrphansCollected`: `knownEnvs` is in memory, so an agent that restarts after
  a failed first rollout does not know the environment, and its containers stay
  until the next deployment or the tombstone.
- `DurableStays` speaks of a durable live spec. `ReleaseEnvironmentHome` judges
  by the live spec only, so a drain during the first rollout of a durable spec
  releases the home.
- `KeepsMember`: two removals that overlap, each after the other's count, may
  remove the last two members.
- `NoChurn`: two overlapping pushes of one manifest may become two versions.
- `DeploysWithSecrets`: a secret deleted between the check and the commit is
  missing from the deployment.
- `PageIsNews`: a session that did not poll for the buffer's idle time keeps its
  cursor while the buffer starts again from zero. Lines written between a
  follow's read and the moment its delivery is recorded are read by nobody,
  since `since_at` is that moment.
- `HeardUnlessLost`: the node token is handed out once; an answer that never
  arrives leaves a row with a hash nobody holds.

### Fairness

`parts` assumes (`AgentFairness` in `Agent`) weak fairness of the tick, whose
ticker never stops, and strong fairness of a desired-state request, a cleanup
and a teardown that succeed: each is tried again on every tick, and neither the
API nor the daemon fails for ever. The agent restarts at most once.

`progress` assumes (`Fairness` in `Rollout`):

- weak fairness of the scheduler and the controller: `runLoop` ticks for ever;
- strong fairness of a successful `Sync`: failing writes are transient;
- strong fairness of reading a rollout after its timeout, and of tearing down a
  deployment that holds rows after its grace: the clock passes both, and the
  loop comes back every second;
- weak fairness of registration and of a first report on every pending
  instance: an agent polls, and reports something, possibly a failure.

`views` assumes (`LogsFairness`) that the agent and the reaper tick, that a
handler that started ends and that time passes, of the session and the
containers nothing; and (`TuiFairness`) that the ticker ticks and every request
is answered, if only with an error, since each has a timeout. `frozen` assumes
the latter, `cut` both.

In `progress` nothing is assumed of operators. Nodes do not fall silent and the control plane
does not restart in this run: a node that is gone leaves its rollout in
`scheduling`, which has no timeout, and that is how the code is meant to behave.

## Proofs

`StoreProofs` proves, for all values of the constants that satisfy the named
assumptions of `Store`, that every behaviour of `StoreSpec` satisfies the type
invariant and the properties in the first line of run `store`. `RolloutFitsLive`, and
`LiveAdvances` as far as pinned services go, are about deployments whose create
saw the live revision, and false of the others.

The inductive invariant `IInv` is the conjunction of `TypeOK`, `LivePointer`,
`ActiveIsNewest`, `RolloutFitsLive`, `RowsMatchState` and `RowsOnlyPresent` (an
environment that is not there has no deployment rows). They need one another:

- a promotion preserves `LivePointer` only if the pointer named the one live
  row before;
- `RolloutFitsLive` survives a promotion only because the promoted row was the
  only active one, which is `ActiveIsNewest`;
- `RowsMatchState` survives a teardown only because a terminal row never
  becomes desired again.

`Invariance` shows that each action preserves `IInv`, one lemma per action. The
two action properties follow from `IInv` and the same case split.

`ReservationProofs` proves `AllocIsReserved` of `Store`: `alloc` is the sum of the
peaks of the deployments on the node, when there is no preview to expire (with
one it is not so, as run `leak` shows). The sum is a fold over a finite set.
Lemmas show, by induction on the size of the set, that the fold exists, that any
element may be taken first, and hence what one row more or less does to it. The
induction is stated as a fact about a set of numbers (`AllNumbers`), from the
library's theorem that `<` on the naturals is well-founded.

`RolloutProofs` proves that `RolloutSpec` implements `StoreSpec`, so that every
theorem about the store holds of the whole control plane, and five safety
properties of the loops: `HealthGate`, `DurableStays`, `PlacedAtHome`,
`NoOvercommit` and `RouteBeforeTeardown`.

- `RInv` is `IInv`, the types of what the loops remember, and `TornDown`: what
  the controller remembers as terminal is terminal for good, or gone with its
  environment. That is why its late `DeleteInstances` is one of the store's.
- `GateInv` adds for `HealthGate` that whatever passed the gate, the controller's
  verdict, the routes it read and the router's file all name revisions in `ran`.
- `TrafficGone` says for `RouteBeforeTeardown` that what was terminal when a tick
  began gets no traffic from the routes this tick read, nor from the file once
  written. Reading the routes after listing what is terminal makes it so.
- `RowsAtHome` assumes that no node is drained; run `misrouted` shows why.

`AllocIsReserved` holds of `RolloutSpec` by the refinement.

`PartsProofs` has two subjects. For `BestNode` it proves that the preference
order is total and transitive on candidates and that the loop keeps
`LoopInvariant`, hence that the answer does not depend on the listing order, for
any fleet. A node of zero capacity is included.

For `Compose` it proves `FindsDeadlock`, `Deployable` and that the search ends,
for any documents and configurations. The one assumption (`DocumentAssumption`)
is that a file has finitely many services and dependencies, numbered. `Marks`
is what a search that has found nothing yet has established:

- the grey services are those on the path, each once, each a dependency of the
  one before (`Calls`); so a grey one met again closes a path;
- what a call has looked at is black or is the call it is in (`LookedAt`);
- black services depend on black ones only, and no set of them wait for one
  another (`Finished`). A service turns black when all it depends on is: a set of
  black services waiting for one another with it would be one without it;
- the outer loop has left nothing white behind (`Tried`), so at the end all is
  black.

`SearchEnds` is an action property (`SearchAdvances`): in each step there are
fewer white services, or as many and fewer calls, or the same path and fewer
dependencies left to look at, or no path and fewer names. `ComposeInv` says that
the answer is `Parse`'s of the document, `Accepted` what `Parse` has then checked;
the four parts of `Deployable` follow from these.

`HandlerProofs` covers the modules in which calls or requests overlap.

- `Catalog`, for any stacks, manifests and number of calls. `CatalogInv` says
  that the numbers of a stack's versions are 1 to their count, which is what
  makes the number a push read either the next one or taken, and, of each call in
  progress, what it has established: a push has seen no more versions than there
  are (`PushFits`), and a call past its check has every required secret either
  still set or in `lost` (`DeployFits`).
- `Access`, for any people and calls. `LedgerInv` holds every invite and request
  row well-formed, at most one invite of an address live, and a request approved
  exactly when one invite names it. The refinement `InvitesAreTickets` follows:
  each step moves each invitation by one step of `Ticket` or leaves it alone.
  `LedgerStep` groups the few actions that write these tables, so that all others
  are one case. `MemberInv` gives `KeepsMember`: until two removals overlap, a
  removal past its count finds two members and takes one.
- `Tui`, for any catalogs. `TuiInv` adds that the list held is the one of
  `deploymentsFor`, which `revisions` relies on, and states everything of a model
  and its outstanding requests (`Fits`), so that one lemma about `Update` serves
  every message.

`EnrolProofs` proves the refinement and the safety properties of `Enrol` and
`Secrets`, for any hosts, tokens and numbers of uses, keys and versions.
`UsesCover` says that a token was spent at least as often as it admitted a host
or has a registration in flight, which is what makes a join token a ticket.
`TokenKept` says that a node token handed out is in its host's file or counted
lost. `ApprovedOnly` carries approval from the keys in effect through what the
handler has read to what is stored; `SealedToHome` says the same of the home's
key as long as nothing has changed since it was read.

`LogsProofs` proves `SessionSeesAll` and `BufferBounded` for every limit and any
output. `Numbered` says that the chunks held are numbered in a row up to the next
number and that none is missing from the front unless `dropped` says so;
`Follows` that what a session has still to see is what was written from its
cursor on. Together they make a page a suffix of the news. `Quiet` says that
nothing more is delivered once a request is done, which is why a session that
read "done" before it read the buffer has seen all. `ChunksFrom`, `Read`'s loop,
is a recursive function; a lemma says what it returns, by the least position at
which it would not. Of `Size` it is enough that an empty buffer has none and
that `Trim` stops at a suffix that fits, or at one chunk.

`AgentProofs` proves the four safety properties of `Agent` for any environments,
services and configurations, with failures and restarts. `AgentInvariant` has
three parts:

- what a deleted environment has left: no rows, so that no later tick reads one
  of it, and RemoveEnv runs after the last row of its own tick was ensured
  (`DeletedHasNoRows`, `TeardownIsDeleted`, `EnsuredFirst`,
  `DestroyedStaysGone`);
- what a tick knows: everything Docker has is of a revision the control plane
  has made (`RevisionsExist`), so a revision added after the tick read its rows
  has nothing yet, and everything Docker has of a wanted revision is of a row
  the tick was told of (`WantedWasRead`). This is why collecting from an old
  desired state is safe;
- what a report means: `firstRunning` holds only what was up when last seen, and
  an instance is reported once a tick (`FirstSeen`, `ReportedOnce`,
  `OneRowEach`).

Three lemmas say what a step may do to the control plane's rows, to Docker and
to the tick (`RevisionsMove`, `DockerMoves`, `TickMoves`); the invariant and the
two action properties follow from these.

Model-checked only is liveness under fairness, which is out of the prover's
reach: `RolloutResolves`, `TeardownHappens` and `RouteSettles` in run `progress`,
`OrphansCollected` and `TombstoneHonoured` in `parts`, `Polled` and `Released`
in `views`. For these the bounds of the runs count.

## Not modelled

- Database errors other than the ones the code tests for. A failed query ends a
  tick; the loops are idempotent, and `Restart` covers the forgetting.
- Isolation finer than one transaction, but for the join of `createDeploymentTx`
  (see `Store`): the other transactions lock the rows they decide on first. Which
  of two deadlocked transactions Postgres aborts (promotion and placement lock a
  deployment and then its environment, expiry the other way round) is not
  modelled; the aborted one has done nothing and is an error to its caller.
  `Catalog`, `Access` and `Secrets` take each statement outside a transaction as
  a step.
- `Agent` and `Rollout` composed: their product is beyond a run. Each contains
  the other as free choices, so what needs both is open: what a rotated secret,
  or a superseded revision's containers removed before its route, do to traffic.
- Two control planes at once, or one without a router.
- Organizations, applications and stacks, which are inserted and then only read;
  an organization and its first membership are two statements.
- Events, mail (expiry warnings included) and metrics: written, never read back
  to decide.
- The router's rendering, routing of HTTP requests, rate limits, configuration,
  the command line and the web interface: presentation, or text, or start-up.
- Cryptography, image pulls and Docker's networking beyond which networks exist.
