------------------------------ MODULE Catalog ------------------------------
(***************************************************************************)
(* Stack versions, environments and the calls that make deployments of      *)
(* them.  A handler reads and checks in statements of their own and writes  *)
(* in a last one, so pushes, deploys, previews, rollbacks and secrets       *)
(* changes interleave between them.                                         *)
(*                                                                          *)
(* A manifest is its digest; of its spec only the secrets it requires are   *)
(* seen here (the overlay is Compose's).  What else may refuse a deployment *)
(* (an active one, pinned drift) is Store's, and is a refusal here; so is a *)
(* slug or hostname that is taken, and a row's id stands for both.          *)
(***************************************************************************)
EXTENDS Integers, Sequences, FiniteSets, FiniteSetsExt

CONSTANTS
    Stack, EnvName,   \* stacks, and ids of environments: numbers, in the order of creation
    Digest, SecretKey,      \* manifests and secrets' keys
    Required,         \* RequiredSecrets of a manifest
    Caller,           \* calls in progress at once
    MaxVersions,      \* bound: versions of a stack
    NoValue, Gone

ASSUME CatalogAssumption ==
    /\ Required \in [Digest -> SUBSET SecretKey]
    /\ EnvName \subseteq Nat /\ NoValue \notin EnvName /\ NoValue # Gone
    /\ MaxVersions \in Nat

VARIABLES
    versions,   \* stack_versions
    env,        \* environments: an id is unused, a row or Gone
    set,        \* the keys with a secret, per environment
    dep,        \* the manifests deployed, per environment
    call        \* what each caller's handler holds

catalogVars == <<versions, env, set, dep, call>>

CatalogInit ==
    /\ versions = {}
    /\ env = [e \in EnvName |-> NoValue]
    /\ set = [e \in EnvName |-> {}]
    /\ dep = [e \in EnvName |-> {}]
    /\ call = [c \in Caller |-> NoValue]

Present == {e \in EnvName : env[e] \notin {NoValue, Gone}}
Busy(c) == call[c] # NoValue
Hold(c, r) == call' = [call EXCEPT ![c] = r]
Finish(c) == Hold(c, NoValue)

-----------------------------------------------------------------------------
(* CreateStackVersion: look at the newest version, then one INSERT that     *)
(* numbers the row from its own snapshot and may find the number taken.     *)

Numbers(st) == {v.version : v \in {w \in versions : w.stack = st}}
LatestStackVersion(st) == Max(Numbers(st) \cup {0})
Same(st, n, d) == [stack |-> st, version |-> n, digest |-> d] \in versions

\* The manifest of the newest version is answered with that version.
PushLook(c, st, d) ==
    LET n == LatestStackVersion(st) IN
    /\ ~Busy(c) /\ n < MaxVersions /\ ~Same(st, n, d)
    /\ Hold(c, [op |-> "push", stack |-> st, digest |-> d, seen |-> n, number |-> 0])
    /\ UNCHANGED <<versions, env, set, dep>>

PushNumber(c) ==
    /\ Busy(c) /\ call[c].op = "push" /\ call[c].number = 0
    /\ LatestStackVersion(call[c].stack) < MaxVersions
    /\ Hold(c, [call[c] EXCEPT !.number = LatestStackVersion(call[c].stack) + 1])
    /\ UNCHANGED <<versions, env, set, dep>>

\* A slip: the table takes a number twice.
PushInsertTaken(c) ==
    /\ Busy(c) /\ call[c].op = "push" /\ call[c].number > 0
    /\ versions' = versions \cup
         {[stack |-> call[c].stack, version |-> call[c].number, digest |-> call[c].digest]}
    /\ Finish(c) /\ UNCHANGED <<env, set, dep>>

\* UNIQUE (stack_id, version): the later of two is refused.
PushInsert(c) ==
    /\ Busy(c) /\ call[c].op = "push" /\ call[c].number > 0
    /\ versions' = versions \cup
         (IF call[c].number \in Numbers(call[c].stack) THEN {} ELSE
          {[stack |-> call[c].stack, version |-> call[c].number, digest |-> call[c].digest]})
    /\ Finish(c) /\ UNCHANGED <<env, set, dep>>

-----------------------------------------------------------------------------
(* Environments and their secrets.                                          *)

\* A new id.
Unused(e) == env[e] = NoValue /\ \A o \in EnvName : o < e => env[o] # NoValue

CreateEnvironment(e, st) ==
    /\ Unused(e)
    /\ env' = [env EXCEPT ![e] = [stack |-> st, ephemeral |-> FALSE]]
    /\ UNCHANGED <<versions, set, dep, call>>

handleSetSecret(e, k) ==
    /\ e \in Present
    /\ set' = [set EXCEPT ![e] = @ \cup {k}]
    /\ UNCHANGED <<versions, env, dep, call>>

Checked(c, op) == Busy(c) /\ call[c].op = op /\ call[c].checked

\* Ghost state: what went from under a call that has checked.
Losing(e, ks) ==
    [c \in Caller |-> IF (Checked(c, "deploy") \/ Checked(c, "preview")) /\ call[c].from = e
                      THEN [call[c] EXCEPT !.lost = @ \cup ks] ELSE call[c]]

handleDeleteSecret(e, k) ==
    /\ k \in set[e]
    /\ set' = [set EXCEPT ![e] = @ \ {k}]
    /\ call' = Losing(e, {k})
    /\ UNCHANGED <<versions, env, dep>>

\* The reaper, and the cascade (when it may: Store's ExpireEnvironments).
ExpireEnvironment(e) ==
    /\ e \in Present /\ env[e].ephemeral
    /\ env' = [env EXCEPT ![e] = Gone]
    /\ set' = [set EXCEPT ![e] = {}] /\ dep' = [dep EXCEPT ![e] = {}]
    /\ call' = Losing(e, set[e])
    /\ UNCHANGED versions

-----------------------------------------------------------------------------
(* The calls that deploy.  What they read of the stack never changes, so    *)
(* the reads up to the secrets' are one step.                               *)

\* The newest version, or one of the stack that the request names.
handleCreateDeployment(c, e, v) ==
    /\ ~Busy(c) /\ e \in Present /\ v.stack = env[e].stack
    /\ Hold(c, [op |-> "deploy", from |-> e, spec |-> v.digest, checked |-> FALSE, lost |-> {}])
    /\ UNCHANGED <<versions, env, set, dep>>

\* The version of an earlier revision.
handleRollback(c, e, d) ==
    /\ ~Busy(c) /\ e \in Present /\ d \in dep[e]
    /\ Hold(c, [op |-> "deploy", from |-> e, spec |-> d, checked |-> FALSE, lost |-> {}])
    /\ UNCHANGED <<versions, env, set, dep>>

handleCreatePreview(c, v, from) ==
    /\ ~Busy(c)
    /\ from # NoValue => from \in Present /\ env[from].stack = v.stack
    /\ Hold(c, [op |-> "preview", stack |-> v.stack, from |-> from, spec |-> v.digest,
                checked |-> FALSE, lost |-> {}])
    /\ UNCHANGED <<versions, env, set, dep>>

SecretKeysForEnv(e) == IF e = NoValue THEN {} ELSE set[e]

\* A slip: a preview that inherits nothing is not checked.
missingInherited(r) ==
    IF r.from = NoValue THEN {} ELSE Required[r.spec] \ SecretKeysForEnv(r.from)

missing(r) == Required[r.spec] \ SecretKeysForEnv(r.from)

Check(c) ==
    /\ Busy(c) /\ call[c].op # "push" /\ ~call[c].checked
    /\ IF missing(call[c]) = {}
       THEN Hold(c, [call[c] EXCEPT !.checked = TRUE]) ELSE Finish(c)
    /\ UNCHANGED <<versions, env, set, dep>>

createDeploymentTx(c) ==
    LET e == call[c].from IN
    /\ Checked(c, "deploy")
    /\ e \in Present
    /\ dep' = [dep EXCEPT ![e] = @ \cup {call[c].spec}]
    /\ Finish(c) /\ UNCHANGED <<versions, env, set>>

\* One transaction: the row, the source's secrets as they are now, revision 1.
PreviewTx(c, e) ==
    /\ Checked(c, "preview") /\ Unused(e)
    /\ env' = [env EXCEPT ![e] = [stack |-> call[c].stack, ephemeral |-> TRUE]]
    /\ set' = [set EXCEPT ![e] = SecretKeysForEnv(call[c].from)]
    /\ dep' = [dep EXCEPT ![e] = {call[c].spec}]
    /\ Finish(c) /\ UNCHANGED versions

\* The last statement fails: environment gone, slug taken, a rollout active.
Refuse(c) ==
    /\ Checked(c, "deploy") \/ Checked(c, "preview")
    /\ Finish(c) /\ UNCHANGED <<versions, env, set, dep>>

-----------------------------------------------------------------------------
Begin(c) ==
    \/ \E st \in Stack, d \in Digest : PushLook(c, st, d)
    \/ \E e \in Present, v \in versions : handleCreateDeployment(c, e, v)
    \/ \E e \in Present : \E d \in dep[e] : handleRollback(c, e, d)
    \/ \E v \in versions, from \in Present \cup {NoValue} :
          handleCreatePreview(c, v, from)

Proceed(c) ==
    \/ PushNumber(c) \/ PushInsert(c) \/ Check(c) \/ createDeploymentTx(c) \/ Refuse(c)
    \/ \E e \in EnvName : PreviewTx(c, e)

EnvironmentOp(e) ==
    \/ \E st \in Stack : CreateEnvironment(e, st)
    \/ \E k \in SecretKey : handleSetSecret(e, k) \/ handleDeleteSecret(e, k)
    \/ ExpireEnvironment(e)

CatalogNext ==
    \/ \E c \in Caller : Begin(c) \/ Proceed(c)
    \/ \E e \in EnvName : EnvironmentOp(e)

CatalogSpec == CatalogInit /\ [][CatalogNext]_catalogVars

-----------------------------------------------------------------------------
(* Versions are appended: numbered from 1 without gaps, one at a time, and  *)
(* none is changed or renumbered, however pushes overlap.                   *)
VersionsAppend ==
    [][/\ versions \subseteq versions'
       /\ \A v \in versions' \ versions : v.version = LatestStackVersion(v.stack) + 1
       /\ Cardinality(versions' \ versions) <= 1]_catalogVars

(* "deploying an unchanged stack should not manufacture revision churn": a  *)
(* version repeats the one before it only when that one was pushed after    *)
(* the call had looked.                                                     *)
NoChurn ==
    [][\A v \in versions' \ versions :
          Same(v.stack, v.version - 1, v.digest)
             => \E c \in Caller : /\ Busy(c) /\ call[c].op = "push" /\ call'[c] = NoValue
                                  /\ call[c].seen < v.version - 1]_catalogVars

(* "a bad deploy never reaches a node": when a deployment is made, by a     *)
(* deploy, a rollback or a preview, its environment has every secret the    *)
(* manifest requires, save those deleted after the call had checked.        *)
DeploysWithSecrets ==
    [][\A c \in Caller, e \in EnvName :
          (createDeploymentTx(c) /\ e = call[c].from) \/ PreviewTx(c, e)
             => Required[call[c].spec] \subseteq set'[e] \cup call[c].lost]_catalogVars

(* The two together: CreateStackVersion under overlapping pushes.           *)
PushesAppend == VersionsAppend /\ NoChurn

=============================================================================
