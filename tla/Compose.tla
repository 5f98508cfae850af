------------------------------- MODULE Compose -------------------------------
(***************************************************************************)
(* From a compose file to the spec a deployment runs: the preflight of the  *)
(* raw document, the conversion of each service, the checks that span       *)
(* services, and the overlay of an environment's configuration.  A document *)
(* is what the YAML loader makes of the file; the loader itself is          *)
(* external.  Services are numbered in the order of their names; a variable *)
(* whose value is a secret template stands for the one secret it names.     *)
(***************************************************************************)
EXTENDS Naturals, FiniteSets, Sequences, SequencesExt

CONSTANTS
    Document,   \* the documents that may be submitted
    Config,     \* the configurations an environment may have
    SecretKeys  \* the sets of secrets an environment may have been given

\* A file has finitely many services and dependencies, and they are numbered.
ASSUME DocumentAssumption ==
    \A d \in Document :
        /\ IsFiniteSet(DOMAIN d.svc) /\ DOMAIN d.svc \subseteq Nat
        /\ \A n \in DOMAIN d.svc : IsFiniteSet(d.svc[n].deps) /\ d.svc[n].deps \subseteq Nat

VARIABLES
    doc,    \* the document
    search, \* findCycle's variables
    res,    \* what Parse says of it
    run,    \* the resolved spec of its deployment
    step    \* "submitted", "searching", "parsed", then "deployed"

composeVars == <<doc, search, res, run, step>>

-----------------------------------------------------------------------------
(* Parse, up to the checks that span services.  Errors are pairs of a       *)
(* service (0 for none) and the field they name.                            *)

preflight(d) ==
    {<<0, f>> : f \in d.raw} \cup
    UNION {{<<n, f>> : f \in d.svc[n].raw} : n \in DOMAIN d.svc}

(* The x-composectl block: absent, not a mapping, or its two entries.       *)
parseRolloutExtension(s) ==
    IF s.ext = "mapping" THEN s.rollout ELSE "undeclared"

parseIngressExtension(s) ==
    CASE s.ext = "malformed" -> "malformed"
      [] s.ext = "mapping" -> s.ingress
      [] OTHER -> "none"

Named(s) == {m \in s.mounts : m.kind = "volume"}
Writable(s) == \E m \in Named(s) : ~m.ro

\* A slip: a read-only mount is taken for the writable one, and back.
swapMountsFlipped(s) == \E m \in Named(s) : m.ro
swapMounts(s) == Writable(s)

pinnedIngress(mode, ing) == mode = "pin" /\ ing = "port"

portErrors(s) == IF s.ports = "published" THEN {"ports"} ELSE {}
mountErrors(s) == IF s.mounts # Named(s) THEN {"volumes"} ELSE {}

rolloutErrors(s) ==
    LET mode == parseRolloutExtension(s)
        ing == parseIngressExtension(s) IN
    (IF ing = "malformed" THEN {"ingress"} ELSE {})
    \cup (IF mode \notin {"swap", "pin"} THEN {"rollout"} ELSE {})
    \cup (IF mode = "swap" /\ swapMounts(s) THEN {"rollout"} ELSE {})
    \cup (IF pinnedIngress(mode, ing) THEN {"rollout"} ELSE {})

\* One error per rejected directive, and those of the parts.
convertErrors(s) == s.rejected \cup portErrors(s) \cup mountErrors(s) \cup rolloutErrors(s)

\* A variable without a value is left to the deploy environment.
plainEnv(s) == [v \in {x \in DOMAIN s.env : s.env[x] = "plain"} |-> "author"]
secretEnv(s) == {x \in DOMAIN s.env : s.env[x] = "secret"}

convertService(s) ==
    [env |-> plainEnv(s), secretEnv |-> secretEnv(s),
     swappable |-> parseRolloutExtension(s) # "pin",
     ingress |-> parseIngressExtension(s) = "port",
     depends |-> s.deps, mounts |-> Named(s)]

Converted(d) == [n \in DOMAIN d.svc |-> convertService(d.svc[n])]

-----------------------------------------------------------------------------
(* Volumes: what mounts them, and what the loader took for a drive letter.  *)

mountedBy(d, v) == {n \in DOMAIN d.svc : \E m \in Named(d.svc[n]) : m.vol = v}
misparsedVolumeNames(d) ==
    {m.vol : m \in UNION {{x \in d.svc[n].mounts : x.kind = "drive"} : n \in DOMAIN d.svc}}

volumeCount(d, v) == Cardinality(mountedBy(d, v))
volumeOwner(d, v) == CHOOSE n \in mountedBy(d, v) : \A k \in mountedBy(d, v) : n <= k

volumeErrors(d) ==
    {<<0, v>> : v \in {x \in DOMAIN d.vols :
        \/ d.vols[x] # "local"                    \* driver, driver_opts, external
        \/ volumeCount(d, x) = 0 /\ x \notin misparsedVolumeNames(d)
        \/ volumeCount(d, x) > 1}}

-----------------------------------------------------------------------------
(* findCycle: depth first in the order of the names, a colour per service.  *)
(* The calls of visit in progress are path, and for each the dependencies   *)
(* its loop has not looked at; names are those the outer loop has not.      *)

NoSearch == [color |-> << >>, path |-> << >>, left |-> << >>, names |-> {}, out |-> << >>]
start(svcs) ==
    [color |-> [n \in DOMAIN svcs |-> "white"], path |-> << >>, left |-> << >>,
     names |-> DOMAIN svcs, out |-> << >>]

First(S) == CHOOSE x \in S : \A y \in S : x <= y

enter(svcs, s, n) ==
    [s EXCEPT !.color[n] = "grey", !.path = Append(@, n), !.left = Append(@, svcs[n].depends)]
leave(s) ==
    [s EXCEPT !.color[Last(s.path)] = "black", !.path = Front(@), !.left = Front(@)]

(* The path from the grey service met, closed by it.                        *)
closed(path, m) ==
    LET at == {k \in 1..Len(path) : path[k] = m} IN
    Append(IF at = {} THEN path ELSE SubSeq(path, First(at), Len(path)), m)

(* One turn of visit's loop in the innermost call, or its end.              *)
visit(svcs, s) ==
    LET m == First(Last(s.left))
        looked == [s EXCEPT !.left[Len(s.left)] = @ \ {m}] IN
    CASE Last(s.left) = {} -> leave(s)
      [] Last(s.left) # {} /\ m \notin DOMAIN svcs -> looked
      [] Last(s.left) # {} /\ m \in DOMAIN svcs ->
            CASE s.color[m] = "grey" -> [looked EXCEPT !.out = closed(s.path, m)]
              [] s.color[m] = "white" -> enter(svcs, looked, m)
              [] s.color[m] = "black" -> looked

\* A slip: the search starts at the first service only.
rootOnly(svcs, s) == [enter(svcs, s, First(s.names)) EXCEPT !.names = {}]

(* One turn of the outer loop.                                              *)
root(svcs, s) ==
    LET n == First(s.names)
        tried == [s EXCEPT !.names = @ \ {n}] IN
    IF s.color[n] = "white" THEN enter(svcs, tried, n) ELSE tried

Searched(s) == s.out # << >> \/ (s.path = << >> /\ s.names = {})

validateGraph(svcs, cycle) ==
    {<<n, "depends_on">> : n \in {x \in DOMAIN svcs : ~(svcs[x].depends \subseteq DOMAIN svcs)}}
    \cup (IF cycle # << >> THEN {<<0, "depends_on">>} ELSE {})
    \cup (IF Cardinality({n \in DOMAIN svcs : svcs[n].ingress}) > 1
          THEN {<<0, "ingress">>} ELSE {})

\* compose-go's consistency check, as far as the spec relies on it: a mount
\* names a declared volume.  The first load defers it; the last applies it.
consistent(d) ==
    \A n \in DOMAIN d.svc : \A m \in Named(d.svc[n]) : m.vol \in DOMAIN d.vols

Refused(errs) == [ok |-> FALSE, errs |-> errs]

Parse(d, cycle) ==
    LET svcs == Converted(d)
        errs == UNION {{<<n, f>> : f \in convertErrors(d.svc[n])} : n \in DOMAIN d.svc}
                \cup volumeErrors(d) \cup validateGraph(svcs, cycle)
                \cup (IF svcs = << >> THEN {<<0, "services">>} ELSE {}) IN
    CASE preflight(d) # {} -> Refused(preflight(d))
      [] preflight(d) = {} /\ errs # {} -> Refused(errs)
      [] preflight(d) = {} /\ errs = {} /\ ~consistent(d) -> Refused({<<0, "load">>})
      [] OTHER -> [ok |-> TRUE, services |-> svcs,
                   volumes |-> [v \in DOMAIN d.vols |-> volumeOwner(d, v)]]

-----------------------------------------------------------------------------
(* What is read off a spec, and the overlay of an environment's config: the *)
(* config under what the author wrote, and never over a secret.             *)

PinnedServices(s) == {n \in DOMAIN s.services : ~s.services[n].swappable}
IngressServices(s) == {n \in DOMAIN s.services : s.services[n].ingress}
RequiredSecrets(s) == UNION {s.services[n].secretEnv : n \in DOMAIN s.services}
MountedVolumes(s) ==
    UNION {{m.vol : m \in s.services[n].mounts} : n \in DOMAIN s.services}
Copies(svc) == IF svc.swappable THEN 2 ELSE 1       \* during a rollout
DurableReasons(s) ==
    {<<"pinned", n>> : n \in PinnedServices(s)}
    \cup {<<"mounted", v>> : v \in MountedVolumes(s)}
    \cup {<<"volume", v>> : v \in DOMAIN s.volumes \ MountedVolumes(s)}

Under(c, env) ==
    [v \in DOMAIN c \cup DOMAIN env |-> IF v \in DOMAIN env THEN env[v] ELSE c[v]]

overlay(svc, c) ==
    LET all == Under(c, svc.env) IN
    [svc EXCEPT !.env = [v \in DOMAIN all \ svc.secretEnv |-> all[v]]]

applyEnvConfig(s, c) ==
    [s EXCEPT !.services = [n \in DOMAIN s.services |-> overlay(s.services[n], c)]]

-----------------------------------------------------------------------------
ComposeInit ==
    /\ doc \in Document /\ step = "submitted" /\ search = NoSearch
    /\ res = Refused({}) /\ run = Refused({})

(* Parse up to the search, the search, and the answer.  A document that     *)
(* fails the preflight is answered at once.                                 *)
handleCreateStackVersion ==
    /\ step = "submitted"
    /\ IF preflight(doc) # {}
       THEN step' = "parsed" /\ res' = Parse(doc, << >>) /\ UNCHANGED search
       ELSE step' = "searching" /\ search' = start(Converted(doc)) /\ UNCHANGED res
    /\ UNCHANGED <<doc, run>>

findCycle ==
    /\ step = "searching" /\ ~Searched(search)
    /\ search' = IF search.path = << >> THEN root(Converted(doc), search)
                 ELSE visit(Converted(doc), search)
    /\ UNCHANGED <<doc, res, run, step>>

answerParse ==
    /\ step = "searching" /\ Searched(search) /\ step' = "parsed"
    /\ res' = Parse(doc, search.out) /\ UNCHANGED <<doc, search, run>>

handleCreateDeployment(c, have) ==
    /\ step = "parsed" /\ res.ok /\ step' = "deployed"
    /\ LET resolved == applyEnvConfig(res, c) IN
       RequiredSecrets(resolved) \subseteq have /\ run' = resolved
    /\ UNCHANGED <<doc, search, res>>

ComposeNext ==
    \/ handleCreateStackVersion \/ findCycle \/ answerParse
    \/ \E c \in Config, have \in SecretKeys : handleCreateDeployment(c, have)

ComposeSpec == ComposeInit /\ [][ComposeNext]_composeVars

-----------------------------------------------------------------------------
(* Services wait for each other: each of a set of them depends on one of it.*)
Deadlocked(svcs) ==
    \E S \in (SUBSET DOMAIN svcs) \ {{}} : \A n \in S : svcs[n].depends \cap S # {}

(* findCycle finds one exactly when some services wait for each other, what *)
(* it reports is a closed path of dependencies, and no spec whose services  *)
(* do is accepted: they would never start.                                  *)
FindsDeadlock ==
    LET svcs == Converted(doc)
        cycle == search.out IN
    /\ res.ok => ~Deadlocked(svcs)
    /\ step = "searching" /\ Searched(search) => (cycle # << >> <=> Deadlocked(svcs))
    /\ cycle # << >> =>
          /\ Len(cycle) > 1 /\ cycle[1] = Last(cycle)
          /\ \A k \in 1..(Len(cycle) - 1) : cycle[k + 1] \in svcs[cycle[k]].depends

(* The search ends: each of its steps marks a service for the first time,   *)
(* or marks none and ends a call of visit, looks at one more dependency in  *)
(* the innermost call, or tries one more name.                              *)
Unmarked == {n \in DOMAIN search.color : search.color[n] = "white"}
Fewer(S, T) == S \subseteq T /\ S # T
SearchAdvances ==
    [][findCycle =>
         \/ Fewer(Unmarked', Unmarked)
         \/ /\ Unmarked' = Unmarked
            /\ \/ Len(search'.path) < Len(search.path)
               \/ /\ search'.path = search.path /\ search.path # << >>
                  /\ Fewer(Last(search'.left), Last(search.left))
               \/ /\ search'.path = << >> /\ search.path = << >>
                  /\ Fewer(search'.names, search.names)]_composeVars

(* While two revisions of an accepted spec run, pinned services once and    *)
(* swappable ones twice, no volume has two writers; whatever the mounts of  *)
(* the file, how they are spelled, and what the rollout declarations say.   *)
OneWriter ==
    res.ok => \A v \in MountedVolumes(res) :
        LET writers == {n \in DOMAIN res.services :
                          \E m \in res.services[n].mounts : m.vol = v /\ ~m.ro} IN
        Cardinality(writers) <= 1 /\ \A n \in writers : Copies(res.services[n]) = 1

(* The volumes of an accepted spec are those its services mount, each by    *)
(* its owner alone: the last loop of DurableReasons finds nothing, and a    *)
(* spec without reasons to stay leaves nothing behind when it moves.        *)
VolumesOwned ==
    res.ok =>
        /\ DOMAIN res.volumes = MountedVolumes(res)
        /\ \A v \in DOMAIN res.volumes : mountedBy(doc, v) = {res.volumes[v]}
        /\ ~\E v \in DOMAIN res.volumes : <<"volume", v>> \in DurableReasons(res)

(* An accepted spec has at most one service that takes traffic, and it is   *)
(* one that both revisions run, so a promotion has something to switch to.  *)
IngressSwaps ==
    res.ok => /\ Cardinality(IngressServices(res)) <= 1
                /\ IngressServices(res) \cap PinnedServices(res) = {}

(* What is deployed is what was accepted but for variables the author left  *)
(* unset: no value of the author's, and no secret, is replaced by the       *)
(* environment's config, and nothing else changes.                          *)
OverlayKeeps ==
    run.ok =>
        /\ RequiredSecrets(run) = RequiredSecrets(res)
        /\ \A n \in DOMAIN run.services :
              LET was == res.services[n]
                  is == run.services[n] IN
              /\ DOMAIN is.env \cap is.secretEnv = {}
              /\ \A v \in DOMAIN was.env : is.env[v] = was.env[v]
              /\ is = [was EXCEPT !.env = is.env]

(* What Parse accepts and applyEnvConfig completes can be rolled out beside *)
(* itself: the four facts above of every accepted manifest.                 *)
Deployable == OneWriter /\ VolumesOwned /\ IngressSwaps /\ OverlayKeeps

=============================================================================
