------------------------------ MODULE BestNode ------------------------------
(***************************************************************************)
(* The loop of bestNode (internal/rollout/scheduler.go), one iteration per *)
(* step, over the ready nodes in whatever order the query returned them.   *)
(***************************************************************************)
EXTENDS Placement, Sequences

CONSTANTS
    Ids,            \* node ids, ordered as their uuid strings are
    NodeRow,        \* the nodes table: [cap, alloc] records a node may have
    Counts,         \* how many environments may be homed on a node
    Peaks,          \* the peaks a rollout may ask for
    MaxNodes,       \* bound: how many nodes are ready
    None            \* nil

Amount == [{"mem", "cpu"} -> Nat]

ASSUME IdsAssumption == Ids \subseteq Nat /\ None \notin Ids
ASSUME InputAssumption ==
    /\ NodeRow \subseteq [cap : Amount, alloc : Amount]
    /\ Counts \subseteq Nat
    /\ Peaks \subseteq Amount
    /\ MaxNodes \in Nat

VARIABLES
    nodes,          \* the ids of the ready nodes, in the order of the rows
    fleet,          \* their rows
    homed,          \* environments homed per node
    peak,           \* the rollout's peak
    i,              \* nodes already looked at
    best            \* nil, or the best of them

inputs == <<nodes, fleet, homed, peak>>
loopVars == <<inputs, i, best>>

(* Every listing of distinct ids, in any order.                            *)
Listings == {ids \in UNION {[1..k -> Ids] : k \in 0..MaxNodes} :
               \A a, b \in DOMAIN ids : ids[a] = ids[b] => a = b}

LoopInit ==
    /\ nodes \in Listings
    /\ fleet \in [{nodes[a] : a \in DOMAIN nodes} -> NodeRow]
    /\ homed \in [Ids -> Counts]
    /\ peak \in Peaks
    /\ i = 0
    /\ best = None

(* A slip: among equals the last one listed wins.                          *)
ReplacesEqual(n) ==
    IF best = None THEN TRUE
    ELSE IF homed[n] # homed[best] THEN homed[n] < homed[best]
    ELSE ~Less(FreeRatio(fleet[n]), FreeRatio(fleet[best]))

(* The switch of the loop body: does n replace best?                       *)
Replaces(n) ==
    LET free == FreeRatio(fleet[n])
        bestFree == FreeRatio(fleet[best])
    IN  IF best = None THEN TRUE
        ELSE IF homed[n] # homed[best] THEN homed[n] < homed[best]
        ELSE IF Less(bestFree, free) THEN TRUE
        ELSE IF Less(free, bestFree) THEN FALSE
        ELSE n < best

Iterate ==
    /\ i < Len(nodes)
    /\ i' = i + 1
    /\ best' = IF HasRoom(fleet[nodes[i + 1]], peak) /\ Replaces(nodes[i + 1])
               THEN nodes[i + 1] ELSE best
    /\ UNCHANGED inputs

LoopSpec == LoopInit /\ [][Iterate]_loopVars

(* "The same fleet state always produces the same choice" (bestNode's      *)
(* comment): when the loop ends, best is the one candidate preferred to    *)
(* every other, or nil when no node fits, whatever the order of the rows.  *)
OrderIndependent ==
    i = Len(nodes) =>
        IF Candidates(fleet, peak) = {} THEN best = None
        ELSE IsBest(fleet, homed, peak, best)

(* The same of every prefix: what makes the loop correct.                  *)
LoopInvariant ==
    LET seen == {nodes[a] : a \in 1..i} \cap Candidates(fleet, peak)
    IN  /\ i \in 0..Len(nodes)
        /\ best = None <=> seen = {}
        /\ best # None => /\ best \in seen
                          /\ \A m \in seen \ {best} : Prefer(fleet, homed, best, m)

=============================================================================
