----------------------------- MODULE Placement -----------------------------
(***************************************************************************)
(* How the scheduler ranks the nodes an unhomed environment could live on  *)
(* (internal/rollout/scheduler.go, bestNode and freeRatio).  A fleet is a  *)
(* function from node ids to what ListReadyNodes returned for the node:    *)
(* its capacity and its allocation of memory and CPU.  The code compares   *)
(* ratios as floats; here they are exact fractions <<numerator, positive   *)
(* denominator>>, so ratios closer than a rounding error stay distinct.    *)
(***************************************************************************)
EXTENDS Integers

Less(p, q) == p[1] * q[2] < q[1] * p[2]

(* The free share of one resource; no registered capacity counts as free.  *)
FreeShare(node, res) ==
    IF node.cap[res] > 0 THEN << node.cap[res] - node.alloc[res], node.cap[res] >>
    ELSE << 1, 1 >>

FreeRatio(node) ==
    IF Less(FreeShare(node, "cpu"), FreeShare(node, "mem"))
    THEN FreeShare(node, "cpu") ELSE FreeShare(node, "mem")

HasRoom(node, peak) ==
    \A res \in {"mem", "cpu"} : node.cap[res] - node.alloc[res] >= peak[res]

Candidates(fleet, peak) == {n \in DOMAIN fleet : HasRoom(fleet[n], peak)}

(* n is a better home than m: fewer environments homed, then the larger    *)
(* free ratio, then the smaller id.                                        *)
Prefer(fleet, homed, n, m) ==
    \/ homed[n] < homed[m]
    \/ homed[n] = homed[m] /\ Less(FreeRatio(fleet[m]), FreeRatio(fleet[n]))
    \/ /\ homed[n] = homed[m]
       /\ ~Less(FreeRatio(fleet[m]), FreeRatio(fleet[n]))
       /\ ~Less(FreeRatio(fleet[n]), FreeRatio(fleet[m]))
       /\ n < m

(* What bestNode returns for a fleet with a candidate; that its loop       *)
(* computes this is shown in module BestNode.                              *)
IsBest(fleet, homed, peak, n) ==
    /\ n \in Candidates(fleet, peak)
    /\ \A m \in Candidates(fleet, peak) \ {n} : Prefer(fleet, homed, n, m)

============================================================================
