----------------------------- MODULE MCRollout -----------------------------
(* Rollout on small fleets.                                                *)
EXTENDS Rollout

CONSTANTS prod, pr7

Def(swappable, volume, image, ingress, mem) ==
    [swappable |-> swappable, volume |-> volume, ingress |-> ingress,
     image |-> image, limits |-> [mem |-> mem, cpu |-> 1]]

(* One service; the same with a volume; and two services, one with one.    *)
MCSpec ==
    [one  |-> [web |-> Def(TRUE, FALSE, "a", TRUE, 1)],
     disk |-> [web |-> Def(TRUE, TRUE, "a", TRUE, 1)],
     two  |-> [web |-> Def(TRUE, TRUE, "a", TRUE, 1), job |-> Def(TRUE, FALSE, "a", FALSE, 0)]]

MCCapacity == [n \in {1, 2} |-> {[mem |-> 4, cpu |-> 8]}]

(* Room for one rollout or for two on node 1, which may come back smaller; *)
(* room for one on node 2.                                                 *)
TightCapacity ==
    <<{[mem |-> c, cpu |-> 8] : c \in {2, 4}}, {[mem |-> 2, cpu |-> 8]}>>

============================================================================
