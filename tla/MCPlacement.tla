---------------------------- MODULE MCPlacement ----------------------------
(* What comes before a rollout starts: the catalog with two calls in        *)
(* progress, and the placement on a fleet with room for one rollout or for  *)
(* two.  A behaviour is of one or of the other.                             *)
EXTENDS MCRollout, Catalog

VARIABLE part

\* One manifest requires every secret, the others none.
MCRequired == [d \in Digest |-> IF d = 1 THEN {} ELSE SecretKey]

PlacementInit == RolloutInit /\ CatalogInit /\ part \in {"placement", "catalog"}

PlacementNext ==
    /\ UNCHANGED part
    /\ \/ part = "placement" /\ RolloutNext /\ UNCHANGED catalogVars
       \/ part = "catalog" /\ CatalogNext /\ UNCHANGED vars

PlacementSpec == PlacementInit /\ [][PlacementNext]_<<vars, catalogVars, part>>

============================================================================
