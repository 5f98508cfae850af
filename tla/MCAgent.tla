------------------------------ MODULE MCAgent ------------------------------
(***************************************************************************)
(* Instances of Agent: an ingress service that every revision replaces and *)
(* a pinned database with a volume, a secret and a healthcheck.            *)
(***************************************************************************)
EXTENDS Agent

MCDepends == [s \in Service |-> IF s = "web" THEN Service \ {"web"} ELSE {}]
============================================================================
