------------------------------- MODULE MCNode -------------------------------
(* A node, by what happens there: its agent brings Docker to the desired    *)
(* state, it is let in and gets its secrets, and bestNode ranks it.  The    *)
(* three share no state, and a behaviour runs one of them.  bestNode runs   *)
(* over every fleet of up to three nodes with these rows: empty, unequally  *)
(* loaded, the same share of a larger node, no CPU at all.                  *)
EXTENDS MCAgent, Secrets, BestNode

CONSTANTS n1, n2, j

MCUses == [t \in JoinToken |-> 1]

Of(mem, cpu) == [mem |-> mem, cpu |-> cpu]
MCRows == {[cap |-> Of(4, 4), alloc |-> Of(0, 0)], [cap |-> Of(4, 4), alloc |-> Of(2, 1)],
           [cap |-> Of(2, 4), alloc |-> Of(1, 1)], [cap |-> Of(4, 0), alloc |-> Of(1, 0)],
           [cap |-> Of(4, 4), alloc |-> Of(1, 3)]}
MCPeaks == {Of(1, 0), Of(2, 2)}

VARIABLE part

NoLoop == /\ nodes = << >> /\ fleet = << >> /\ homed = [n \in Ids |-> 0]
          /\ peak = Of(1, 0) /\ i = 0 /\ best = None

NodeInit ==
    /\ part \in {"agent", "joining", "ranking"}
    /\ AgentInit /\ SecretsInit
    /\ IF part = "ranking" THEN LoopInit ELSE NoLoop

NodeNext ==
    /\ UNCHANGED part
    /\ \/ part = "agent" /\ AgentNext /\ UNCHANGED <<secretsVars, loopVars>>
       \/ part = "joining" /\ SecretsNext /\ UNCHANGED <<agentVars, loopVars>>
       \/ part = "ranking" /\ Iterate /\ UNCHANGED <<agentVars, secretsVars>>

NodeSpec == NodeInit /\ [][NodeNext]_<<agentVars, secretsVars, loopVars, part>>

=============================================================================
