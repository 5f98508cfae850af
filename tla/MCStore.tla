------------------------------ MODULE MCStore ------------------------------
(* The tables, by who writes them.  Any caller may call any method of a     *)
(* rollout at any moment; or the loops and the drain handler are at work on *)
(* the first rollout of a durable spec, on a node that may fall silent or   *)
(* come back too small and under a control plane that may restart.  A       *)
(* behaviour is of one of the two.                                          *)
EXTENDS Rollout

CONSTANT pr7

Def(swappable, image, ingress, mem) ==
    [swappable |-> swappable, volume |-> ~swappable, ingress |-> ingress,
     image |-> image, limits |-> [mem |-> mem, cpu |-> 1]]

MCSpec ==
    [v1 |-> [web |-> Def(TRUE, "a", TRUE, 1)],
     v2 |-> [web |-> Def(TRUE, "b", TRUE, 1), db |-> Def(FALSE, "a", FALSE, 1)],
     v3 |-> [web |-> Def(TRUE, "a", TRUE, 1), db |-> Def(FALSE, "b", FALSE, 1)]]

MCCapacity == [n \in {1, 2} |-> {[mem |-> m, cpu |-> 6] : m \in {1, 5}}]

(* Where any caller may call any method, every instance counts as having    *)
(* run; the loops have only seen the first one run.                         *)
AnyCaller == ran = Deployment

MCStoreInit ==
    /\ Init
    /\ sched = SchedIdle /\ ctl = CtlIdle({}) /\ drain = DrainIdle
    /\ routes = [e \in Env |-> None]
    /\ ran \in {{}, Deployment}

(* The methods that only the loops and the drain handler call, called by    *)
(* anyone; with those of the agents and the API, all of Next.               *)
LoopMethod ==
    \/ MarkStaleNodesUnreachable
    \/ \E n \in Node : DrainNode(n)
    \/ \E e \in Env : ReleaseEnvironmentHome(e)
    \/ \E e \in Env, r \in 1..MaxRevision :
          \/ \E to \in {"starting", "healthy", "failed"} : UpdateDeploymentState(e, r, to)
          \/ DeleteTerminal(e, r)
          \/ \E n \in Node : PlaceDeployment(e, r, n)

MCStoreNext == RolloutNext \/ (AnyCaller /\ Api(LoopMethod))

MCStoreSpec == MCStoreInit /\ [][MCStoreNext]_vars

(* Bounds.  A node is not silent for so long that it is stranded, which no  *)
(* method tells from a shorter silence.  Beside the callers the loops stand *)
(* still, and the node keeps its size.  The loops have one rollout, of v2,  *)
(* in an environment that stays; a node too small for it has nothing yet.   *)
LoopsStandStill == AnyCaller => UNCHANGED loopVars

FirstRollout ==
    \A e \in Env : /\ envState[e] # "deleted" /\ Len(deps[e]) <= 1
                  /\ \A r \in Revisions(e) : Row(e, r).version = "v2"

Bounds ==
    /\ \A n \in Node :
         silence[n] <= 1 /\ (cap[n].mem = 1 => ~AnyCaller /\ \A e \in Env : home[e] = None)
    /\ AnyCaller \/ FirstRollout

============================================================================
