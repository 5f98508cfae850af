------------------------------ MODULE MCParts ------------------------------
(* Parts that share no state, side by side; a behaviour runs one of them.   *)
(* An agent that collects and destroys what is no longer wanted.  How       *)
(* people are let in.  The compose parser over every dependency graph of    *)
(* three services and every pair of services with these mounts,             *)
(* declarations, variables and flaws.                                       *)
EXTENDS MCAgent, Compose, Access

CONSTANTS a, b

Plain == [rejected |-> {}, raw |-> {}, ports |-> "none", env |-> << >>,
          ext |-> "mapping", rollout |-> "swap", ingress |-> "none",
          deps |-> {}, mounts |-> {}]
Graphs == {[raw |-> {}, vols |-> << >>,
            svc |-> [n \in 1..3 |-> [Plain EXCEPT !.deps = g[n]]]] :
              g \in [1..3 -> SUBSET {1, 2, 3, 9}]}
Mount(kind, vol, ro) == [kind |-> kind, vol |-> vol, ro |-> ro]
Mounts == {{}, {Mount("volume", "v", FALSE)}, {Mount("volume", "v", TRUE)},
           {Mount("volume", "w", FALSE), Mount("volume", "v", TRUE)},
           {Mount("drive", "v", FALSE)}, {Mount("anonymous", "", FALSE)}}
Vars(kind) == [x \in {"A"} |-> kind]
Flawed(s) ==
    {s, [s EXCEPT !.rejected = {"image", "privileged"}], [s EXCEPT !.raw = {"env_file"}],
     [s EXCEPT !.ports = "published"]}
Full == {[Plain EXCEPT !.mounts = ms, !.rollout = r, !.ingress = g, !.env = Vars(e)] :
            ms \in Mounts, r \in {"swap", "pin", "unknown"}, g \in {"none", "port"},
            e \in {"plain", "secret", "unset"}}
Odd == UNION {Flawed(s) : s \in {Plain, [Plain EXCEPT !.ext = "malformed"],
                                 [Plain EXCEPT !.ext = "absent"],
                                 [Plain EXCEPT !.ingress = "malformed", !.rollout = "pin"]}}
Volumes == {<< >>, [v \in {"v"} |-> "local"], [v \in {"v", "w"} |-> "local"],
            [v \in {"v"} |-> "external"]}
Two(p, q) == [n \in 1..2 |-> IF n = 1 THEN p ELSE q]
Stacks == {[raw |-> {}, vols |-> vs, svc |-> Two(p, q)] :
              vs \in Volumes, p \in Full, q \in {s \in Full : s.env = Vars("plain")}}
          \cup {[raw |-> t, vols |-> << >>, svc |-> Two(p, q)] :
              t \in {{}, {"include"}}, p \in Odd, q \in Odd}
NoServices == [raw |-> {}, vols |-> << >>, svc |-> << >>]
MCDocument == Graphs \cup Stacks \cup {NoServices}
MCConfig == {<< >>, [x \in {"A"} |-> "config"], [x \in {"A", "B"} |-> "config"]}
MCKeys == {{}, {"A"}}

VARIABLE part

NoCompose == /\ doc = NoServices /\ step = "submitted" /\ search = NoSearch
             /\ res = Refused({}) /\ run = Refused({})

PartsInit ==
    /\ part \in {"agent", "people", "manifests"}
    /\ AgentInit /\ AccessInit
    /\ IF part = "manifests" THEN ComposeInit ELSE NoCompose

PartsNext ==
    /\ UNCHANGED part
    /\ \/ part = "agent" /\ AgentNext /\ UNCHANGED <<accessVars, composeVars>>
       \/ part = "people" /\ AccessNext /\ UNCHANGED <<agentVars, composeVars>>
       \/ part = "manifests" /\ ComposeNext /\ UNCHANGED <<agentVars, accessVars>>

PartsSpec ==
    /\ PartsInit /\ [][PartsNext]_<<agentVars, accessVars, composeVars, part>>
    /\ AgentFairness

=============================================================================
