------------------------------- MODULE Secrets -------------------------------
(***************************************************************************)
(* Sealed secrets: one key of one environment, sealed by the control plane  *)
(* to the age recipients of nodes and opened by the agents that run the     *)
(* environment.  Setting it reads the recipients in up to three queries and *)
(* stores the ciphertext in a transaction of its own, with enrolment, key   *)
(* rotation, placement and drains between.  A ciphertext is the set of keys *)
(* it is sealed to, a key the host that made it and its number.             *)
(***************************************************************************)
EXTENDS Enrol, Sequences

CONSTANTS MaxVersion     \* bound: versions of the secret

ASSUME SecretsAssumption == MaxVersion \in Nat \ {0}

VARIABLES
    home,      \* environments.home_node_id: at most one host
    active,    \* hosts with instances of its active deployments
    sec,       \* rows of secrets, oldest first: version, sealed to
    w,         \* the handler setting the secret
    approved,  \* history: keys that were a node's first, or promoted
    settled    \* history: see Settle

envVars == <<home, active, sec, w>>
secretsVars == <<enrolVars, envVars, approved, settled>>

Quiet == [pc |-> "idle", to |-> {}, settled |-> FALSE]

Recipients(S) == {<<x, node[x].rec>> : x \in {y \in S : node[y].rec # 0}}
Newest == sec[Len(sec)]
Version == IF sec = << >> THEN 0 ELSE Newest.v

SecretsInit ==
    /\ EnrolInit
    /\ home = {} /\ active = {} /\ sec = << >> /\ w = Quiet
    /\ approved = Recipients(Host) /\ settled = FALSE

-----------------------------------------------------------------------------
(* What the histories say of a step.  A ciphertext is settled while the     *)
(* home it was sealed to and the key of the agent there are those of the    *)
(* moment its recipients were read.                                         *)

HomeKey == {<<x, agents[x].key>> : x \in home}
Settle(b) == b /\ home' = home /\ HomeKey' = HomeKey

\* A node's first key, and one that was pending when it became effective.
Histories ==
    approved' = approved \cup
        {r \in Recipients(Host)' : node[r[1]].rec = 0 \/ node[r[1]].pend = r[2]}

\* Steps of enrolment, and of the environment other than of its handlers.
Others == UNCHANGED sec /\ w' = [w EXCEPT !.settled = Settle(@)]
Keeps == settled' = Settle(settled) /\ Histories

Enrolment == EnrolNext /\ UNCHANGED <<home, active>> /\ Others /\ Keeps

-----------------------------------------------------------------------------
(* Placement, as far as it changes who must open the secret: a deployment   *)
(* goes to the environment's home and makes the first node its home; a      *)
(* drain releases it; instances of ended deployments leave.                 *)

PlaceDeployment(x) ==
    /\ node[x].hash # 0 /\ home \in {{}, {x}}
    /\ home' = {x} /\ active' = active \cup {x}
    /\ UNCHANGED enrolVars /\ Others /\ Keeps

ReleaseEnvironmentHome ==
    /\ home # {} /\ home' = {}
    /\ UNCHANGED <<enrolVars, active>> /\ Others /\ Keeps

EndDeployments(x) ==
    /\ x \in active /\ active' = active \ {x}
    /\ UNCHANGED <<enrolVars, home>> /\ Others /\ Keeps

-----------------------------------------------------------------------------
(* handleSetSecret: RecipientsForEnvironment, narrowest first, then Encrypt *)
(* and SetSecret.                                                           *)

SetStep(handler) == w' = handler /\ UNCHANGED <<enrolVars, home, active>>
Sealing(S, b) == [pc |-> "store", to |-> S, settled |-> b]

\* A slip: the key the home's agent last advertised, approved or not.
homeRecipientAdvertised ==
    {<<x, IF node[x].pend # 0 THEN node[x].pend ELSE node[x].rec>> :
        x \in {y \in home : node[y].rec # 0}}
homeRecipient == Recipients(home)

ReadHome ==
    /\ w.pc = "idle" /\ Version < MaxVersion
    /\ SetStep(IF homeRecipient # {} THEN Sealing(homeRecipient, homeRecipient = HomeKey)
               ELSE [Quiet EXCEPT !.pc = "running"])
    /\ UNCHANGED sec /\ Keeps

ReadRunning ==
    /\ w.pc = "running"
    /\ SetStep(IF Recipients(active) # {} THEN Sealing(Recipients(active), FALSE)
               ELSE [Quiet EXCEPT !.pc = "ready"])
    /\ UNCHANGED sec /\ Keeps

\* ListReadyNodes: any of the nodes may be draining or not heard from.
ReadReady ==
    /\ w.pc = "ready"
    /\ \E S \in SUBSET Host :
          SetStep(IF Recipients(S) # {} THEN Sealing(Recipients(S), FALSE) ELSE Quiet)
    /\ UNCHANGED sec /\ Keeps

SetSecret ==
    /\ w.pc = "store"
    /\ sec' = Append(sec, [v |-> Version + 1, to |-> w.to])
    /\ settled' = w.settled /\ SetStep(Quiet) /\ Histories

DeleteSecret ==
    /\ sec # << >> /\ sec' = << >> /\ settled' = FALSE
    /\ UNCHANGED <<enrolVars, home, active, w>> /\ Histories

\* A slip: the retention window alone decides.
SupersededOrNewest(i) == i <= Len(sec)
Superseded(i) == i < Len(sec)

\* Versions older than the retention window, but the newest.
PruneSecretVersions ==
    /\ \E i \in DOMAIN sec :
          Superseded(i) /\ sec' = SubSeq(sec, i + 1, Len(sec))
    /\ UNCHANGED <<enrolVars, home, active, w>> /\ Keeps

\* EncryptedSecretsForNode, and the agent's Decrypt: the newest version.
Opens(x, to) == <<x, agents[x].key>> \in to
EncryptedSecretsForNode(x) == IF x \in active /\ sec # << >> THEN Newest.to ELSE {}

SecretsNext ==
    \/ Enrolment
    \/ \E x \in Host : PlaceDeployment(x) \/ EndDeployments(x)
    \/ ReleaseEnvironmentHome
    \/ ReadHome \/ ReadRunning \/ ReadReady \/ SetSecret
    \/ DeleteSecret \/ PruneSecretVersions

SecretsSpec == SecretsInit /\ [][SecretsNext]_secretsVars

-----------------------------------------------------------------------------
(* No version of the secret is sealed to a key nobody approved: an agent    *)
(* that registers again with another key proposes it, and until an operator *)
(* promotes it RecipientsForEnvironment does not see it, whichever of the   *)
(* three queries answers and whatever happens between it and SetSecret.     *)
NeverUnapproved == \A i \in DOMAIN sec : sec[i].to \subseteq approved

(* The secret set for an environment with a home is there, and the agent of *)
(* its home opens it, for as long as the home and that agent's key are what *)
(* they were when handleSetSecret read the recipients: registrations,       *)
(* rotations and pruning between the read and the store, or later, do not   *)
(* take it away.                                                            *)
OpenableAtHome ==
    settled => sec # << >> /\ \A x \in home :
                   /\ Opens(x, Newest.to)
                   /\ x \in active => Opens(x, EncryptedSecretsForNode(x))

=============================================================================
