-------------------------------- MODULE Enrol --------------------------------
(***************************************************************************)
(* How a node joins an organization: the join token its agent is given, the *)
(* registration that spends it, the node token the agent gets in return and *)
(* keeps in a file, and the age key it makes on its first start.  The       *)
(* control plane hands the node token out once; it takes a node's first key *)
(* as the node's recipient and holds any later one pending until an         *)
(* operator promotes it.                                                    *)
(*                                                                         *)
(* An agent's registration is three steps: it starts and is authenticated   *)
(* (which spends the join token), its row is written, and it gets the       *)
(* answer.  The process may stop between any two, and its files may be lost *)
(* while it is stopped.  Keys are numbered in the order a host makes them;  *)
(* a node has one token for good, so 1 stands for it and 0 for none.        *)
(***************************************************************************)
EXTENDS Naturals, FiniteSets

CONSTANTS
    Host,         \* hostnames of the organization
    Steady,       \* those enrolled from the start whose agents never stop
    JoinToken,    \* node_join_tokens that may be created
    Uses,         \* max_uses of each
    MaxKeys,      \* bound: identities a host makes
    RequireJoin   \* COMPOSECTL_REQUIRE_JOIN_TOKEN

ASSUME EnrolAssumption ==
    /\ Steady \subseteq Host /\ IsFiniteSet(Host) /\ IsFiniteSet(JoinToken)
    /\ Uses \in [JoinToken -> Nat \ {0}] /\ MaxKeys \in Nat \ {0}
    /\ RequireJoin \in BOOLEAN

ServiceToken == "service"   \* the install's shared agent token
ASSUME ServiceAssumption == ServiceToken \notin JoinToken

VARIABLES
    jt,       \* node_join_tokens
    node,     \* nodes, by hostname
    agents,   \* the agent of each host: its process and its two files
    lost      \* history: hosts whose node token was handed out and is gone

enrolVars == <<jt, node, agents, lost>>

Key == 1..MaxKeys
NoToken == [st |-> "none", uses |-> 0, admitted |-> 0]
NoNode == [hash |-> 0, rec |-> 0, pend |-> 0]      \* no row: hash is set with it
Stopped == [pc |-> "down", cred |-> ServiceToken, held |-> 0, reply |-> 0]
Files == [key |-> 0, made |-> 0, file |-> 0]
AgentOf(process, files) ==
    [pc |-> process.pc, cred |-> process.cred, held |-> process.held,
     reply |-> process.reply, key |-> files.key, made |-> files.made,
     file |-> files.file]

EnrolInit ==
    /\ jt = [t \in JoinToken |-> NoToken]
    /\ node = [x \in Host |-> IF x \in Steady
                  THEN [hash |-> 1, rec |-> 1, pend |-> 0]
                  ELSE NoNode]
    /\ agents = [x \in Host |-> IF x \in Steady
                  THEN AgentOf([Stopped EXCEPT !.pc = "up", !.held = 1],
                             [key |-> 1, made |-> 1, file |-> 1])
                  ELSE AgentOf(Stopped, Files)]
    /\ lost = {}

-----------------------------------------------------------------------------
(* Join tokens.  Redeeming is one UPDATE: a token that exists, has not      *)
(* expired and has a use left.                                              *)

CreateJoinToken(t) ==
    /\ jt[t].st = "none"
    /\ jt' = [jt EXCEPT ![t].st = "live"]
    /\ UNCHANGED <<node, agents, lost>>

RevokeJoinToken(t) ==
    /\ jt[t].st \in {"live", "expired"}
    /\ jt' = [jt EXCEPT ![t].st = "deleted"]
    /\ UNCHANGED <<node, agents, lost>>

ExpireJoinToken(t) ==
    /\ jt[t].st = "live"
    /\ jt' = [jt EXCEPT ![t].st = "expired"]
    /\ UNCHANGED <<node, agents, lost>>

\* A slip: the use is counted and not limited.
RedeemableUnlimited(t) == jt[t].st = "live"

Redeemable(t) == jt[t].st = "live" /\ jt[t].uses < Uses[t]

-----------------------------------------------------------------------------
(* The agent's start and its registration.                                  *)

Exit(x) == [agents EXCEPT ![x] = AgentOf(Stopped, @)]

\* LoadOrGenerateIdentity: the key in the file, or a new one written to it.
\* The request is authenticated, which spends a join token before the
\* handler runs; a refused agent exits.
Start(x, c) ==
    /\ agents[x].pc = "down" /\ (agents[x].key # 0 \/ agents[x].made < MaxKeys)
    /\ LET ok == c = ServiceToken \/ Redeemable(c)
           made == IF agents[x].key = 0 THEN agents[x].made + 1 ELSE agents[x].made IN
       /\ agents' = [agents EXCEPT ![x].pc = IF ok THEN "admitted" ELSE "down",
                           ![x].cred = IF ok THEN c ELSE ServiceToken,
                           ![x].made = made,
                           ![x].key = IF @ = 0 THEN made ELSE @]
       /\ jt' = IF ok /\ c # ServiceToken THEN [jt EXCEPT ![c].uses = @ + 1] ELSE jt
    /\ UNCHANGED <<node, lost>>

\* The handler refuses a malformed body, an organization that is not the
\* join token's, or the shared token once join tokens are required.
RefuseRegistration(x) ==
    /\ agents[x].pc = "admitted" /\ agents' = Exit(x)
    /\ UNCHANGED <<jt, node, lost>>

enrolmentOrg(x) == agents[x].cred = ServiceToken => ~RequireJoin

Recipient(n, key) == IF n.rec = 0 THEN key ELSE n.rec

Pending(n, key) == IF n.rec \in {0, key} THEN 0 ELSE key

\* An agent of this version always advertises a key.
RegisterNode(x) ==
    /\ agents[x].pc = "admitted" /\ enrolmentOrg(x)
    /\ LET n == node[x]
           key == agents[x].key
           fresh == n.hash = 0 IN        \* COALESCE keeps the hash of a row
       /\ node' = [node EXCEPT ![x] = [hash |-> 1, rec |-> Recipient(n, key),
                                       pend |-> Pending(n, key)]]
       /\ agents' = [agents EXCEPT ![x].pc = "answered",
                           ![x].reply = IF fresh THEN 1 ELSE 0]
       /\ lost' = IF fresh THEN lost \cup {x} ELSE lost   \* until it is kept
    /\ jt' = IF agents[x].cred = ServiceToken THEN jt
             ELSE [jt EXCEPT ![agents[x].cred].admitted = @ + 1]

\* A slip: the token is used and not written to its file.
registerUnsaved(x) ==
    /\ agents[x].pc = "answered"
    /\ agents' = [agents EXCEPT ![x].pc = "up", ![x].reply = 0, ![x].cred = ServiceToken,
                  ![x].held = IF agents[x].reply # 0 THEN agents[x].reply ELSE agents[x].file]
    /\ lost' = IF agents[x].reply # 0 THEN lost \ {x} ELSE lost
    /\ UNCHANGED <<jt, node>>

\* register: a token in the answer is kept before it is used; without one
\* the saved token is used, and without that the credential of the start.
register(x) ==
    /\ agents[x].pc = "answered"
    /\ LET t == IF agents[x].reply # 0 THEN agents[x].reply ELSE agents[x].file IN
       /\ agents' = [agents EXCEPT ![x].pc = "up", ![x].reply = 0, ![x].file = t,
                           ![x].held = t, ![x].cred = ServiceToken]
       /\ lost' = IF agents[x].reply # 0 THEN lost \ {x} ELSE lost
    /\ UNCHANGED <<jt, node>>

\* The process stops, or its request, the answer or the write of the token
\* fails: Run returns, and the agent starts again from its files.
Stop(x) ==
    /\ x \notin Steady /\ agents[x].pc # "down" /\ agents' = Exit(x)
    /\ UNCHANGED <<jt, node, lost>>

\* The machine is rebuilt, or a file of it is gone.
LoseFiles(x) ==
    /\ x \notin Steady /\ agents[x].pc = "down"
    /\ \E key \in {0, agents[x].key}, file \in {0, agents[x].file} :
          /\ <<key, file>> # <<agents[x].key, agents[x].file>>
          /\ agents' = [agents EXCEPT ![x].key = key, ![x].file = file]
          /\ lost' = IF file # agents[x].file THEN lost \cup {x} ELSE lost
    /\ UNCHANGED <<jt, node>>

NodeTokenValid(x) ==
    agents[x].pc = "up" /\ agents[x].held # 0 /\ agents[x].held = node[x].hash

RotateNodeRecipient(x) ==
    /\ node[x].pend # 0
    /\ node' = [node EXCEPT ![x].rec = node[x].pend, ![x].pend = 0]
    /\ UNCHANGED <<jt, agents, lost>>

EnrolNext ==
    \/ \E t \in JoinToken :
          CreateJoinToken(t) \/ RevokeJoinToken(t) \/ ExpireJoinToken(t)
    \/ \E x \in Host :
          \/ \E c \in JoinToken \cup {ServiceToken} : Start(x, c)
          \/ RefuseRegistration(x) \/ RegisterNode(x) \/ register(x) \/ Stop(x) \/ LoseFiles(x)
          \/ RotateNodeRecipient(x)

EnrolSpec == EnrolInit /\ [][EnrolNext]_enrolVars

-----------------------------------------------------------------------------
(* An agent that is running holds its node's token, so the control plane    *)
(* hears it, unless the token was handed out and lost: the answer never     *)
(* arrived, or the file is gone.  Holds across restarts and registrations   *)
(* in any order, because the token is kept before it is used (register) and *)
(* a later registration leaves the hash alone (RegisterNode).               *)
HeardUnlessLost ==
    \A x \in Host : agents[x].pc = "up" => NodeTokenValid(x) \/ x \in lost

JoinLife(t) == CASE t.st = "none" -> "unissued"
             [] t.st = "live" -> "open"
             [] OTHER -> "closed"

JoinTicket == INSTANCE Ticket WITH
    Tickets <- JoinToken,
    life <- [t \in JoinToken |-> JoinLife(jt[t])],
    used <- [t \in JoinToken |-> jt[t].uses],
    admitted <- [t \in JoinToken |-> jt[t].admitted]

(* Join tokens are tickets: one lets in no more registrations than it was   *)
(* given uses, however they overlap, and none that was not authenticated    *)
(* while it was open; revoking it does not undo what it let in.             *)
JoinTokensAreTickets == JoinTicket!TicketSpec

=============================================================================
