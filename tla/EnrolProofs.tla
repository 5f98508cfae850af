---------------------------- MODULE EnrolProofs ----------------------------
(***************************************************************************)
(* Proofs about Enrol and Secrets, which extends it, for any hosts, tokens *)
(* and numbers of uses, keys and versions.                                 *)
(***************************************************************************)
EXTENDS Secrets, FiniteSetTheorems, SequenceTheorems, TLAPS

TokenRow == [st : {"none", "live", "expired", "deleted"}, uses : Nat, admitted : Nat]
NodeRow == [hash : {0, 1}, rec : Nat, pend : Nat]
AgentState == [pc : {"down", "admitted", "answered", "up"}, cred : JoinToken \cup {ServiceToken},
               held : {0, 1}, reply : {0, 1}, key : Nat, made : Nat, file : {0, 1}]

EnrolTypeOK ==
    /\ jt \in [JoinToken -> TokenRow]
    /\ node \in [Host -> NodeRow]
    /\ agents \in [Host -> AgentState]
    /\ lost \subseteq Host

(* Registrations that have spent the token and are not yet written.        *)
InFlight(t) == {x \in Host : agents[x].pc = "admitted" /\ agents[x].cred = t}

(* What a token was spent for has come about, may still or never will.     *)
UsesCover == \A t \in JoinToken : jt[t].admitted + Cardinality(InFlight(t)) <= jt[t].uses

(* A host that was answered has a row; the token handed out for it is in   *)
(* its file, or counted lost.                                              *)
TokenKept ==
    \A x \in Host :
       /\ agents[x].pc \in {"answered", "up"} => node[x].hash = 1
       /\ node[x].hash = 1 => agents[x].file = 1 \/ x \in lost
       /\ agents[x].pc = "up" => agents[x].held = 1 \/ x \in lost

EnrolInvariant == EnrolTypeOK /\ UsesCover /\ TokenKept

----------------------------------------------------------------------------
(* What each action does to the row, the process and the files it touches  *)

(* A host's agent is another one, the others are as they were.             *)
OnlyAgent(x) ==
    /\ agents' \in [Host -> AgentState]
    /\ \A y \in Host \ {x} : agents'[y] = agents[y]

(* Run returns: the process is gone, the files stay.                       *)
LEMMA ExitEffects ==
    ASSUME EnrolTypeOK, NEW x \in Host, agents' = Exit(x)
    PROVE  /\ OnlyAgent(x) /\ agents'[x].pc = "down" /\ agents'[x].file = agents[x].file
           /\ agents'[x].cred = ServiceToken
<1> DEFINE r == AgentOf(Stopped, agents[x])
<1>1. agents[x] \in AgentState /\ agents \in [Host -> AgentState]
  BY DEF EnrolTypeOK
<1>2. /\ r.pc = "down" /\ r.cred = ServiceToken /\ r.held = 0 /\ r.reply = 0
      /\ r.key = agents[x].key /\ r.made = agents[x].made /\ r.file = agents[x].file
  BY DEF AgentOf, Stopped
<1>3. r \in AgentState
  BY <1>1 DEF AgentOf, Stopped, AgentState
<1>4. agents' = [agents EXCEPT ![x] = r]
  BY DEF Exit
<1> HIDE DEF r
<1>5. QED
  BY <1>1, <1>2, <1>3, <1>4 DEF OnlyAgent

(* A start makes a key if there is none, and is admitted, by the shared    *)
(* token or by spending one use of a join token, or exits.                 *)
LEMMA StartEffects ==
    ASSUME EnrolTypeOK, NEW x \in Host, NEW c \in JoinToken \cup {ServiceToken}, Start(x, c)
    PROVE  /\ OnlyAgent(x) /\ agents[x].pc = "down" /\ agents'[x].file = agents[x].file
           /\ UNCHANGED <<node, lost>>
           /\ \/ agents'[x].pc = "down" /\ jt' = jt
              \/ agents'[x].pc = "admitted" /\ agents'[x].cred = ServiceToken /\ c = ServiceToken /\ jt' = jt
              \/ /\ agents'[x].pc = "admitted" /\ agents'[x].cred = c /\ c \in JoinToken
                 /\ Redeemable(c) /\ jt' = [jt EXCEPT ![c].uses = @ + 1]
<1> DEFINE ok == c = ServiceToken \/ Redeemable(c)
           made == IF agents[x].key = 0 THEN agents[x].made + 1 ELSE agents[x].made
           key == IF agents[x].key = 0 THEN made ELSE agents[x].key
           pc == IF ok THEN "admitted" ELSE "down"
           cred == IF ok THEN c ELSE ServiceToken
<1>1. agents[x] \in AgentState /\ agents \in [Host -> AgentState]
  BY DEF EnrolTypeOK
<1>2. /\ made \in Nat /\ key \in Nat /\ pc \in {"down", "admitted"}
      /\ cred \in JoinToken \cup {ServiceToken}
  BY <1>1 DEF AgentState
<1>3. agents' = [agents EXCEPT ![x].pc = pc, ![x].cred = cred, ![x].made = made, ![x].key = key]
  BY <1>1 DEF Start
<1>4. /\ agents[x].pc = "down" /\ UNCHANGED <<node, lost>>
      /\ jt' = IF ok /\ c # ServiceToken THEN [jt EXCEPT ![c].uses = @ + 1] ELSE jt
  BY DEF Start
<1>5. OnlyAgent(x) /\ agents'[x].pc = pc /\ agents'[x].cred = cred /\ agents'[x].file = agents[x].file
  <2> HIDE DEF pc, cred, made, key
  <2>1. QED
    BY <1>1, <1>2, <1>3, Zenon DEF OnlyAgent, AgentState
<1>6. QED
  BY <1>4, <1>5

(* The upsert of a node: a row keeps its hash, a new one gets one, which   *)
(* only this answer carries.                                               *)
LEMMA RegisterNodeEffects ==
    ASSUME EnrolTypeOK, NEW x \in Host, RegisterNode(x)
    PROVE  /\ OnlyAgent(x) /\ agents[x].pc = "admitted" /\ agents'[x].pc = "answered"
           /\ agents'[x].file = agents[x].file
           /\ agents'[x].reply = IF node[x].hash = 0 THEN 1 ELSE 0
           /\ node' \in [Host -> NodeRow] /\ node'[x].hash = 1
           /\ \A y \in Host \ {x} : node'[y] = node[y]
           /\ lost' = IF node[x].hash = 0 THEN lost \cup {x} ELSE lost
           /\ jt' = IF agents[x].cred = ServiceToken THEN jt ELSE [jt EXCEPT ![agents[x].cred].admitted = @ + 1]
<1> DEFINE reply == IF node[x].hash = 0 THEN 1 ELSE 0
           row == [hash |-> 1, rec |-> Recipient(node[x], agents[x].key),
                   pend |-> Pending(node[x], agents[x].key)]
<1>1. agents[x] \in AgentState /\ agents \in [Host -> AgentState] /\ node[x] \in NodeRow
      /\ node \in [Host -> NodeRow]
  BY DEF EnrolTypeOK
<1>2. row \in NodeRow /\ row.hash = 1 /\ reply \in {0, 1}
  BY <1>1 DEF NodeRow, AgentState, Recipient, Pending
<1>3. /\ agents[x].pc = "admitted"
      /\ agents' = [agents EXCEPT ![x].pc = "answered", ![x].reply = reply]
      /\ node' = [node EXCEPT ![x] = row]
      /\ lost' = IF node[x].hash = 0 THEN lost \cup {x} ELSE lost
      /\ jt' = IF agents[x].cred = ServiceToken THEN jt ELSE [jt EXCEPT ![agents[x].cred].admitted = @ + 1]
  BY DEF RegisterNode
<1>4. OnlyAgent(x) /\ agents'[x].pc = "answered" /\ agents'[x].reply = reply /\ agents'[x].file = agents[x].file
  <2> HIDE DEF reply, row
  <2>1. QED
    BY <1>1, <1>2, <1>3, Zenon DEF OnlyAgent, AgentState
<1>5. /\ node' \in [Host -> NodeRow] /\ node'[x].hash = 1
      /\ \A y \in Host \ {x} : node'[y] = node[y]
  <2> HIDE DEF reply, row
  <2>1. QED
    BY <1>1, <1>2, <1>3
<1>6. QED
  BY <1>3, <1>4, <1>5

(* The agent takes its answer: a token in it is written before it is used. *)
LEMMA registerEffects ==
    ASSUME EnrolTypeOK, NEW x \in Host, register(x)
    PROVE  /\ OnlyAgent(x) /\ agents[x].pc = "answered" /\ agents'[x].pc = "up"
           /\ agents'[x].file = IF agents[x].reply # 0 THEN 1 ELSE agents[x].file
           /\ agents'[x].held = agents'[x].file
           /\ lost' = IF agents[x].reply # 0 THEN lost \ {x} ELSE lost
           /\ UNCHANGED <<jt, node>>
<1> DEFINE t == IF agents[x].reply # 0 THEN agents[x].reply ELSE agents[x].file
<1>1. agents[x] \in AgentState /\ agents \in [Host -> AgentState]
  BY DEF EnrolTypeOK
<1>2. t \in {0, 1} /\ t = (IF agents[x].reply # 0 THEN 1 ELSE agents[x].file)
  BY <1>1 DEF AgentState
<1>3. /\ agents[x].pc = "answered"
      /\ agents' = [agents EXCEPT ![x].pc = "up", ![x].reply = 0, ![x].file = t,
                          ![x].held = t, ![x].cred = ServiceToken]
      /\ lost' = IF agents[x].reply # 0 THEN lost \ {x} ELSE lost
      /\ UNCHANGED <<jt, node>>
  BY DEF register
<1>4. OnlyAgent(x) /\ agents'[x].pc = "up" /\ agents'[x].file = t /\ agents'[x].held = t
  <2> HIDE DEF t
  <2>1. QED
    BY <1>1, <1>2, <1>3, Zenon DEF OnlyAgent, AgentState
<1>5. QED
  BY <1>2, <1>3, <1>4

(* A machine that lost its token file counts as lost.                      *)
LEMMA LoseFilesEffects ==
    ASSUME EnrolTypeOK, NEW x \in Host, LoseFiles(x)
    PROVE  /\ OnlyAgent(x) /\ agents[x].pc = "down" /\ agents'[x].pc = "down"
           /\ \/ agents'[x].file = agents[x].file /\ lost' = lost
              \/ lost' = lost \cup {x}
           /\ UNCHANGED <<jt, node>>
<1>1. agents[x] \in AgentState /\ agents \in [Host -> AgentState]
  BY DEF EnrolTypeOK
<1>2. PICK key \in {0, agents[x].key}, file \in {0, agents[x].file} :
         /\ agents' = [agents EXCEPT ![x].key = key, ![x].file = file]
         /\ lost' = IF file # agents[x].file THEN lost \cup {x} ELSE lost
  BY Zenon DEF LoseFiles
<1>3. agents[x].pc = "down" /\ UNCHANGED <<jt, node>>
  BY DEF LoseFiles
<1>4. key \in Nat /\ file \in {0, 1}
  BY <1>1 DEF AgentState
<1>5. [[agents[x] EXCEPT !.key = key] EXCEPT !.file = file] \in AgentState
  BY <1>1, <1>4, Zenon DEF AgentState
<1>6. agents' = [agents EXCEPT ![x] = [[agents[x] EXCEPT !.key = key] EXCEPT !.file = file]]
  BY <1>1, <1>2, Zenon
<1>7. OnlyAgent(x)
  BY <1>1, <1>5, <1>6 DEF OnlyAgent
<1>8. agents'[x].pc = agents[x].pc /\ agents'[x].file = file
  BY <1>1, <1>6 DEF AgentState
<1>9. QED
  BY <1>2, <1>3, <1>7, <1>8

(* The three statements on node_join_tokens move its state, and CreateJoin *)
(* Token, Redeem and RegisterNode change one column of one row each.       *)
LEMMA TokenEffects ==
    ASSUME EnrolTypeOK, NEW t \in JoinToken
    PROVE  /\ \A st \in {"live", "expired", "deleted"} : jt' = [jt EXCEPT ![t].st = st] =>
                 /\ jt' \in [JoinToken -> TokenRow] /\ jt'[t].st = st
                 /\ jt'[t].uses = jt[t].uses /\ jt'[t].admitted = jt[t].admitted
                 /\ \A u \in JoinToken \ {t} : jt'[u] = jt[u]
           /\ jt' = [jt EXCEPT ![t].uses = @ + 1] =>
                 /\ jt' \in [JoinToken -> TokenRow] /\ jt'[t].st = jt[t].st
                 /\ jt'[t].uses = jt[t].uses + 1 /\ jt'[t].admitted = jt[t].admitted
                 /\ \A u \in JoinToken \ {t} : jt'[u] = jt[u]
           /\ jt' = [jt EXCEPT ![t].admitted = @ + 1] =>
                 /\ jt' \in [JoinToken -> TokenRow] /\ jt'[t].st = jt[t].st
                 /\ jt'[t].uses = jt[t].uses /\ jt'[t].admitted = jt[t].admitted + 1
                 /\ \A u \in JoinToken \ {t} : jt'[u] = jt[u]
<1>1. jt \in [JoinToken -> TokenRow] /\ jt[t] \in TokenRow
  BY DEF EnrolTypeOK
<1>2. ASSUME NEW st \in {"live", "expired", "deleted"}, jt' = [jt EXCEPT ![t].st = st]
      PROVE  /\ jt' \in [JoinToken -> TokenRow] /\ jt'[t].st = st
             /\ jt'[t].uses = jt[t].uses /\ jt'[t].admitted = jt[t].admitted
             /\ \A u \in JoinToken \ {t} : jt'[u] = jt[u]
  BY <1>1, <1>2 DEF TokenRow
<1>3. ASSUME jt' = [jt EXCEPT ![t].uses = @ + 1]
      PROVE  /\ jt' \in [JoinToken -> TokenRow] /\ jt'[t].st = jt[t].st
             /\ jt'[t].uses = jt[t].uses + 1 /\ jt'[t].admitted = jt[t].admitted
             /\ \A u \in JoinToken \ {t} : jt'[u] = jt[u]
  <2>1. jt[t].uses + 1 \in Nat
    BY <1>1 DEF TokenRow
  <2>2. QED
    BY <1>1, <1>3, <2>1 DEF TokenRow
<1>4. ASSUME jt' = [jt EXCEPT ![t].admitted = @ + 1]
      PROVE  /\ jt' \in [JoinToken -> TokenRow] /\ jt'[t].st = jt[t].st
             /\ jt'[t].uses = jt[t].uses /\ jt'[t].admitted = jt[t].admitted + 1
             /\ \A u \in JoinToken \ {t} : jt'[u] = jt[u]
  <2>1. jt[t].admitted + 1 \in Nat
    BY <1>1 DEF TokenRow
  <2>2. QED
    BY <1>1, <1>4, <2>1 DEF TokenRow
<1>5. QED
  BY <1>2, <1>3, <1>4

(* One host's agent moves: by how much the registrations in flight change. *)
LEMMA FlightCount ==
    ASSUME NEW t, NEW x \in Host, \A y \in Host \ {x} : agents'[y] = agents[y]
    PROVE  /\ Cardinality(InFlight(t)) \in Nat
           /\ agents[x].pc = "admitted" /\ agents[x].cred = t => Cardinality(InFlight(t)) >= 1
           /\ Cardinality(InFlight(t))' =
                 Cardinality(InFlight(t))
                   + (IF agents'[x].pc = "admitted" /\ agents'[x].cred = t THEN 1 ELSE 0)
                   - (IF agents[x].pc = "admitted" /\ agents[x].cred = t THEN 1 ELSE 0)
<1> DEFINE before == {y \in Host : agents[y].pc = "admitted" /\ agents[y].cred = t}
           after == {y \in Host : agents'[y].pc = "admitted" /\ agents'[y].cred = t}
           rest == before \ {x}
<1>1. IsFiniteSet(before) /\ IsFiniteSet(after)
  <2>1. before \in SUBSET Host /\ after \in SUBSET Host /\ IsFiniteSet(Host)
    BY EnrolAssumption DEF EnrolAssumption
  <2> HIDE DEF before, after
  <2>2. QED
    BY <2>1, FS_Subset
<1>2. after \ {x} = rest
  OBVIOUS
<1>3. /\ x \in before <=> agents[x].pc = "admitted" /\ agents[x].cred = t
      /\ x \in after <=> agents'[x].pc = "admitted" /\ agents'[x].cred = t
  OBVIOUS
<1> HIDE DEF before, after, rest
<1>4. /\ Cardinality(before) \in Nat /\ Cardinality(after) \in Nat
      /\ Cardinality(before \ {x}) = IF x \in before THEN Cardinality(before) - 1 ELSE Cardinality(before)
      /\ Cardinality(after \ {x}) = IF x \in after THEN Cardinality(after) - 1 ELSE Cardinality(after)
      /\ Cardinality(before \ {x}) \in Nat
  <2>1. IsFiniteSet(before \ {x})
    BY <1>1, FS_RemoveElement
  <2>2. QED
    BY <1>1, <2>1, FS_RemoveElement, FS_CardinalityType
<1>5. Cardinality(before \ {x}) = Cardinality(after \ {x})
  BY <1>2 DEF rest
<1>6. InFlight(t) = before /\ InFlight(t)' = after
  BY DEF InFlight, before, after
<1>7. Cardinality(InFlight(t))' = Cardinality(after)
  BY <1>6
<1>8. QED
  BY <1>3, <1>4, <1>5, <1>6, <1>7

----------------------------------------------------------------------------
(* The inductive invariant                                                 *)

(* No host is enrolled, or those that are hold their token.                *)
LEMMA EnrolInitInvariant == EnrolInit => EnrolInvariant
<1> SUFFICES ASSUME EnrolInit PROVE EnrolInvariant
  OBVIOUS
<1>1. \A x \in Host : /\ agents[x] \in AgentState /\ node[x] \in NodeRow
                      /\ agents[x].pc # "admitted" /\ agents[x].pc # "answered"
                      /\ node[x].hash = 1 => agents[x].file = 1
                      /\ agents[x].pc = "up" => agents[x].held = 1 /\ node[x].hash = 1
  <2> TAKE x \in Host
  <2>1. CASE x \in Steady
    <3>1. node[x] = [hash |-> 1, rec |-> 1, pend |-> 0]
      BY <2>1 DEF EnrolInit
    <3>2. agents[x] = [pc |-> "up", cred |-> ServiceToken, held |-> 1, reply |-> 0,
                   key |-> 1, made |-> 1, file |-> 1]
      BY <2>1 DEF EnrolInit, AgentOf, Stopped
    <3>3. QED
      BY <3>1, <3>2 DEF AgentState, NodeRow
  <2>2. CASE x \notin Steady
    <3>1. node[x] = [hash |-> 0, rec |-> 0, pend |-> 0]
      BY <2>2 DEF EnrolInit, NoNode
    <3>2. agents[x] = [pc |-> "down", cred |-> ServiceToken, held |-> 0, reply |-> 0,
                   key |-> 0, made |-> 0, file |-> 0]
      BY <2>2 DEF EnrolInit, AgentOf, Stopped, Files
    <3>3. QED
      BY <3>1, <3>2 DEF AgentState, NodeRow
  <2>3. QED
    BY <2>1, <2>2
<1>2. EnrolTypeOK
  <2>1. jt \in [JoinToken -> TokenRow]
    BY DEF EnrolInit, NoToken, TokenRow
  <2>2. agents \in [Host -> AgentState] /\ node \in [Host -> NodeRow] /\ lost \subseteq Host
    BY <1>1 DEF EnrolInit
  <2>3. QED
    BY <2>1, <2>2 DEF EnrolTypeOK
<1>3. \A t \in JoinToken : InFlight(t) = {} /\ jt[t].admitted = 0 /\ jt[t].uses = 0
  BY <1>1 DEF InFlight, EnrolInit, NoToken
<1>4. UsesCover
  <2>1. \A t \in JoinToken : Cardinality(InFlight(t)) = 0
    BY <1>3, FS_EmptySet, Zenon
  <2>2. QED
    BY <1>3, <2>1 DEF UsesCover
<1>5. TokenKept
  BY <1>1 DEF TokenKept
<1>6. QED
  BY <1>2, <1>4, <1>5 DEF EnrolInvariant

(* A token's row moves as a ticket does.                                   *)
TokenMoves(t) ==
    \/ jt'[t] = jt[t]
    \/ /\ jt'[t].uses = jt[t].uses /\ jt'[t].admitted = jt[t].admitted
       /\ \/ jt[t].st = "none" /\ jt'[t].st = "live"
          \/ jt[t].st \in {"live", "expired"} /\ jt'[t].st \in {"expired", "deleted"}
    \/ /\ jt'[t].st = jt[t].st /\ Redeemable(t)
       /\ jt'[t].uses = jt[t].uses + 1 /\ jt'[t].admitted = jt[t].admitted
    \/ /\ jt'[t].st = jt[t].st /\ jt[t].admitted < jt[t].uses
       /\ jt'[t].uses = jt[t].uses /\ jt'[t].admitted = jt[t].admitted + 1

(* A step that leaves the agents' credentials alone moves no registration. *)
LEMMA SameFlight ==
    ASSUME agents' = agents
    PROVE  \A t : Cardinality(InFlight(t))' = Cardinality(InFlight(t))
BY DEF InFlight

(* Creating, revoking and expiring a token.                                *)
LEMMA TokenStep ==
    ASSUME EnrolInvariant, NEW t \in JoinToken,
           CreateJoinToken(t) \/ RevokeJoinToken(t) \/ ExpireJoinToken(t)
    PROVE  EnrolInvariant' /\ \A u \in JoinToken : TokenMoves(u)
<1>1. EnrolTypeOK /\ UsesCover /\ TokenKept
  BY DEF EnrolInvariant
<1>2. UNCHANGED <<node, agents, lost>>
  BY DEF CreateJoinToken, RevokeJoinToken, ExpireJoinToken
<1>3. PICK st \in {"live", "expired", "deleted"} :
         /\ jt' = [jt EXCEPT ![t].st = st]
         /\ \/ jt[t].st = "none" /\ st = "live"
            \/ jt[t].st \in {"live", "expired"} /\ st \in {"expired", "deleted"}
  BY DEF CreateJoinToken, RevokeJoinToken, ExpireJoinToken
<1>4. /\ jt' \in [JoinToken -> TokenRow] /\ jt'[t].st = st
      /\ jt'[t].uses = jt[t].uses /\ jt'[t].admitted = jt[t].admitted
      /\ \A u \in JoinToken \ {t} : jt'[u] = jt[u]
  BY <1>1, <1>3, TokenEffects, Zenon
<1>5. \A u \in JoinToken : TokenMoves(u)
  BY <1>3, <1>4 DEF TokenMoves
<1>6. EnrolTypeOK'
  BY <1>1, <1>2, <1>4 DEF EnrolTypeOK
<1>7. UsesCover'
  BY <1>1, <1>2, <1>4, SameFlight DEF UsesCover
<1>8. TokenKept'
  BY <1>1, <1>2 DEF TokenKept
<1>9. QED
  BY <1>5, <1>6, <1>7, <1>8 DEF EnrolInvariant

(* A step of one host that spends no token and writes no registration: the *)
(* agent exits, takes its answer, loses its files or is refused at once.   *)
LEMMA QuietStep ==
    ASSUME EnrolInvariant, NEW x \in Host, OnlyAgent(x), UNCHANGED <<jt, node>>,
           lost' \subseteq Host, \A y \in Host \ {x} : y \in lost <=> y \in lost',
           \/ agents'[x].pc # "admitted"
           \/ agents'[x].cred \notin JoinToken,
           agents'[x].pc \in {"answered", "up"} => node[x].hash = 1,
           node[x].hash = 1 => agents'[x].file = 1 \/ x \in lost',
           agents'[x].pc = "up" => agents'[x].held = 1 \/ x \in lost'
    PROVE  EnrolInvariant' /\ \A u \in JoinToken : TokenMoves(u)
<1>1. EnrolTypeOK /\ UsesCover /\ TokenKept
  BY DEF EnrolInvariant
<1>2. EnrolTypeOK'
  BY <1>1 DEF EnrolTypeOK, OnlyAgent
<1>3. UsesCover'
  <2> SUFFICES ASSUME NEW t \in JoinToken
               PROVE  jt[t].admitted + Cardinality(InFlight(t))' <= jt[t].uses
    BY DEF UsesCover
  <2>1. /\ Cardinality(InFlight(t)) \in Nat
        /\ Cardinality(InFlight(t))' \in {Cardinality(InFlight(t)), Cardinality(InFlight(t)) - 1}
    BY FlightCount DEF OnlyAgent
  <2>2. jt[t].admitted \in Nat /\ jt[t].uses \in Nat
    BY <1>1 DEF EnrolTypeOK, TokenRow
  <2>3. jt[t].admitted + Cardinality(InFlight(t)) <= jt[t].uses
    BY <1>1 DEF UsesCover
  <2>4. QED
    BY <2>1, <2>2, <2>3
<1>4. TokenKept'
  <2> SUFFICES ASSUME NEW y \in Host
               PROVE  /\ agents'[y].pc \in {"answered", "up"} => node[y].hash = 1
                      /\ node[y].hash = 1 => agents'[y].file = 1 \/ y \in lost'
                      /\ agents'[y].pc = "up" => agents'[y].held = 1 \/ y \in lost'
    BY DEF TokenKept
  <2>1. CASE y = x
    BY <2>1
  <2>2. CASE y # x
    BY <1>1, <2>2 DEF TokenKept, OnlyAgent
  <2>3. QED
    BY <2>1, <2>2
<1>5. QED
  BY <1>2, <1>3, <1>4 DEF EnrolInvariant, TokenMoves

(* An agent starts and is authenticated; redeeming is the one UPDATE.      *)
LEMMA StartStep ==
    ASSUME EnrolInvariant, NEW x \in Host, NEW c \in JoinToken \cup {ServiceToken}, Start(x, c)
    PROVE  EnrolInvariant' /\ \A u \in JoinToken : TokenMoves(u)
<1>1. EnrolTypeOK /\ UsesCover /\ TokenKept
  BY DEF EnrolInvariant
<1>2. /\ OnlyAgent(x) /\ agents[x].pc = "down" /\ agents'[x].file = agents[x].file
      /\ UNCHANGED <<node, lost>> /\ agents'[x].pc \in {"down", "admitted"}
      /\ \/ agents'[x].pc = "down" /\ jt' = jt
         \/ agents'[x].pc = "admitted" /\ agents'[x].cred = ServiceToken /\ c = ServiceToken /\ jt' = jt
         \/ /\ agents'[x].pc = "admitted" /\ agents'[x].cred = c /\ c \in JoinToken
            /\ Redeemable(c) /\ jt' = [jt EXCEPT ![c].uses = @ + 1]
  BY <1>1, StartEffects
<1>3. node[x].hash = 1 => agents'[x].file = 1 \/ x \in lost
  BY <1>1, <1>2 DEF TokenKept
<1>4. lost \subseteq Host
  BY <1>1 DEF EnrolTypeOK
<1>5. CASE jt' = jt /\ (agents'[x].pc = "down" \/ agents'[x].cred \notin JoinToken)
  BY <1>2, <1>3, <1>4, <1>5, QuietStep
<1>6. CASE /\ agents'[x].pc = "admitted" /\ agents'[x].cred = c /\ c \in JoinToken
           /\ Redeemable(c) /\ jt' = [jt EXCEPT ![c].uses = @ + 1]
  <2>1. /\ jt' \in [JoinToken -> TokenRow] /\ jt'[c].st = jt[c].st
        /\ jt'[c].uses = jt[c].uses + 1 /\ jt'[c].admitted = jt[c].admitted
        /\ \A u \in JoinToken \ {c} : jt'[u] = jt[u]
    BY <1>1, <1>6, TokenEffects, Zenon
  <2>2. \A u \in JoinToken : TokenMoves(u)
    BY <1>6, <2>1 DEF TokenMoves
  <2>3. EnrolTypeOK'
    BY <1>1, <1>2, <2>1 DEF EnrolTypeOK, OnlyAgent
  <2>4. UsesCover'
    <3> SUFFICES ASSUME NEW t \in JoinToken
                 PROVE  jt'[t].admitted + Cardinality(InFlight(t))' <= jt'[t].uses
      BY DEF UsesCover
    <3>1. /\ Cardinality(InFlight(t)) \in Nat
          /\ Cardinality(InFlight(t))' = Cardinality(InFlight(t)) + (IF c = t THEN 1 ELSE 0)
      BY <1>2, <1>6, FlightCount DEF OnlyAgent
    <3>2. jt[t].admitted \in Nat /\ jt[t].uses \in Nat
      BY <1>1 DEF EnrolTypeOK, TokenRow
    <3>3. jt[t].admitted + Cardinality(InFlight(t)) <= jt[t].uses
      BY <1>1 DEF UsesCover
    <3>4. jt'[t].admitted = jt[t].admitted /\ jt'[t].uses = jt[t].uses + (IF c = t THEN 1 ELSE 0)
      BY <2>1, <3>2
    <3>5. QED
      BY <3>1, <3>2, <3>3, <3>4
  <2>5. TokenKept'
    <3> SUFFICES ASSUME NEW y \in Host
                 PROVE  /\ agents'[y].pc \in {"answered", "up"} => node[y].hash = 1
                        /\ node[y].hash = 1 => agents'[y].file = 1 \/ y \in lost
                        /\ agents'[y].pc = "up" => agents'[y].held = 1 \/ y \in lost
      BY <1>2 DEF TokenKept
    <3>1. CASE y = x
      BY <1>3, <1>6, <3>1
    <3>2. CASE y # x
      BY <1>1, <1>2, <3>2 DEF TokenKept, OnlyAgent
    <3>3. QED
      BY <3>1, <3>2
  <2>6. QED
    BY <2>2, <2>3, <2>4, <2>5 DEF EnrolInvariant
<1>7. QED
  BY <1>2, <1>5, <1>6, ServiceAssumption DEF ServiceAssumption

(* The registration is written: what was in flight has come about.         *)
LEMMA RegisterNodeStep ==
    ASSUME EnrolInvariant, NEW x \in Host, RegisterNode(x)
    PROVE  EnrolInvariant' /\ \A u \in JoinToken : TokenMoves(u)
<1>1. EnrolTypeOK /\ UsesCover /\ TokenKept
  BY DEF EnrolInvariant
<1>2. /\ OnlyAgent(x) /\ agents[x].pc = "admitted" /\ agents'[x].pc = "answered"
      /\ agents'[x].file = agents[x].file
      /\ node' \in [Host -> NodeRow] /\ node'[x].hash = 1
      /\ \A y \in Host \ {x} : node'[y] = node[y]
      /\ lost' = IF node[x].hash = 0 THEN lost \cup {x} ELSE lost
      /\ jt' = IF agents[x].cred = ServiceToken THEN jt ELSE [jt EXCEPT ![agents[x].cred].admitted = @ + 1]
  BY <1>1, RegisterNodeEffects
<1> DEFINE c == agents[x].cred
<1>3. c \in JoinToken \cup {ServiceToken} /\ node[x].hash \in {0, 1}
  BY <1>1 DEF EnrolTypeOK, AgentState, NodeRow
<1>4. /\ jt' \in [JoinToken -> TokenRow]
      /\ \A u \in JoinToken : /\ jt'[u].st = jt[u].st /\ jt'[u].uses = jt[u].uses
                              /\ c # u => jt'[u] = jt[u]
                              /\ c = u => jt'[u].admitted = jt[u].admitted + 1
  <2>1. CASE c = ServiceToken
    BY <1>1, <1>2, <2>1, ServiceAssumption DEF EnrolTypeOK, ServiceAssumption
  <2>2. CASE c # ServiceToken
    <3>1. c \in JoinToken /\ jt' = [jt EXCEPT ![c].admitted = @ + 1]
      BY <1>2, <1>3, <2>2
    <3> HIDE DEF c
    <3>2. QED
      BY <1>1, <3>1, TokenEffects, Zenon
  <2>3. QED
    BY <2>1, <2>2
<1>5. \A t \in JoinToken :
         /\ jt[t].admitted \in Nat /\ jt[t].uses \in Nat /\ Cardinality(InFlight(t)) \in Nat
         /\ jt[t].admitted + Cardinality(InFlight(t)) <= jt[t].uses
         /\ c = t => Cardinality(InFlight(t)) >= 1
         /\ Cardinality(InFlight(t))' = Cardinality(InFlight(t)) - (IF c = t THEN 1 ELSE 0)
  <2> TAKE t \in JoinToken
  <2>1. jt[t].admitted \in Nat /\ jt[t].uses \in Nat
    BY <1>1 DEF EnrolTypeOK, TokenRow
  <2>2. jt[t].admitted + Cardinality(InFlight(t)) <= jt[t].uses
    BY <1>1 DEF UsesCover
  <2>3. /\ Cardinality(InFlight(t)) \in Nat
        /\ c = t => Cardinality(InFlight(t)) >= 1
        /\ Cardinality(InFlight(t))' = Cardinality(InFlight(t)) - (IF c = t THEN 1 ELSE 0)
    BY <1>2, FlightCount DEF OnlyAgent
  <2>4. QED
    BY <2>1, <2>2, <2>3
<1>6. \A u \in JoinToken : TokenMoves(u)
  BY <1>4, <1>5 DEF TokenMoves
<1>7. UsesCover'
  <2> SUFFICES ASSUME NEW t \in JoinToken
               PROVE  jt'[t].admitted + Cardinality(InFlight(t))' <= jt'[t].uses
    BY DEF UsesCover
  <2>1. jt'[t].admitted = jt[t].admitted + (IF c = t THEN 1 ELSE 0) /\ jt'[t].uses = jt[t].uses
    BY <1>4, <1>5
  <2>2. QED
    BY <1>5, <2>1
<1>8. EnrolTypeOK'
  BY <1>1, <1>2, <1>4 DEF EnrolTypeOK, OnlyAgent
<1>9. TokenKept'
  <2> SUFFICES ASSUME NEW y \in Host
               PROVE  /\ agents'[y].pc \in {"answered", "up"} => node'[y].hash = 1
                      /\ node'[y].hash = 1 => agents'[y].file = 1 \/ y \in lost'
                      /\ agents'[y].pc = "up" => agents'[y].held = 1 \/ y \in lost'
    BY DEF TokenKept
  <2>1. CASE y = x
    BY <1>1, <1>2, <1>3, <2>1 DEF TokenKept
  <2>2. CASE y # x
    BY <1>1, <1>2, <2>2 DEF TokenKept, OnlyAgent
  <2>3. QED
    BY <2>1, <2>2
<1>10. QED
  BY <1>6, <1>7, <1>8, <1>9 DEF EnrolInvariant

(* The agent exits, takes its answer or loses files.                       *)
LEMMA AgentStep ==
    ASSUME EnrolInvariant, NEW x \in Host,
           RefuseRegistration(x) \/ Stop(x) \/ register(x) \/ LoseFiles(x)
    PROVE  EnrolInvariant' /\ \A u \in JoinToken : TokenMoves(u)
<1>1. EnrolTypeOK /\ TokenKept /\ lost \subseteq Host
  BY DEF EnrolInvariant, EnrolTypeOK
<1>2. /\ agents[x].pc \in {"answered", "up"} => node[x].hash = 1
      /\ node[x].hash = 1 => agents[x].file = 1 \/ x \in lost
  BY <1>1 DEF TokenKept
<1>3. CASE RefuseRegistration(x) \/ Stop(x)
  <2>1. agents' = Exit(x) /\ UNCHANGED <<jt, node, lost>>
    BY <1>3 DEF RefuseRegistration, Stop
  <2>2. OnlyAgent(x) /\ agents'[x].pc = "down" /\ agents'[x].file = agents[x].file
    BY <1>1, <2>1, ExitEffects
  <2>3. QED
    BY <1>1, <1>2, <2>1, <2>2, QuietStep
<1>4. CASE register(x)
  <2>1. /\ OnlyAgent(x) /\ agents[x].pc = "answered" /\ agents'[x].pc = "up"
        /\ agents'[x].file = IF agents[x].reply # 0 THEN 1 ELSE agents[x].file
        /\ agents'[x].held = agents'[x].file
        /\ lost' = IF agents[x].reply # 0 THEN lost \ {x} ELSE lost
        /\ UNCHANGED <<jt, node>>
    BY <1>1, <1>4, registerEffects
  <2>2. agents'[x].file = 1 \/ x \in lost'
    BY <1>2, <2>1
  <2>3. QED
    BY <1>1, <1>2, <2>1, <2>2, QuietStep
<1>5. CASE LoseFiles(x)
  <2>1. /\ OnlyAgent(x) /\ agents[x].pc = "down" /\ agents'[x].pc = "down"
        /\ \/ agents'[x].file = agents[x].file /\ lost' = lost
           \/ lost' = lost \cup {x}
        /\ UNCHANGED <<jt, node>>
    BY <1>1, <1>5, LoseFilesEffects
  <2>2. QED
    BY <1>1, <1>2, <2>1, QuietStep
<1>6. QED
  BY <1>3, <1>4, <1>5

(* A pending key is promoted; neither a token nor an agent is touched.     *)
LEMMA RotateStep ==
    ASSUME EnrolInvariant, NEW x \in Host, RotateNodeRecipient(x)
    PROVE  EnrolInvariant' /\ \A u \in JoinToken : TokenMoves(u)
<1>1. EnrolTypeOK /\ UsesCover /\ TokenKept
  BY DEF EnrolInvariant
<1>2. UNCHANGED <<jt, agents, lost>> /\ node' = [node EXCEPT ![x].rec = node[x].pend, ![x].pend = 0]
  BY DEF RotateNodeRecipient
<1>3. node \in [Host -> NodeRow] /\ node[x] \in NodeRow /\ node[x].pend \in Nat
  BY <1>1 DEF EnrolTypeOK, NodeRow
<1>4. node' \in [Host -> NodeRow] /\ \A y \in Host : node'[y].hash = node[y].hash
  BY <1>2, <1>3, Zenon DEF NodeRow
<1>5. EnrolTypeOK'
  BY <1>1, <1>2, <1>4 DEF EnrolTypeOK
<1>6. UsesCover'
  BY <1>1, <1>2, SameFlight DEF UsesCover
<1>7. TokenKept'
  BY <1>1, <1>2, <1>4 DEF TokenKept
<1>8. QED
  BY <1>2, <1>5, <1>6, <1>7 DEF EnrolInvariant, TokenMoves

(* Every step keeps the invariant and moves each token as a ticket moves.  *)
LEMMA EnrolNextInvariant ==
    ASSUME EnrolInvariant, [EnrolNext]_enrolVars
    PROVE  EnrolInvariant' /\ \A u \in JoinToken : TokenMoves(u)
<1>1. CASE UNCHANGED enrolVars
  <2>1. UNCHANGED <<jt, node, agents, lost>>
    BY <1>1 DEF enrolVars
  <2>2. UsesCover'
    BY <2>1, SameFlight DEF UsesCover, EnrolInvariant
  <2>3. EnrolTypeOK' /\ TokenKept'
    BY <2>1 DEF EnrolTypeOK, TokenKept, EnrolInvariant
  <2>4. QED
    BY <2>1, <2>2, <2>3 DEF EnrolInvariant, TokenMoves
<1>2. CASE \E t \in JoinToken : CreateJoinToken(t) \/ RevokeJoinToken(t) \/ ExpireJoinToken(t)
  BY <1>2, TokenStep
<1>3. CASE \E x \in Host, c \in JoinToken \cup {ServiceToken} : Start(x, c)
  BY <1>3, StartStep
<1>4. CASE \E x \in Host : RefuseRegistration(x) \/ register(x) \/ Stop(x) \/ LoseFiles(x)
  BY <1>4, AgentStep
<1>5. CASE \E x \in Host : RegisterNode(x)
  BY <1>5, RegisterNodeStep
<1>6. CASE \E x \in Host : RotateNodeRecipient(x)
  BY <1>6, RotateStep
<1>7. QED
  BY <1>1, <1>2, <1>3, <1>4, <1>5, <1>6 DEF EnrolNext

(* The invariant all of the following rest on: every column has its type,  *)
(* a token's uses cover what it let in and what is in flight, and a node   *)
(* token is in its host's file or counted lost.                            *)
THEOREM EnrolInvariantHolds == EnrolSpec => []EnrolInvariant
BY EnrolInitInvariant, EnrolNextInvariant, PTL DEF EnrolSpec

(* register keeps the node token before it uses it and RegisterNode never  *)
(* replaces a hash: a running agent is heard, unless its token was handed  *)
(* out and lost, whatever stops and registrations came before.             *)
THEOREM RunningAgentsAreHeard == EnrolSpec => []HeardUnlessLost
<1>1. EnrolInvariant => HeardUnlessLost
  <2> SUFFICES ASSUME EnrolInvariant, NEW x \in Host, agents[x].pc = "up", x \notin lost
               PROVE  NodeTokenValid(x)
    BY DEF HeardUnlessLost
  <2>1. node[x].hash = 1 /\ agents[x].held = 1
    BY DEF EnrolInvariant, TokenKept
  <2>2. QED
    BY <2>1 DEF NodeTokenValid
<1>2. QED
  BY <1>1, EnrolInvariantHolds, PTL

(* The single UPDATE that redeems a join token, and the registrations that *)
(* follow it, stop or are refused, implement tickets of max_uses uses.     *)
THEOREM JoinTokensImplementTickets == EnrolSpec => JoinTokensAreTickets
<1>1. EnrolInit => JoinTicket!TicketInit
  BY DEF EnrolInit, JoinTicket!TicketInit, JoinLife, NoToken
<1>2. ASSUME EnrolInvariant, NEW t \in JoinToken, TokenMoves(t)
      PROVE  \/ JoinTicket!Rest(t) \/ JoinTicket!Issue(t) \/ JoinTicket!Spend(t)
             \/ JoinTicket!Admit(t) \/ JoinTicket!Close(t)
  <2>1. /\ jt[t].st \in {"none", "live", "expired", "deleted"}
        /\ jt[t].uses \in Nat /\ jt[t].admitted \in Nat
    BY <1>2 DEF EnrolInvariant, EnrolTypeOK, TokenRow
  <2>2. JoinLife(jt[t])' = JoinLife(jt'[t])
    BY DEF JoinLife
  <2> DEFINE Kept == jt'[t].uses = jt[t].uses /\ jt'[t].admitted = jt[t].admitted
  <2>3. \/ Kept /\ JoinLife(jt'[t]) = JoinLife(jt[t])
        \/ Kept /\ JoinLife(jt[t]) = "unissued" /\ JoinLife(jt'[t]) = "open"
        \/ Kept /\ JoinLife(jt[t]) = "open" /\ JoinLife(jt'[t]) = "closed"
        \/ /\ JoinLife(jt[t]) = "open" /\ JoinLife(jt'[t]) = "open" /\ jt[t].uses < Uses[t]
           /\ jt'[t].uses = jt[t].uses + 1 /\ jt'[t].admitted = jt[t].admitted
        \/ /\ JoinLife(jt'[t]) = JoinLife(jt[t]) /\ jt[t].admitted < jt[t].uses
           /\ jt'[t].uses = jt[t].uses /\ jt'[t].admitted = jt[t].admitted + 1
    BY <1>2, <2>1 DEF TokenMoves, JoinLife, Redeemable
  <2>4. QED
    BY <2>3 DEF JoinTicket!Rest, JoinTicket!Issue, JoinTicket!Spend, JoinTicket!Admit,
                JoinTicket!Close
<1>3. EnrolInvariant /\ [EnrolNext]_enrolVars => JoinTicket!TicketNext
  BY <1>2, EnrolNextInvariant DEF JoinTicket!TicketNext
<1>4. QED
  BY <1>1, <1>3, EnrolInvariantHolds, PTL
  DEF EnrolSpec, JoinTokensAreTickets, JoinTicket!TicketSpec

----------------------------------------------------------------------------
(* Secrets                                                                 *)

Last(s) == s[Len(s)]
Ciphertext == SUBSET (Host \X Nat)
SecretRow == [v : Nat, to : Ciphertext]
Setter == [pc : {"idle", "running", "ready", "store"}, to : Ciphertext, settled : BOOLEAN]

SecretsTypeOK ==
    /\ home \subseteq Host /\ active \subseteq Host
    /\ sec \in Seq(SecretRow)
    /\ w \in Setter
    /\ settled \in BOOLEAN

(* What is effective was approved, and so was all that was read before.    *)
ApprovedOnly ==
    /\ Recipients(Host) \subseteq approved
    /\ w.to \subseteq approved
    /\ NeverUnapproved

(* A settled ciphertext, stored or about to be, is sealed to the key of    *)
(* the home's agent and to no other.                                       *)
SealedToHome ==
    /\ w.settled => w.pc = "store" /\ w.to = HomeKey
    /\ settled => sec # << >> /\ Last(sec).to = HomeKey

SecretsInvariant == EnrolInvariant /\ SecretsTypeOK /\ ApprovedOnly /\ SealedToHome

(* A set of recipients is one a secret may be sealed to.                   *)
LEMMA RecipientsType ==
    ASSUME EnrolTypeOK, NEW S \in SUBSET Host
    PROVE  Recipients(S) \in Ciphertext /\ Recipients(S) \subseteq Recipients(Host)
<1>1. \A x \in Host : node[x].rec \in Nat
  BY DEF EnrolTypeOK, NodeRow
<1>2. QED
  BY <1>1 DEF Recipients, Ciphertext

(* A node's effective key changes in two ways: its first one is taken, and *)
(* a pending one is promoted.                                              *)
LEMMA EffectiveKeyMoves ==
    ASSUME EnrolInvariant, [EnrolNext]_enrolVars, NEW x \in Host
    PROVE  \/ node'[x].rec = node[x].rec
           \/ node[x].rec = 0
           \/ node'[x].rec = node[x].pend
<1>1. node \in [Host -> NodeRow]
  BY DEF EnrolInvariant, EnrolTypeOK
<1>2. CASE UNCHANGED node
  BY <1>2
<1>3. ASSUME NEW y \in Host, RegisterNode(y)
      PROVE  \/ node'[x].rec = node[x].rec
             \/ node[x].rec = 0
  <2> DEFINE row == [hash |-> 1, rec |-> Recipient(node[y], agents[y].key),
                     pend |-> Pending(node[y], agents[y].key)]
  <2>1. node' = [node EXCEPT ![y] = row]
    BY <1>3 DEF RegisterNode
  <2>2. row.rec = Recipient(node[y], agents[y].key)
    OBVIOUS
  <2> HIDE DEF row
  <2>3. QED
    BY <1>1, <2>1, <2>2 DEF Recipient
<1>4. ASSUME NEW y \in Host, RotateNodeRecipient(y)
      PROVE  \/ node'[x].rec = node[x].rec
             \/ node'[x].rec = node[x].pend
  <2>1. node' = [node EXCEPT ![y].rec = node[y].pend, ![y].pend = 0]
    BY <1>4 DEF RotateNodeRecipient
  <2>2. node[y] \in NodeRow
    BY <1>1
  <2>3. QED
    BY <1>1, <2>1, <2>2 DEF NodeRow
<1>5. CASE \E t \in JoinToken : CreateJoinToken(t) \/ RevokeJoinToken(t) \/ ExpireJoinToken(t)
  BY <1>2, <1>5 DEF CreateJoinToken, RevokeJoinToken, ExpireJoinToken
<1>6. CASE \E y \in Host : RefuseRegistration(y) \/ register(y) \/ Stop(y) \/ LoseFiles(y)
  BY <1>2, <1>6 DEF RefuseRegistration, register, Stop, LoseFiles
<1>7. CASE \E y \in Host, c \in JoinToken \cup {ServiceToken} : Start(y, c)
  <2>1. UNCHANGED node
    BY <1>7 DEF Start
  <2>2. QED
    BY <1>2, <2>1
<1>8. CASE UNCHANGED enrolVars
  BY <1>2, <1>8 DEF enrolVars
<1>9. QED
  BY <1>3, <1>4, <1>5, <1>6, <1>7, <1>8 DEF EnrolNext

(* Hence whatever is effective after a step is approved after it.          *)
LEMMA ApprovedGrows ==
    ASSUME EnrolInvariant, [EnrolNext]_enrolVars, Recipients(Host) \subseteq approved, Histories
    PROVE  Recipients(Host)' \subseteq approved' /\ approved \subseteq approved'
<1>1. approved' = approved \cup
        {r \in Recipients(Host)' : node[r[1]].rec = 0 \/ node[r[1]].pend = r[2]}
  BY DEF Histories
<1>2. ASSUME NEW r \in Recipients(Host)'
      PROVE  r \in approved'
  <2>1. PICK x \in Host : r = <<x, node'[x].rec>> /\ node'[x].rec # 0
    BY <1>2 DEF Recipients
  <2>2. CASE node'[x].rec = node[x].rec
    BY <1>1, <2>1, <2>2 DEF Recipients
  <2>3. CASE node[x].rec = 0 \/ node'[x].rec = node[x].pend
    BY <1>1, <1>2, <2>1, <2>3
  <2>4. QED
    BY <2>2, <2>3, EffectiveKeyMoves
<1>3. QED
  BY <1>1, <1>2

(* The newest version after an append, and after a prune of older ones.    *)
LEMMA NewestVersion ==
    ASSUME NEW s \in Seq(SecretRow)
    PROVE  /\ \A r \in SecretRow :
                 /\ Append(s, r) \in Seq(SecretRow) /\ Append(s, r) # << >>
                 /\ Last(Append(s, r)) = r
                 /\ \A i \in DOMAIN Append(s, r) : Append(s, r)[i] = r
                       \/ (i \in DOMAIN s /\ Append(s, r)[i] = s[i])
           /\ \A k \in DOMAIN s : k < Len(s) =>
                 /\ SubSeq(s, k + 1, Len(s)) \in Seq(SecretRow)
                 /\ SubSeq(s, k + 1, Len(s)) # << >>
                 /\ Last(SubSeq(s, k + 1, Len(s))) = Last(s)
                 /\ \A i \in DOMAIN SubSeq(s, k + 1, Len(s)) :
                       \E j \in DOMAIN s : SubSeq(s, k + 1, Len(s))[i] = s[j]
           /\ s # << >> => Last(s) \in SecretRow
<1>1. Len(s) \in Nat /\ DOMAIN s = 1..Len(s)
  OBVIOUS
<1>2. ASSUME NEW r \in SecretRow
      PROVE  /\ Append(s, r) \in Seq(SecretRow) /\ Append(s, r) # << >>
             /\ Last(Append(s, r)) = r
             /\ \A i \in DOMAIN Append(s, r) : Append(s, r)[i] = r
                   \/ (i \in DOMAIN s /\ Append(s, r)[i] = s[i])
  <2> DEFINE t == Append(s, r)
  <2>1. /\ t \in Seq(SecretRow) /\ Len(t) = Len(s) + 1 /\ t[Len(s) + 1] = r
        /\ \A i \in 1..Len(s) : t[i] = s[i]
    BY <1>2, AppendProperties
  <2>2. DOMAIN t = 1..(Len(s) + 1)
    BY <1>1, <2>1
  <2> HIDE DEF t
  <2>3. t # << >> /\ Last(t) = r
    BY <1>1, <2>1 DEF Last
  <2>4. ASSUME NEW i \in DOMAIN t
        PROVE  t[i] = r \/ (i \in DOMAIN s /\ t[i] = s[i])
    <3>1. i = Len(s) + 1 \/ i \in 1..Len(s)
      BY <1>1, <2>2, <2>4
    <3>2. CASE i = Len(s) + 1
      BY <2>1, <3>2
    <3>3. CASE i \in 1..Len(s)
      BY <1>1, <2>1, <3>3
    <3>4. QED
      BY <3>1, <3>2, <3>3
  <2>5. QED
    BY <2>1, <2>3, <2>4 DEF t
<1>3. ASSUME NEW k \in DOMAIN s, k < Len(s)
      PROVE  /\ SubSeq(s, k + 1, Len(s)) \in Seq(SecretRow)
             /\ SubSeq(s, k + 1, Len(s)) # << >>
             /\ Last(SubSeq(s, k + 1, Len(s))) = Last(s)
             /\ \A i \in DOMAIN SubSeq(s, k + 1, Len(s)) :
                   \E j \in DOMAIN s : SubSeq(s, k + 1, Len(s))[i] = s[j]
  <2> DEFINE t == SubSeq(s, k + 1, Len(s))
  <2>1. /\ t \in Seq(SecretRow) /\ Len(t) = Len(s) - k
        /\ \A i \in 1..Len(t) : t[i] = s[k + i]
    BY <1>1, <1>3, SubSeqProperties
  <2>2. DOMAIN t = 1..Len(t) /\ Len(t) \in Nat \ {0}
    BY <1>1, <1>3, <2>1
  <2> HIDE DEF t
  <2>3. Last(t) = Last(s)
    BY <1>1, <1>3, <2>1, <2>2 DEF Last
  <2>4. \A i \in DOMAIN t : t[i] = s[k + i] /\ k + i \in DOMAIN s
    BY <1>1, <1>3, <2>1, <2>2
  <2>5. t # << >>
    BY <2>2
  <2>6. QED
    BY <2>1, <2>3, <2>4, <2>5, Zenon DEF t
<1>4. s # << >> => Last(s) \in SecretRow
  BY <1>1 DEF Last
<1>5. QED
  BY <1>2, <1>3, <1>4

(* What a step that is not of the handler does to the secret: nothing, and *)
(* what it holds to be settled stays so only while the home's key does.    *)
LEMMA OtherStep ==
    ASSUME SecretsInvariant, [EnrolNext]_enrolVars, Others, Keeps,
           home' \subseteq Host, active' \subseteq Host
    PROVE  SecretsInvariant'
<1>1. EnrolInvariant /\ SecretsTypeOK /\ ApprovedOnly /\ SealedToHome
  BY DEF SecretsInvariant
<1>2. EnrolInvariant'
  BY <1>1, EnrolNextInvariant
<1>3. sec' = sec /\ w' = [w EXCEPT !.settled = Settle(@)] /\ settled' = Settle(settled)
  BY DEF Others, Keeps
<1>4. /\ w \in Setter /\ w.settled \in BOOLEAN /\ settled \in BOOLEAN /\ sec \in Seq(SecretRow)
      /\ w.pc \in {"idle", "running", "ready", "store"} /\ w.to \in Ciphertext
  BY <1>1 DEF SecretsTypeOK, Setter
<1>5. Settle(w.settled) \in BOOLEAN /\ Settle(settled) \in BOOLEAN
  BY <1>4, Zenon DEF Settle
<1>6. /\ Settle(w.settled) => w.settled /\ home' = home /\ HomeKey' = HomeKey
      /\ Settle(settled) => settled /\ home' = home /\ HomeKey' = HomeKey
  BY DEF Settle
<1>7. w'.pc = w.pc /\ w'.to = w.to /\ w'.settled = Settle(w.settled) /\ w' \in Setter
  <2> DEFINE b == Settle(w.settled)
  <2>1. b \in BOOLEAN /\ w' = [w EXCEPT !.settled = b]
    BY <1>3, <1>5
  <2> HIDE DEF b
  <2>2. w'.pc = w.pc /\ w'.to = w.to /\ w'.settled = b /\ w' \in Setter
    BY <1>4, <2>1 DEF Setter
  <2>3. QED
    BY <2>2 DEF b
<1>8. SecretsTypeOK'
  <2>1. sec' \in Seq(SecretRow) /\ w' \in Setter
    BY <1>3, <1>4, <1>7
  <2>2. settled' \in BOOLEAN
    BY <1>3, <1>5
  <2>3. QED
    BY <2>1, <2>2 DEF SecretsTypeOK
<1>9. ApprovedOnly'
  <2>1. Recipients(Host)' \subseteq approved' /\ approved \subseteq approved'
    BY <1>1, ApprovedGrows DEF ApprovedOnly, Keeps
  <2>2. QED
    BY <1>1, <1>3, <1>7, <2>1 DEF ApprovedOnly, NeverUnapproved
<1>10. SealedToHome'
  BY <1>1, <1>3, <1>6, <1>7 DEF SealedToHome
<1>11. QED
  BY <1>2, <1>8, <1>9, <1>10 DEF SecretsInvariant

(* A step of the handler, or one that drops versions: enrolment and the    *)
(* home stand still, so approvals do, and so does the home's key.          *)
LEMMA StillStep ==
    ASSUME SecretsInvariant, UNCHANGED <<enrolVars, home, active>>, Histories
    PROVE  /\ EnrolInvariant' /\ HomeKey' = HomeKey
           /\ Recipients(Host)' \subseteq approved' /\ approved \subseteq approved'
           /\ \A b \in BOOLEAN : Settle(b) = b
<1>1. EnrolInvariant /\ Recipients(Host) \subseteq approved /\ [EnrolNext]_enrolVars
  BY DEF SecretsInvariant, ApprovedOnly
<1>2. EnrolInvariant'
  BY <1>1, EnrolNextInvariant
<1>3. HomeKey' = HomeKey /\ home' = home
  BY DEF HomeKey, enrolVars
<1>4. \A b \in BOOLEAN : Settle(b) = b
  BY <1>3, Zenon DEF Settle
<1>5. QED
  BY <1>1, <1>2, <1>3, <1>4, ApprovedGrows

(* A query of RecipientsForEnvironment answers: the handler seals to what  *)
(* is effective now, or asks the next one.                                 *)
LEMMA ReadStep ==
    ASSUME SecretsInvariant, ReadHome \/ ReadRunning \/ ReadReady
    PROVE  SecretsInvariant'
<1>1. EnrolInvariant /\ SecretsTypeOK /\ ApprovedOnly /\ SealedToHome
  BY DEF SecretsInvariant
<1>2. UNCHANGED <<enrolVars, home, active>> /\ sec' = sec /\ Keeps
  BY Zenon DEF ReadHome, ReadRunning, ReadReady, SetStep
<1>3. /\ EnrolInvariant' /\ HomeKey' = HomeKey
      /\ Recipients(Host)' \subseteq approved' /\ approved \subseteq approved'
      /\ \A b \in BOOLEAN : Settle(b) = b
  BY <1>2, StillStep DEF Keeps
<1>4. settled \in BOOLEAN /\ settled' = settled
  BY <1>1, <1>2, <1>3 DEF SecretsTypeOK, Keeps
<1>5. /\ w' \in Setter /\ w'.to \subseteq Recipients(Host)
      /\ w'.settled => w'.pc = "store" /\ w'.to = HomeKey
  <2>1. ASSUME NEW S \in SUBSET Host, NEW b \in BOOLEAN, b => Recipients(S) = HomeKey
        PROVE  /\ Sealing(Recipients(S), b) \in Setter
               /\ Sealing(Recipients(S), b).to \subseteq Recipients(Host)
               /\ Sealing(Recipients(S), b).settled =>
                     /\ Sealing(Recipients(S), b).pc = "store"
                     /\ Sealing(Recipients(S), b).to = HomeKey
    <3>1. Recipients(S) \in Ciphertext /\ Recipients(S) \subseteq Recipients(Host)
      BY <1>1, RecipientsType DEF EnrolInvariant
    <3>2. QED
      BY <2>1, <3>1 DEF Sealing, Setter
  <2>2. ASSUME NEW pc \in {"idle", "running", "ready"}
        PROVE  /\ [Quiet EXCEPT !.pc = pc] \in Setter
               /\ [Quiet EXCEPT !.pc = pc].to = {} /\ ~[Quiet EXCEPT !.pc = pc].settled
    BY Zenon DEF Quiet, Setter, Ciphertext
  <2>3. Quiet = [Quiet EXCEPT !.pc = "idle"]
    BY DEF Quiet
  <2>4. home \in SUBSET Host /\ active \in SUBSET Host
    BY <1>1 DEF SecretsTypeOK
  <2>5. CASE ReadHome
    <3>1. w' = IF homeRecipient # {} THEN Sealing(homeRecipient, homeRecipient = HomeKey)
               ELSE [Quiet EXCEPT !.pc = "running"]
      BY <2>5 DEF ReadHome, SetStep
    <3> DEFINE b == homeRecipient = HomeKey
    <3>2. b \in BOOLEAN /\ (b => Recipients(home) = HomeKey) /\ homeRecipient = Recipients(home)
      BY DEF homeRecipient
    <3>3. w' = Sealing(Recipients(home), b) \/ w' = [Quiet EXCEPT !.pc = "running"]
      BY <3>1, <3>2
    <3> HIDE DEF b
    <3>4. CASE w' = Sealing(Recipients(home), b)
      BY <2>1, <2>4, <3>2, <3>4
    <3>5. CASE w' = [Quiet EXCEPT !.pc = "running"]
      BY <2>2, <3>5
    <3>6. QED
      BY <3>3, <3>4, <3>5
  <2>6. CASE ReadRunning
    <3>1. w' = Sealing(Recipients(active), FALSE) \/ w' = [Quiet EXCEPT !.pc = "ready"]
      BY <2>6, Zenon DEF ReadRunning, SetStep
    <3>2. CASE w' = Sealing(Recipients(active), FALSE)
      BY <2>1, <2>4, <3>2, Zenon
    <3>3. CASE w' = [Quiet EXCEPT !.pc = "ready"]
      BY <2>2, <3>3
    <3>4. QED
      BY <3>1, <3>2, <3>3, Zenon
  <2>7. CASE ReadReady
    <3>1. PICK S \in SUBSET Host : w' = Sealing(Recipients(S), FALSE) \/ w' = Quiet
      BY <2>7, Zenon DEF ReadReady, SetStep
    <3>2. CASE w' = Sealing(Recipients(S), FALSE)
      BY <2>1, <3>2, Zenon
    <3>3. CASE w' = [Quiet EXCEPT !.pc = "idle"]
      BY <2>2, <3>3
    <3>4. QED
      BY <2>3, <3>1, <3>2, <3>3, Zenon
  <2>8. QED
    BY <2>5, <2>6, <2>7
<1>6. SecretsTypeOK'
  BY <1>1, <1>2, <1>4, <1>5 DEF SecretsTypeOK
<1>7. ApprovedOnly'
  BY <1>1, <1>2, <1>3, <1>5 DEF ApprovedOnly, NeverUnapproved
<1>8. SealedToHome'
  BY <1>1, <1>2, <1>3, <1>4, <1>5 DEF SealedToHome
<1>9. QED
  BY <1>3, <1>6, <1>7, <1>8 DEF SecretsInvariant

(* The rows change: a version is stored, all are deleted, old ones pruned. *)
LEMMA StoreStep ==
    ASSUME SecretsInvariant, SetSecret \/ DeleteSecret \/ PruneSecretVersions
    PROVE  SecretsInvariant'
<1>1. EnrolInvariant /\ SecretsTypeOK /\ ApprovedOnly /\ SealedToHome
  BY DEF SecretsInvariant
<1>2. UNCHANGED <<enrolVars, home, active>> /\ Histories
  BY DEF SetSecret, DeleteSecret, PruneSecretVersions, SetStep, Keeps
<1>3. /\ EnrolInvariant' /\ HomeKey' = HomeKey
      /\ Recipients(Host)' \subseteq approved' /\ approved \subseteq approved'
      /\ \A b \in BOOLEAN : Settle(b) = b
  BY <1>2, StillStep
<1>4. /\ sec \in Seq(SecretRow) /\ w \in Setter /\ settled \in BOOLEAN
      /\ w.to \in Ciphertext /\ w.settled \in BOOLEAN
  BY <1>1 DEF SecretsTypeOK, Setter
<1>5. SUFFICES /\ sec' \in Seq(SecretRow) /\ w' \in Setter /\ settled' \in BOOLEAN
               /\ w'.to \subseteq approved
               /\ \A i \in DOMAIN sec' : sec'[i].to \subseteq approved
               /\ w'.settled => w'.pc = "store" /\ w'.to = HomeKey
               /\ settled' => sec' # << >> /\ Last(sec').to = HomeKey
  <2>1. SecretsTypeOK'
    BY <1>1, <1>2, <1>5 DEF SecretsTypeOK
  <2>2. ApprovedOnly'
    BY <1>3, <1>5 DEF ApprovedOnly, NeverUnapproved
  <2>3. SealedToHome'
    BY <1>3, <1>5 DEF SealedToHome, Last
  <2>4. QED
    BY <1>3, <2>1, <2>2, <2>3 DEF SecretsInvariant
<1>6. CASE SetSecret
  <2> DEFINE r == [v |-> Version + 1, to |-> w.to]
  <2>1. sec' = Append(sec, r) /\ settled' = w.settled /\ w' = Quiet /\ w.pc = "store"
    BY <1>6 DEF SetSecret, SetStep
  <2>2. Version \in Nat
    BY <1>4, NewestVersion, Zenon DEF Version, Newest, Last, SecretRow
  <2>3. r \in SecretRow /\ r.to = w.to
    BY <1>4, <2>2 DEF SecretRow
  <2> HIDE DEF r
  <2>4. /\ Append(sec, r) \in Seq(SecretRow) /\ Append(sec, r) # << >> /\ Last(Append(sec, r)) = r
        /\ \A i \in DOMAIN Append(sec, r) : Append(sec, r)[i] = r
              \/ (i \in DOMAIN sec /\ Append(sec, r)[i] = sec[i])
    BY <1>4, <2>3, NewestVersion
  <2>5. Quiet \in Setter /\ Quiet.to = {} /\ ~Quiet.settled
    BY DEF Quiet, Setter, Ciphertext
  <2>6. \A i \in DOMAIN sec' : sec'[i].to \subseteq approved
    BY <1>1, <2>1, <2>3, <2>4 DEF ApprovedOnly, NeverUnapproved
  <2>7. w.settled => w.to = HomeKey
    BY <1>1 DEF SealedToHome
  <2>8. QED
    BY <1>4, <2>1, <2>3, <2>4, <2>5, <2>6, <2>7
<1>7. CASE DeleteSecret
  <2>1. sec' = << >> /\ settled' = FALSE /\ w' = w
    BY <1>7 DEF DeleteSecret
  <2>2. sec' \in Seq(SecretRow) /\ DOMAIN sec' = {}
    BY <2>1
  <2>3. w.to \subseteq approved /\ (w.settled => w.pc = "store" /\ w.to = HomeKey)
    BY <1>1 DEF ApprovedOnly, SealedToHome
  <2>4. QED
    BY <1>4, <2>1, <2>2, <2>3, Zenon
<1>8. CASE PruneSecretVersions
  <2>1. PICK k \in DOMAIN sec : k < Len(sec) /\ sec' = SubSeq(sec, k + 1, Len(sec))
    BY <1>8, Zenon DEF PruneSecretVersions, Superseded
  <2>2. w' = w /\ settled' = settled
    BY <1>3, <1>4, <1>8 DEF PruneSecretVersions, Keeps
  <2>3. /\ sec' \in Seq(SecretRow) /\ sec' # << >> /\ Last(sec') = Last(sec)
        /\ \A i \in DOMAIN sec' : \E j \in DOMAIN sec : sec'[i] = sec[j]
    BY <1>4, <2>1, NewestVersion
  <2>4. QED
    BY <1>1, <1>4, <2>2, <2>3 DEF ApprovedOnly, NeverUnapproved, SealedToHome
<1>9. QED
  BY <1>6, <1>7, <1>8

(* No secret yet, and the first keys count as approved.                    *)
LEMMA SecretsInitInvariant == SecretsInit => SecretsInvariant
<1> SUFFICES ASSUME SecretsInit PROVE SecretsInvariant
  OBVIOUS
<1>1. EnrolInvariant
  BY EnrolInitInvariant DEF SecretsInit
<1>2. SecretsTypeOK
  <2>1. home = {} /\ active = {} /\ sec = << >> /\ w = Quiet /\ settled = FALSE
    BY DEF SecretsInit
  <2>2. Quiet \in Setter
    BY DEF Quiet, Setter, Ciphertext
  <2>3. << >> \in Seq(SecretRow)
    OBVIOUS
  <2>4. QED
    BY <2>1, <2>2, <2>3, Zenon DEF SecretsTypeOK
<1>3. ApprovedOnly
  BY DEF SecretsInit, ApprovedOnly, NeverUnapproved, Quiet
<1>4. SealedToHome
  BY DEF SecretsInit, SealedToHome, Quiet
<1>5. QED
  BY <1>1, <1>2, <1>3, <1>4 DEF SecretsInvariant

(* Every step of enrolment, placement and the handlers keeps it.           *)
LEMMA SecretsNextInvariant ==
    ASSUME SecretsInvariant, [SecretsNext]_secretsVars
    PROVE  SecretsInvariant'
<1>1. home \subseteq Host /\ active \subseteq Host
  BY DEF SecretsInvariant, SecretsTypeOK
<1>2. CASE UNCHANGED secretsVars
  <2>1. UNCHANGED <<jt, node, agents, lost, home, active, sec, w, approved, settled>>
    BY <1>2 DEF secretsVars, envVars, enrolVars
  <2>2. EnrolInvariant'
    BY <2>1, EnrolNextInvariant DEF SecretsInvariant, enrolVars
  <2>3. SecretsTypeOK' /\ SealedToHome'
    BY <2>1 DEF SecretsInvariant, SecretsTypeOK, SealedToHome, HomeKey
  <2>4. ApprovedOnly'
    BY <2>1 DEF SecretsInvariant, ApprovedOnly, NeverUnapproved, Recipients
  <2>5. QED
    BY <2>2, <2>3, <2>4 DEF SecretsInvariant
<1>3. CASE Enrolment
  BY <1>1, <1>3, OtherStep DEF Enrolment
<1>4. CASE \E x \in Host : PlaceDeployment(x) \/ EndDeployments(x)
  BY <1>1, <1>4, OtherStep DEF PlaceDeployment, EndDeployments
<1>5. CASE ReleaseEnvironmentHome
  BY <1>1, <1>5, OtherStep DEF ReleaseEnvironmentHome
<1>6. QED
  BY <1>2, <1>3, <1>4, <1>5, ReadStep, StoreStep DEF SecretsNext

(* The invariant of a secret and the handler that sets it.                 *)
THEOREM SecretsInvariantHolds == SecretsSpec => []SecretsInvariant
BY SecretsInitInvariant, SecretsNextInvariant, PTL DEF SecretsSpec

(* RecipientsForEnvironment sees effective keys only, and a key becomes    *)
(* effective as a node's first or by promotion: whatever enrols, registers *)
(* or rotates between the queries and SetSecret, no version is sealed to a *)
(* key that was only proposed.                                             *)
THEOREM NothingSealedToProposedKeys == SecretsSpec => []NeverUnapproved
<1>1. SecretsInvariant => NeverUnapproved
  BY DEF SecretsInvariant, ApprovedOnly
<1>2. QED
  BY <1>1, SecretsInvariantHolds, PTL

(* A secret set while the home's effective key is its agent's can be       *)
(* opened there until the home or that key changes; pruning leaves it.     *)
THEOREM HomeOpensItsSecret == SecretsSpec => []OpenableAtHome
<1>1. SecretsInvariant => OpenableAtHome
  <2> SUFFICES ASSUME SecretsInvariant, settled
               PROVE  sec # << >> /\ \A x \in home :
                         /\ Opens(x, Newest.to)
                         /\ x \in active => Opens(x, EncryptedSecretsForNode(x))
    BY DEF OpenableAtHome
  <2>1. sec # << >> /\ Newest.to = HomeKey
    BY DEF SecretsInvariant, SealedToHome, Newest, Last
  <2>2. QED
    BY <2>1 DEF Opens, EncryptedSecretsForNode, HomeKey
<1>2. QED
  BY <1>1, SecretsInvariantHolds, PTL
============================================================================
