---------------------------- MODULE HandlerProofs ----------------------------
(***************************************************************************)
(* Handlers whose calls overlap, for any number of callers.  Invitations   *)
(* are tickets for one, an address has one live invitation, a request for  *)
(* access is decided once and an organization keeps a member, for any      *)
(* people.  Versions are appended one by one without churn, and nothing is *)
(* deployed without its secrets, for any stacks, manifests and             *)
(* environments.  The dashboard shows an environment's own revisions,      *)
(* keeps its cursor on a row and asks for a section once at a time, for    *)
(* any environments, listings and failures.                                *)
(***************************************************************************)
EXTENDS Access, Catalog, Tui, NaturalsInduction, WellFoundedInduction,
        FiniteSetTheorems, TLAPS

-----------------------------------------------------------------------------
(* People.                                                                 *)

InviteRow == [st : {"none", "open", "redeemed", "revoked"}, email : Person,
              past : BOOLEAN, used : Nat, admitted : Nat]
AskRow == [st : {"none", "pending", "approved", "declined"}, email : Person,
           invite : 0..MaxInvites]

\* An invitation is spent by being redeemed, and only a live one runs out.
InviteFits(r) ==
    /\ r \in InviteRow
    /\ r.used = r.admitted /\ (r.st # "redeemed" => r.used = 0)
    /\ r.past => r.st = "open"

(* Rows of their types, and the two ledgers.                                *)
LedgerInv ==
    /\ DOMAIN inv = Invite /\ \A i \in Invite : InviteFits(inv[i])
    /\ ask \in [Ask -> AskRow]
    /\ OneLiveInvite /\ RequestLedger

(* Min of numbers is one of them.                                           *)
LEMMA MinIsOne ==
    ASSUME NEW S \in SUBSET Nat, S # {}
    PROVE  Min(S) \in S /\ \A y \in S : Min(S) <= y
<1>1. \E x \in S : \A y \in S : ~(<<y, x>> \in OpToRel(<, Nat))
  BY NatLessThanWellFounded, WFMin, Zenon
<1>2. ASSUME NEW x \in Nat, NEW y \in Nat, y < x
      PROVE  <<y, x>> \in OpToRel(<, Nat)
  <2>1. <<y, x>> \in Nat \X Nat /\ <<y, x>>[1] < <<y, x>>[2]
    BY <1>2
  <2>2. QED
    BY <2>1, Zenon DEF OpToRel
<1>3. \E x \in S : \A y \in S : x <= y
  <2>1. PICK x \in S : \A y \in S : ~(<<y, x>> \in OpToRel(<, Nat))
    BY <1>1, Zenon
  <2>2. \A y \in S : ~(y < x)
    BY <1>2, <2>1, Zenon
  <2>3. QED
    BY <2>2
<1>4. QED
  BY <1>3, Zenon DEF Min

(* The steps that write invitations or requests; every other leaves both.   *)
LedgerStep ==
    \/ UNCHANGED <<inv, ask>>
    \/ \E e \in Guest : Unissued # {} /\ createInviteTx(e) /\ UNCHANGED ask
    \/ \E i \in Invite : RevokeInvite(i) /\ UNCHANGED ask
    \/ \E i \in Invite : RedeemInvite(i)
    \/ \E i \in Invite : ExpireInvite(i)
    \/ \E e \in Guest : CreateAccessRequest(e) /\ UNCHANGED inv
    \/ \E a \in Ask : Unissued # {} /\ ApproveAccessRequest(a)
    \/ \E a \in Ask : DeclineAccessRequest(a) /\ UNCHANGED inv

LEMMA StepsOfLedger == [AccessNext]_accessVars => LedgerStep
<1> SUFFICES ASSUME [AccessNext]_accessVars PROVE LedgerStep
  OBVIOUS
<1>1. CASE BootstrapOperator
  BY <1>1 DEF BootstrapOperator, LedgerStep
<1>2. CASE \E p \in Person :
         \/ CreateOperator(p) \/ IssueOperatorToken(p) \/ AddOrgMember(p)
         \/ RemoveOrgMember(p)
         \/ handleCreateToken(p) \/ handleRevokeToken(p) \/ RevokeOperatorToken(p)
         \/ Abort(p) \/ ExpireToken(p) \/ DisableOperator(p)
         \/ \E e \in Person : handleAddMember(p, e) \/ handleRemoveMember(p, e)
  BY <1>2 DEF CreateOperator, IssueOperatorToken, AddOrgMember, RemoveOrgMember,
       handleCreateToken, handleRevokeToken, RevokeOperatorToken, Abort, ExpireToken,
       DisableOperator, handleAddMember, handleRemoveMember, LedgerStep
<1>3. CASE \E p \in Person : \E e \in Guest : handleCreateInvite(p, e)
  BY <1>3 DEF handleCreateInvite, LedgerStep
<1>4. CASE \E p \in Person : \E i \in Invite : handleRevokeInvite(p, i)
  BY <1>4 DEF handleRevokeInvite, LedgerStep
<1>5. CASE \E p \in Person, a \in Ask : handleApproveAccessRequest(p, a)
  BY <1>5 DEF handleApproveAccessRequest, LedgerStep
<1>6. CASE \E p \in Person, a \in Ask : handleDeclineAccessRequest(p, a)
  BY <1>6 DEF handleDeclineAccessRequest, LedgerStep
<1>7. CASE \E e \in Guest : handleCreateAccessRequest(e)
  BY <1>7 DEF handleCreateAccessRequest, LedgerStep
<1>8. CASE \E i \in Invite : RedeemInvite(i) \/ ExpireInvite(i)
  BY <1>8 DEF LedgerStep
<1>9. CASE UNCHANGED accessVars
  BY <1>9 DEF accessVars, LedgerStep
<1>10. QED
  BY <1>1, <1>2, <1>3, <1>4, <1>5, <1>6, <1>7, <1>8, <1>9 DEF AccessNext

LEMMA InitLedger == AccessInit => LedgerInv
BY AccessAssumption DEF AccessInit, LedgerInv, InviteFits, InviteRow, AskRow, NoInvite, NoAsk,
   OneLiveInvite, RequestLedger, Invite, Ask

(* What createInviteTx does: one unissued invitation opens, the live one of *)
(* the address closes, and the others stay.                                 *)
LEMMA CreateInvite ==
    ASSUME LedgerInv, NEW e \in Person, Unissued # {}, createInviteTx(e)
    PROVE  LET n == Min(Unissued) IN
           /\ n \in Invite /\ inv[n].st = "none"
           /\ DOMAIN inv' = Invite
           /\ inv'[n] = [NoInvite EXCEPT !.st = "open", !.email = e]
           /\ \A i \in Invite \ {n} :
                 inv'[i] = IF inv[i].st = "open" /\ inv[i].email = e
                           THEN [inv[i] EXCEPT !.st = "revoked", !.past = FALSE] ELSE inv[i]
<1>1. Unissued \in SUBSET Nat
  BY AccessAssumption DEF Unissued, Invite
<1>2. Min(Unissued) \in Unissued
  BY <1>1, MinIsOne
<1>3. Min(Unissued) \in Invite /\ inv[Min(Unissued)].st = "none"
  BY <1>2 DEF Unissued
<1>4. QED
  BY <1>3, Zenon DEF createInviteTx

(* Every invitation still fits after a new one, and none is live beside it. *)
LEMMA CreateInviteInv ==
    ASSUME LedgerInv, NEW e \in Person, Unissued # {}, createInviteTx(e)
    PROVE  /\ DOMAIN inv' = Invite /\ \A i \in Invite : InviteFits(inv'[i])
           /\ OneLiveInvite'
           /\ \A i \in Invite : inv[i].st # "none" =>
                 i # Min(Unissued) /\ inv'[i].st # "none" /\ inv'[i].email = inv[i].email
           /\ inv'[Min(Unissued)].st = "open" /\ inv'[Min(Unissued)].email = e
<1> DEFINE n == Min(Unissued)
<1>1. /\ n \in Invite /\ inv[n].st = "none"
      /\ DOMAIN inv' = Invite
      /\ inv'[n] = [NoInvite EXCEPT !.st = "open", !.email = e]
      /\ \A i \in Invite \ {n} :
            inv'[i] = IF inv[i].st = "open" /\ inv[i].email = e
                      THEN [inv[i] EXCEPT !.st = "revoked", !.past = FALSE] ELSE inv[i]
  BY CreateInvite, Zenon
<1> HIDE DEF n
<1>2. /\ InviteFits(inv'[n]) /\ inv'[n].st = "open" /\ inv'[n].email = e
  <2>1. inv'[n] = [st |-> "open", email |-> e, past |-> FALSE, used |-> 0, admitted |-> 0]
    BY <1>1, Zenon DEF NoInvite
  <2> DEFINE w == [st |-> "open", email |-> e, past |-> FALSE, used |-> 0, admitted |-> 0]
  <2>2. InviteFits(w) /\ w.st = "open" /\ w.email = e
    BY DEF InviteFits, InviteRow
  <2>3. QED
    BY <2>1, <2>2
<1>3. ASSUME NEW i \in Invite, i # n
      PROVE  /\ InviteFits(inv'[i]) /\ inv'[i].email = inv[i].email
             /\ (inv'[i].st = "none") = (inv[i].st = "none")
             /\ inv'[i].st = "open" => inv[i].st = "open" /\ inv[i].email # e
  <2>1. InviteFits(inv[i])
    BY DEF LedgerInv
  <2>2. CASE inv[i].st = "open" /\ inv[i].email = e
    <3>1. inv'[i] = [inv[i] EXCEPT !.st = "revoked", !.past = FALSE]
      BY <1>1, <1>3, <2>2, Zenon
    <3>2. QED
      BY <2>1, <2>2, <3>1, Zenon DEF InviteFits, InviteRow
  <2>3. CASE ~(inv[i].st = "open" /\ inv[i].email = e)
    BY <1>1, <1>3, <2>1, <2>3, Zenon
  <2>4. QED
    BY <2>2, <2>3
<1>4. OneLiveInvite'
  BY <1>2, <1>3 DEF OneLiveInvite, LedgerInv
<1>5. QED
  BY <1>1, <1>2, <1>3, <1>4, Zenon DEF n

(* One invitation changes, to a row that fits, keeps its address and is     *)
(* live only if it was.                                                     *)
LEMMA OneInviteMoves ==
    ASSUME LedgerInv, NEW i \in Invite, NEW r, inv[i].st = "open",
           inv' = [inv EXCEPT ![i] = r], ask' = ask,
           InviteFits(r), r.st # "none", r.email = inv[i].email
    PROVE  LedgerInv'
<1>1. DOMAIN inv' = Invite /\ \A j \in Invite : inv'[j] = IF j = i THEN r ELSE inv[j]
  BY DEF LedgerInv
<1>2. \A j \in Invite : InviteFits(inv'[j])
  BY <1>1 DEF LedgerInv
<1>3. /\ \A j \in Invite : inv'[j].email = inv[j].email
      /\ \A j \in Invite : inv'[j].st = "open" => inv[j].st = "open"
      /\ \A j \in Invite : inv[j].st # "none" => inv'[j].st # "none"
  BY <1>1
<1>4. OneLiveInvite'
  BY <1>3 DEF OneLiveInvite, LedgerInv
<1>5. RequestLedger'
  <2>1. \A a \in Ask : ask[a].invite # 0 => ask[a].invite \in Invite
    BY AccessAssumption DEF LedgerInv, AskRow, Invite
  <2>2. QED
    BY <1>3, <2>1 DEF RequestLedger, LedgerInv
<1>6. QED
  BY <1>1, <1>2, <1>4, <1>5 DEF LedgerInv

LEMMA RevokeInv ==
    ASSUME LedgerInv, NEW i \in Invite, RevokeInvite(i), UNCHANGED ask
    PROVE  LedgerInv'
<1> DEFINE r == [inv[i] EXCEPT !.st = "revoked", !.past = FALSE]
<1>1. inv' = [inv EXCEPT ![i] = r] /\ inv[i].st = "open" /\ InviteFits(inv[i])
  BY Zenon DEF RevokeInvite, LedgerInv
<1>2. InviteFits(r) /\ r.st # "none" /\ r.email = inv[i].email
  BY <1>1, Zenon DEF InviteFits, InviteRow
<1>3. QED
  BY <1>1, <1>2, OneInviteMoves, Zenon

LEMMA RedeemInv ==
    ASSUME LedgerInv, NEW i \in Invite, RedeemInvite(i)
    PROVE  LedgerInv'
<1> DEFINE r == [inv[i] EXCEPT !.st = "redeemed", !.used = @ + 1, !.admitted = @ + 1]
<1>1. /\ inv' = [inv EXCEPT ![i] = r] /\ inv[i].st = "open" /\ ~inv[i].past
      /\ InviteFits(inv[i]) /\ ask' = ask
  BY Zenon DEF RedeemInvite, LedgerInv
<1>2. /\ r.st = "redeemed" /\ r.email = inv[i].email /\ ~r.past
      /\ r.used = inv[i].used + 1 /\ r.admitted = inv[i].admitted + 1
  BY <1>1 DEF InviteFits, InviteRow
<1>3. r \in InviteRow
  <2>1. inv[i] \in InviteRow /\ inv[i].used + 1 \in Nat /\ inv[i].admitted + 1 \in Nat
    BY <1>1 DEF InviteFits, InviteRow
  <2>2. QED
    BY <2>1, Zenon DEF InviteRow
<1> HIDE DEF r
<1>4. InviteFits(r)
  BY <1>1, <1>2, <1>3 DEF InviteFits
<1>5. QED
  BY <1>1, <1>2, <1>4, OneInviteMoves, Zenon

LEMMA ExpireInv ==
    ASSUME LedgerInv, NEW i \in Invite, ExpireInvite(i)
    PROVE  LedgerInv'
<1> DEFINE r == [inv[i] EXCEPT !.past = TRUE]
<1>1. /\ inv' = [inv EXCEPT ![i] = r] /\ inv[i].st = "open"
      /\ InviteFits(inv[i]) /\ ask' = ask
  BY DEF ExpireInvite, LedgerInv
<1>2. InviteFits(r) /\ r.st # "none" /\ r.email = inv[i].email
  BY <1>1, Zenon DEF InviteFits, InviteRow
<1>3. QED
  BY <1>1, <1>2, OneInviteMoves, Zenon

(* One request changes without an invitation: a new one that waits alone,   *)
(* or one that waited and was declined.                                     *)
LEMMA OneAskMoves ==
    ASSUME LedgerInv, NEW a \in Ask, NEW r \in AskRow, ask[a].st \in {"none", "pending"},
           ask' = [ask EXCEPT ![a] = r], inv' = inv,
           r.st # "approved", r.invite = 0,
           r.st = "pending" => \A b \in Ask : ~(ask[b].st = "pending" /\ ask[b].email = r.email)
    PROVE  LedgerInv'
<1>1. ask' \in [Ask -> AskRow] /\ \A b \in Ask : ask'[b] = IF b = a THEN r ELSE ask[b]
  BY DEF LedgerInv
<1>2. RequestLedger'
  BY <1>1 DEF RequestLedger, LedgerInv
<1>3. QED
  BY <1>1, <1>2 DEF LedgerInv, OneLiveInvite

LEMMA AskInv ==
    ASSUME LedgerInv, NEW e \in Person, CreateAccessRequest(e), UNCHANGED inv
    PROVE  LedgerInv'
<1> DEFINE r == [st |-> "pending", email |-> e, invite |-> 0]
<1>1. PICK a \in Ask : ask[a].st = "none" /\ ask' = [ask EXCEPT ![a] = r]
  <2>1. PICK a \in Ask : ask[a].st = "none"
                 /\ ask' = [ask EXCEPT ![a] = [NoAsk EXCEPT !.st = "pending", !.email = e]]
    BY Zenon DEF CreateAccessRequest
  <2>2. ask'[a] = [NoAsk EXCEPT !.st = "pending", !.email = e]
    BY <2>1 DEF LedgerInv
  <2>3. ask'[a] = r
    BY <2>2, Zenon DEF NoAsk
  <2>4. ask' = [ask EXCEPT ![a] = ask'[a]]
    BY <2>1, <2>2, Zenon
  <2>5. QED
    BY <2>1, <2>3, <2>4, Zenon
<1>2. 0 \in 0..MaxInvites
  BY AccessAssumption
<1>3. r \in AskRow /\ r.st = "pending" /\ r.email = e /\ r.invite = 0
  BY <1>2 DEF AskRow
<1>4. \A b \in Ask : ~(ask[b].st = "pending" /\ ask[b].email = e)
  BY DEF CreateAccessRequest
<1> HIDE DEF r
<1>5. QED
  BY <1>1, <1>3, <1>4, OneAskMoves, Zenon

LEMMA DeclineInv ==
    ASSUME LedgerInv, NEW a \in Ask, DeclineAccessRequest(a), UNCHANGED inv
    PROVE  LedgerInv'
<1> DEFINE r == [ask[a] EXCEPT !.st = "declined"]
<1>1. ask[a] \in AskRow /\ ask[a].st = "pending" /\ ask' = [ask EXCEPT ![a] = r]
  BY DEF DeclineAccessRequest, LedgerInv
<1>2. ask[a].invite = 0
  BY <1>1 DEF LedgerInv, RequestLedger
<1>3. r \in AskRow /\ r.st = "declined" /\ r.invite = 0
  BY <1>1, <1>2 DEF AskRow
<1> HIDE DEF r
<1>4. QED
  BY <1>1, <1>3, OneAskMoves, Zenon

LEMMA InviteInv ==
    ASSUME LedgerInv, NEW e \in Person, Unissued # {}, createInviteTx(e), UNCHANGED ask
    PROVE  LedgerInv'
<1>1. \A a \in Ask : ask[a].invite # 0 => ask[a].invite \in Invite
  BY AccessAssumption DEF LedgerInv, AskRow, Invite
<1>2. /\ DOMAIN inv' = Invite /\ \A i \in Invite : InviteFits(inv'[i])
      /\ OneLiveInvite'
      /\ \A i \in Invite : inv[i].st # "none" =>
             inv'[i].st # "none" /\ inv'[i].email = inv[i].email
  BY CreateInviteInv
<1>3. RequestLedger'
  BY <1>1, <1>2 DEF RequestLedger, LedgerInv
<1>4. QED
  BY <1>2, <1>3 DEF LedgerInv

LEMMA ApproveInv ==
    ASSUME LedgerInv, NEW a \in Ask, Unissued # {}, ApproveAccessRequest(a)
    PROVE  LedgerInv'
<1> DEFINE n == Min(Unissued)
           r == [ask[a] EXCEPT !.st = "approved", !.invite = n]
<1>1. ask[a] \in AskRow /\ ask[a].st = "pending" /\ ask' = [ask EXCEPT ![a] = r]
  BY Zenon DEF ApproveAccessRequest, LedgerInv
<1>2. createInviteTx(ask[a].email) /\ ask[a].email \in Person
  BY <1>1 DEF ApproveAccessRequest, AskRow
<1>3. /\ DOMAIN inv' = Invite /\ \A i \in Invite : InviteFits(inv'[i])
      /\ OneLiveInvite'
      /\ \A i \in Invite : inv[i].st # "none" =>
             i # n /\ inv'[i].st # "none" /\ inv'[i].email = inv[i].email
      /\ inv'[n].st = "open" /\ inv'[n].email = ask[a].email
  BY <1>2, CreateInviteInv
<1>4. n \in Invite
  BY <1>2, CreateInvite, Zenon
<1> HIDE DEF n
<1>5. r \in AskRow /\ r.st = "approved" /\ r.email = ask[a].email /\ r.invite = n /\ n # 0
  <2>1. n \in 0..MaxInvites /\ n # 0
    BY <1>4, AccessAssumption DEF Invite
  <2>2. QED
    BY <1>1, <2>1, Zenon DEF AskRow
<1> HIDE DEF r
<1>6. ask' \in [Ask -> AskRow] /\ \A b \in Ask : ask'[b] = IF b = a THEN r ELSE ask[b]
  BY <1>1, <1>5 DEF LedgerInv
<1>7. \A b \in Ask : ask[b].invite # 0 => ask[b].invite \in Invite
  BY AccessAssumption DEF LedgerInv, AskRow, Invite
<1>8. \A b \in Ask : ask[b].invite # n
  BY <1>3, <1>5, <1>7 DEF LedgerInv, RequestLedger
<1>9. RequestLedger'
  BY <1>3, <1>5, <1>6, <1>7, <1>8 DEF RequestLedger, LedgerInv
<1>10. QED
  BY <1>3, <1>6, <1>9 DEF LedgerInv

LEMMA NextLedger == LedgerInv /\ LedgerStep => LedgerInv'
<1> SUFFICES ASSUME LedgerInv, LedgerStep PROVE LedgerInv'
  OBVIOUS
<1>1. Guest \subseteq Person
  BY AccessAssumption
<1>2. CASE UNCHANGED <<inv, ask>>
  BY <1>2 DEF LedgerInv, OneLiveInvite, RequestLedger
<1>3. QED
  BY <1>1, <1>2, InviteInv, RevokeInv, RedeemInv, ExpireInv, AskInv, ApproveInv, DeclineInv
  DEF LedgerStep

LEMMA AlwaysLedger == AccessSpec => []LedgerInv
BY InitLedger, NextLedger, StepsOfLedger, PTL DEF AccessSpec

(* createInviteTx, RedeemInvite, the clock and the handlers of access       *)
(* requests, in any order and overlapping: an address has at most one live  *)
(* invitation, and requests and the invitations made of them agree.         *)
THEOREM LedgersAgree == AccessSpec => []InviteLedger
<1>1. LedgerInv => InviteLedger
  BY DEF LedgerInv, InviteLedger
<1>2. QED
  BY <1>1, AlwaysLedger, PTL

(* The guards on "pending" of both decisions: none is taken back or twice.  *)
THEOREM DecisionsFinal == AccessSpec => DecisionIsFinal
<1> DEFINE A == \A a \in Ask : ask[a].st \in {"approved", "declined"} => ask'[a] = ask[a]
<1>1. LedgerInv /\ LedgerStep => A
  <2> SUFFICES ASSUME LedgerInv, LedgerStep, NEW a \in Ask,
                      ask[a].st \in {"approved", "declined"}
               PROVE  ask'[a] = ask[a]
    OBVIOUS
  <2>1. ASSUME NEW b \in Ask, NEW r, ask[b].st \in {"none", "pending"},
               ask' = [ask EXCEPT ![b] = r]
        PROVE  ask'[a] = ask[a]
    BY <2>1 DEF LedgerInv
  <2>2. CASE \E e \in Guest : CreateAccessRequest(e)
    BY <2>1, <2>2 DEF CreateAccessRequest
  <2>3. CASE \E b \in Ask : ApproveAccessRequest(b)
    <3>1. PICK b \in Ask : ask[b].st = "pending" /\
              ask' = [ask EXCEPT ![b] = [@ EXCEPT !.st = "approved", !.invite = Min(Unissued)]]
      BY <2>3, Zenon DEF ApproveAccessRequest
    <3>2. a # b
      BY <3>1
    <3>3. QED
      BY <3>1, <3>2 DEF LedgerInv
  <2>4. CASE \E b \in Ask : DeclineAccessRequest(b)
    BY <2>1, <2>4 DEF DeclineAccessRequest
  <2>5. QED
    BY <2>2, <2>3, <2>4, Zenon DEF LedgerStep, RedeemInvite, ExpireInvite
<1>2. QED
  BY <1>1, StepsOfLedger, AlwaysLedger, PTL DEF AccessSpec, DecisionIsFinal

(* An invitation's row moves as a ticket does.                              *)
LEMMA InviteMoves ==
    ASSUME LedgerInv, LedgerStep, NEW t \in Invite
    PROVE  \/ InviteTicket!Rest(t) \/ InviteTicket!Issue(t)
           \/ InviteTicket!Spend(t) \/ InviteTicket!Close(t)
<1> DEFINE Kept(i) == /\ InviteLife(i)' = InviteLife(i)
                      /\ inv'[i].used = inv[i].used /\ inv'[i].admitted = inv[i].admitted
           Closed(i) == /\ InviteLife(i) \in {"open", "closed"} /\ InviteLife(i)' = "closed"
                        /\ inv'[i].used = inv[i].used /\ inv'[i].admitted = inv[i].admitted
           Spent(i) == /\ InviteLife(i) = "open" /\ InviteLife(i)' = "closed" /\ inv[i].used = 0
                       /\ inv'[i].used = inv[i].used + 1 /\ inv'[i].admitted = inv[i].admitted + 1
           Issued(i) == /\ InviteLife(i) = "unissued" /\ InviteLife(i)' = "open"
                        /\ inv'[i].used = inv[i].used /\ inv'[i].admitted = inv[i].admitted
<1>1. InviteFits(inv[t]) /\ DOMAIN inv = Invite
  BY DEF LedgerInv
<1>2. Kept(t) \/ Closed(t) \/ Spent(t) \/ Issued(t)
  <2>1. CASE UNCHANGED inv
    BY <2>1 DEF InviteLife
  <2>2. ASSUME NEW e \in Person, Unissued # {}, createInviteTx(e)
        PROVE  Kept(t) \/ Closed(t) \/ Issued(t)
    <3> DEFINE n == Min(Unissued)
    <3>1. /\ n \in Invite /\ inv[n].st = "none"
          /\ inv'[n] = [NoInvite EXCEPT !.st = "open", !.email = e]
          /\ \A i \in Invite \ {n} :
               inv'[i] = IF inv[i].st = "open" /\ inv[i].email = e
                         THEN [inv[i] EXCEPT !.st = "revoked", !.past = FALSE] ELSE inv[i]
      BY <2>2, CreateInvite, Zenon
    <3> HIDE DEF n
    <3>2. CASE t = n
      <4>1. inv'[t] = [st |-> "open", email |-> e, past |-> FALSE, used |-> 0, admitted |-> 0]
        BY <3>1, <3>2, Zenon DEF NoInvite
      <4>2. inv[t].used = 0 /\ inv[t].admitted = 0
        BY <1>1, <3>1, <3>2, Zenon DEF InviteFits
      <4>3. inv'[t].st = "open" /\ inv'[t].past = FALSE /\ inv'[t].used = 0 /\ inv'[t].admitted = 0
        BY <4>1
      <4>4. InviteLife(t) = "unissued" /\ InviteLife(t)' = "open"
        BY <3>1, <3>2, <4>3, Zenon DEF InviteLife
      <4>5. QED
        BY <4>2, <4>3, <4>4
    <3>3. CASE t # n /\ inv[t].st = "open" /\ inv[t].email = e
      <4>1. inv'[t] = [inv[t] EXCEPT !.st = "revoked", !.past = FALSE]
        BY <3>1, <3>3, Zenon
      <4>2. QED
        BY <1>1, <3>3, <4>1 DEF InviteLife, InviteFits, InviteRow
    <3>4. CASE t # n /\ ~(inv[t].st = "open" /\ inv[t].email = e)
      BY <3>1, <3>4, Zenon DEF InviteLife
    <3>5. QED
      BY <3>2, <3>3, <3>4
  <2>3. ASSUME NEW i \in Invite, RevokeInvite(i)
        PROVE  Kept(t) \/ Closed(t)
    BY <1>1, <2>3 DEF RevokeInvite, InviteLife, InviteFits, InviteRow
  <2>4. ASSUME NEW i \in Invite, RedeemInvite(i)
        PROVE  Kept(t) \/ Spent(t)
    BY <1>1, <2>4 DEF RedeemInvite, InviteLife, InviteFits, InviteRow
  <2>5. ASSUME NEW i \in Invite, ExpireInvite(i)
        PROVE  Kept(t) \/ Closed(t)
    BY <1>1, <2>5 DEF ExpireInvite, InviteLife, InviteFits, InviteRow
  <2>6. ASSUME NEW a \in Ask, Unissued # {}, ApproveAccessRequest(a)
        PROVE  Kept(t) \/ Closed(t) \/ Issued(t)
    <3>1. ask[a].email \in Person /\ createInviteTx(ask[a].email)
      BY <2>6 DEF LedgerInv, AskRow, ApproveAccessRequest
    <3>2. QED
      BY <2>2, <2>6, <3>1
  <2>7. Guest \subseteq Person
    BY AccessAssumption
  <2>8. QED
    BY <2>1, <2>2, <2>3, <2>4, <2>5, <2>6, <2>7 DEF LedgerStep
<1>3. InviteLife(t) \in {"unissued", "open", "closed"}
  BY DEF InviteLife
<1>4. QED
  BY <1>2, <1>3 DEF InviteTicket!Rest, InviteTicket!Issue, InviteTicket!Spend, InviteTicket!Close

(* RedeemInvite and createInviteTx implement tickets for one: an invitation *)
(* admits once, and never after it was revoked, superseded or ran out.      *)
THEOREM InvitesImplementTickets == AccessSpec => InvitesAreTickets
<1>1. AccessInit => InviteTicket!TicketInit
  BY DEF AccessInit, InviteTicket!TicketInit, InviteLife, NoInvite
<1>2. LedgerInv /\ LedgerStep => InviteTicket!TicketNext
  BY InviteMoves DEF InviteTicket!TicketNext
<1>3. QED
  BY <1>1, <1>2, StepsOfLedger, AlwaysLedger, PTL
  DEF AccessSpec, InvitesAreTickets, InviteTicket!TicketSpec

-----------------------------------------------------------------------------
(* The last member                                                          *)

Removing(p) == h[p].pc = "remove"

(* Until two removals overlap there is a member, and while one has passed   *)
(* its count there are two, of whom it takes one.                           *)
MemberInv ==
    /\ DOMAIN h = Person
    /\ ~overlap => /\ members # {}
                   /\ \A p, q \in Person : Removing(p) /\ Removing(q) => p = q
                   /\ \A p \in Person : Removing(p) => \E x, y \in members : x # y

(* A set that counts more than one has two elements.                        *)
LEMMA TwoElements ==
    ASSUME NEW S, Cardinality(S) > 1
    PROVE  \E x, y \in S : x # y
<1> SUFFICES ASSUME \A x, y \in S : x = y PROVE FALSE
  OBVIOUS
<1>1. CASE S = {}
  BY <1>1, FS_EmptySet
<1>2. ASSUME NEW x \in S PROVE FALSE
  <2>1. S = {x}
    BY <1>2
  <2>2. Cardinality({x}) = 1
    BY FS_Singleton
  <2>3. QED
    BY <2>1, <2>2
<1>3. QED
  BY <1>1, <1>2

(* Steps that start no removal, take no member away and record no overlap.  *)
Harmless ==
    /\ DOMAIN h' = Person
    /\ \A p \in Person : h'[p].pc = "remove" => Removing(p)
    /\ members \subseteq members' /\ overlap' = overlap

(* All are, but the count and the delete of handleRemoveMember.             *)
LEMMA HarmlessSteps ==
    ASSUME MemberInv, [AccessNext]_accessVars
    PROVE  \/ Harmless
           \/ \E p \in Person : RemoveOrgMember(p) \/ \E e \in Person : handleRemoveMember(p, e)
<1>0. DOMAIN h = Person
  BY DEF MemberInv
<1>1. CASE UNCHANGED accessVars
  BY <1>0, <1>1 DEF accessVars, Harmless, Removing
<1>2. CASE BootstrapOperator
  BY <1>2 DEF BootstrapOperator, Harmless, NoCall
<1>3. ASSUME UNCHANGED <<h, overlap>>, members \subseteq members' PROVE Harmless
  BY <1>0, <1>3 DEF Harmless, Removing
<1>4. ASSUME NEW p \in Person, NEW mine, h' = [h EXCEPT ![p] = mine], mine.pc # "remove",
             members \subseteq members', UNCHANGED overlap
      PROVE  Harmless
  BY <1>0, <1>4 DEF Harmless, Removing
<1>5. ASSUME NEW p \in Person, NEW pc, NEW who, Goto(p, pc, who), pc # "remove",
             members \subseteq members', UNCHANGED overlap
      PROVE  Harmless
  <2> DEFINE mine == [pc |-> pc, who |-> who]
  <2>1. h' = [h EXCEPT ![p] = mine] /\ mine.pc # "remove"
    BY <1>5 DEF Goto
  <2> HIDE DEF mine
  <2>2. QED
    BY <1>4, <1>5, <2>1, Zenon
<1>6. ASSUME NEW p \in Person, CreateOperator(p) \/ IssueOperatorToken(p) \/ AddOrgMember(p)
                                  \/ handleRevokeToken(p) \/ RevokeOperatorToken(p) \/ Abort(p)
      PROVE  Harmless
  <2>1. NoCall.pc # "remove"
    BY DEF NoCall
  <2>2. members \subseteq members' /\ UNCHANGED overlap
    BY <1>6 DEF CreateOperator, IssueOperatorToken, AddOrgMember, handleRevokeToken,
         RevokeOperatorToken, Abort
  <2>3. Return(p) \/ \E pc \in {"issue", "add", "revoke"} : \E who : Goto(p, pc, who)
    BY <1>6 DEF CreateOperator, IssueOperatorToken, AddOrgMember, handleRevokeToken,
         RevokeOperatorToken, Abort
  <2>4. CASE Return(p)
    BY <1>4, <2>1, <2>2, <2>4, Zenon DEF Return
  <2>5. ASSUME NEW pc \in {"issue", "add", "revoke"}, NEW who, Goto(p, pc, who) PROVE Harmless
    <3>1. pc # "remove"
      OBVIOUS
    <3>2. QED
      BY <1>5, <2>2, <2>5, <3>1
  <2>6. QED
    BY <2>3, <2>4, <2>5
<1>7. ASSUME NEW p \in Person, NEW e \in Person, handleAddMember(p, e) PROVE Harmless
  <2>1. PICK pc \in {"add", "create"} : Goto(p, pc, e)
    BY <1>7 DEF handleAddMember
  <2>2. members \subseteq members' /\ UNCHANGED overlap
    BY <1>7 DEF handleAddMember
  <2>3. pc # "remove"
    OBVIOUS
  <2>4. QED
    BY <1>5, <2>1, <2>2, <2>3
<1>8. CASE \/ \E p \in Person :
                \/ handleCreateToken(p) \/ ExpireToken(p) \/ DisableOperator(p)
                \/ \E e \in Guest : handleCreateInvite(p, e)
                \/ \E i \in Invite : handleRevokeInvite(p, i)
                \/ \E a \in Ask :
                     handleApproveAccessRequest(p, a) \/ handleDeclineAccessRequest(p, a)
           \/ \E e \in Guest : handleCreateAccessRequest(e)
           \/ \E i \in Invite : RedeemInvite(i) \/ ExpireInvite(i)
  BY <1>3, <1>8, Zenon DEF handleCreateToken, ExpireToken, DisableOperator, handleCreateInvite,
       handleRevokeInvite, handleApproveAccessRequest, handleDeclineAccessRequest,
       handleCreateAccessRequest, RedeemInvite, ExpireInvite
<1>9. QED
  BY <1>1, <1>2, <1>6, <1>7, <1>8 DEF AccessNext

(* handleRemoveMember refuses to take the last member; two of its calls     *)
(* must have passed the count before either deletes for there to be none.   *)
THEOREM MembersKept == AccessSpec => []KeepsMember
<1>1. AccessInit => MemberInv
  BY DEF AccessInit, MemberInv, Removing, NoCall
<1>2. ASSUME MemberInv, [AccessNext]_accessVars PROVE MemberInv'
  <2>1. CASE Harmless
    BY <1>2, <2>1 DEF MemberInv, Harmless, Removing
  <2>2. ASSUME NEW p \in Person, RemoveOrgMember(p) PROVE MemberInv'
    <3>1. /\ Removing(p) /\ h' = [h EXCEPT ![p] = NoCall] /\ overlap' = overlap
          /\ members' = members \ {h[p].who} /\ NoCall.pc # "remove"
      BY <2>2 DEF RemoveOrgMember, At, Return, Removing, NoCall
    <3>2. DOMAIN h' = Person /\ \A q \in Person : h'[q].pc = "remove" => q # p /\ Removing(q)
      BY <1>2, <3>1 DEF MemberInv, Removing
    <3>3. ~overlap' => members' # {} /\ \A q \in Person : ~(h'[q].pc = "remove")
      BY <1>2, <3>1, <3>2 DEF MemberInv
    <3>4. QED
      BY <3>2, <3>3 DEF MemberInv, Removing
  <2>3. ASSUME NEW p \in Person, NEW e \in Person, handleRemoveMember(p, e) PROVE MemberInv'
    <3>1. /\ Cardinality(members) > 1 /\ members' = members
          /\ h' = [h EXCEPT ![p] = [pc |-> "remove", who |-> e]]
          /\ overlap' = (overlap \/ \E q \in Person : Removing(q))
      BY <2>3 DEF handleRemoveMember, Goto, At, Removing
    <3>2. \E x, y \in members : x # y
      BY <3>1, TwoElements
    <3>3. DOMAIN h' = Person /\ \A q \in Person : h'[q].pc = "remove" => q = p \/ Removing(q)
      BY <1>2, <3>1 DEF MemberInv, Removing
    <3>4. ~overlap' => \A q \in Person : h'[q].pc = "remove" => q = p
      BY <3>1, <3>3, Zenon
    <3>5. QED
      BY <3>1, <3>2, <3>3, <3>4 DEF MemberInv, Removing
  <2>4. QED
    BY <1>2, <2>1, <2>2, <2>3, HarmlessSteps
<1>3. MemberInv => KeepsMember
  BY DEF MemberInv, KeepsMember
<1>4. QED
  BY <1>1, <1>2, <1>3, PTL DEF AccessSpec

-----------------------------------------------------------------------------
(* The catalog.                                                            *)

Version == [stack : Stack, version : Nat \ {0}, digest : Digest]
PushCall == [op : {"push"}, stack : Stack, digest : Digest, seen : Nat, number : Nat]
DeployCall == [op : {"deploy"}, from : EnvName, spec : Digest,
               checked : BOOLEAN, lost : SUBSET SecretKey]
PreviewCall == [op : {"preview"}, stack : Stack, from : EnvName \cup {NoValue}, spec : Digest,
                checked : BOOLEAN, lost : SUBSET SecretKey]

\* Numbers, of any set of versions.
NumbersOf(V, st) == {v.version : v \in {w \in V : w.stack = st}}

\* A push among the versions V: the number it computed was the next one then,
\* so it is taken by now or still the next; what it saw was another manifest.
PushFits(V, r) ==
    /\ r \in PushCall
    /\ [stack |-> r.stack, version |-> r.seen, digest |-> r.digest] \notin V
    /\ \E n \in Nat : NumbersOf(V, r.stack) = 1..n /\ r.number <= n + 1 /\ r.seen <= n

\* A call that deploys, among the environments E with the secrets S: what it
\* reads from was created, and once it has checked, what is required is set
\* or went away since.
DeployFits(E, S, r) ==
    /\ r \in DeployCall \cup PreviewCall
    /\ r.from # NoValue => E[r.from] # NoValue
    /\ r.checked => Required[r.spec] \subseteq (IF r.from = NoValue THEN {} ELSE S[r.from]) \cup r.lost

(* The numbers of a stack are 1..n, and every call in progress fits.        *)
CatalogInv ==
    /\ versions \subseteq Version
    /\ \A st \in Stack : \E n \in Nat : NumbersOf(versions, st) = 1..n
    /\ DOMAIN env = EnvName
    /\ \A e \in EnvName : env[e] \notin {NoValue, Gone} => env[e].stack \in Stack
    /\ set \in [EnvName -> SUBSET SecretKey]
    /\ dep \in [EnvName -> SUBSET Digest]
    /\ DOMAIN call = Caller
    /\ \A c \in Caller : \/ call[c] = NoValue
                         \/ PushFits(versions, call[c])
                         \/ DeployFits(env, set, call[c])

(* A greatest element of a set of numbers is what Max chooses.              *)
LEMMA MaxIs ==
    ASSUME NEW S \in SUBSET Nat, NEW n \in S, \A y \in S : n >= y
    PROVE  Max(S) = n
<1>1. ASSUME NEW x \in S, \A y \in S : x >= y
      PROVE  x = n
  <2>1. x >= n /\ n >= x /\ x \in Nat /\ n \in Nat
    BY <1>1
  <2>2. QED
    BY <2>1
<1>2. QED
  BY <1>1, Zenon DEF Max

(* The newest of n versions is n, also when there is none.                  *)
LEMMA LatestOfN ==
    ASSUME NEW st, NEW n \in Nat, NumbersOf(versions, st) = 1..n
    PROVE  LatestStackVersion(st) = n
<1>1. 1..n \cup {0} \in SUBSET Nat /\ n \in 1..n \cup {0} /\ \A y \in 1..n \cup {0} : n >= y
  OBVIOUS
<1>2. Max(1..n \cup {0}) = n
  BY <1>1, MaxIs
<1>3. QED
  BY <1>2 DEF LatestStackVersion, Numbers, NumbersOf


LEMMA InitInv == CatalogInit => CatalogInv
<1> SUFFICES ASSUME CatalogInit PROVE CatalogInv
  OBVIOUS
<1>1. \A st \in Stack : NumbersOf(versions, st) = 1..0
  BY DEF CatalogInit, NumbersOf
<1>2. QED
  BY <1>1, Zenon DEF CatalogInit, CatalogInv

(* A call that moves on alone, over the same tables.                        *)
LEMMA OneCallMoves ==
    ASSUME CatalogInv, NEW c \in Caller, NEW r, Hold(c, r),
           UNCHANGED <<versions, env, set, dep>>,
           r = NoValue \/ PushFits(versions, r) \/ DeployFits(env, set, r)
    PROVE  CatalogInv'
<1>1. \A o \in Caller : call'[o] = IF o = c THEN r ELSE call[o]
  BY DEF Hold, CatalogInv
<1>2. DOMAIN call' = Caller
  BY DEF Hold, CatalogInv
<1>3. ASSUME NEW o \in Caller
      PROVE  \/ call'[o] = NoValue
             \/ PushFits(versions, call'[o])
             \/ DeployFits(env, set, call'[o])
  BY <1>1 DEF CatalogInv
<1>4. QED
  BY <1>2, <1>3 DEF CatalogInv

LEMMA PushLookInv ==
    ASSUME CatalogInv, NEW c \in Caller, NEW st \in Stack, NEW d \in Digest, PushLook(c, st, d)
    PROVE  CatalogInv'
<1> DEFINE n == LatestStackVersion(st)
           r == [op |-> "push", stack |-> st, digest |-> d, seen |-> n, number |-> 0]
<1>1. PICK k \in Nat : NumbersOf(versions, st) = 1..k
  BY DEF CatalogInv
<1>2. n = k
  BY <1>1, LatestOfN
<1>3. PushFits(versions, r)
  BY <1>1, <1>2 DEF PushFits, PushCall, PushLook, Same
<1>4. QED
  BY <1>3, OneCallMoves DEF PushLook

LEMMA PushNumberInv ==
    ASSUME CatalogInv, NEW c \in Caller, PushNumber(c)
    PROVE  CatalogInv'
<1> DEFINE n == LatestStackVersion(call[c].stack)
           r == [call[c] EXCEPT !.number = n + 1]
<1>1. PushFits(versions, call[c])
  BY DEF PushNumber, Busy, CatalogInv, DeployFits, DeployCall, PreviewCall
<1>2. PICK k \in Nat : NumbersOf(versions, call[c].stack) = 1..k /\ call[c].seen <= k
  BY <1>1 DEF PushFits
<1>3. n = k
  BY <1>2, LatestOfN
<1>4. /\ r \in PushCall /\ r.stack = call[c].stack /\ r.digest = call[c].digest
      /\ r.seen = call[c].seen /\ r.number = k + 1
  BY <1>1, <1>3 DEF PushFits, PushCall
<1>5. PushFits(versions, r)
  BY <1>1, <1>2, <1>4 DEF PushFits
<1>6. QED
  BY <1>5, OneCallMoves DEF PushNumber
(* A push that finds its number free has the next one: it is appended.      *)
LEMMA NextNumber ==
    ASSUME CatalogInv, NEW c \in Caller, PushInsert(c), versions' # versions
    PROVE  \E n \in Nat :
             /\ PushFits(versions, call[c])
             /\ NumbersOf(versions, call[c].stack) = 1..n
             /\ call[c].number = n + 1 /\ call[c].seen <= n
             /\ versions' = versions \cup {[stack |-> call[c].stack, version |-> n + 1,
                                            digest |-> call[c].digest]}
<1>1. PushFits(versions, call[c])
  BY DEF PushInsert, Busy, CatalogInv, DeployFits, DeployCall, PreviewCall
<1>2. PICK n \in Nat : /\ NumbersOf(versions, call[c].stack) = 1..n
                       /\ call[c].number <= n + 1 /\ call[c].seen <= n
  BY <1>1 DEF PushFits
<1>3. call[c].number \in Nat /\ call[c].number > 0
  BY <1>1 DEF PushFits, PushCall, PushInsert
<1>4. call[c].number \notin 1..n
  BY <1>2 DEF PushInsert, Numbers, NumbersOf
<1>5. call[c].number = n + 1
  BY <1>2, <1>3, <1>4
<1>6. versions' = versions \cup {[stack |-> call[c].stack, version |-> call[c].number,
                                  digest |-> call[c].digest]}
  BY DEF PushInsert
<1>7. QED
  BY <1>1, <1>2, <1>5, <1>6

(* The numbers of the stack that got version n + 1, and of another one.     *)
LEMMA Appended ==
    ASSUME NEW V, NEW v, NEW n \in Nat,
           NumbersOf(V, v.stack) = 1..n, v.version = n + 1
    PROVE  /\ NumbersOf(V \cup {v}, v.stack) = 1..(n + 1)
           /\ \A o : o # v.stack => NumbersOf(V \cup {v}, o) = NumbersOf(V, o)
<1>1. NumbersOf(V \cup {v}, v.stack) = NumbersOf(V, v.stack) \cup {v.version}
  <2>1. \A x : x \in NumbersOf(V \cup {v}, v.stack)
                 <=> x \in NumbersOf(V, v.stack) \/ x = v.version
    BY DEF NumbersOf
  <2>2. QED
    BY <2>1, Zenon
<1>2. 1..n \cup {n + 1} = 1..(n + 1)
  OBVIOUS
<1>3. ASSUME NEW o, o # v.stack
      PROVE  NumbersOf(V \cup {v}, o) = NumbersOf(V, o)
  BY <1>3 DEF NumbersOf
<1>4. QED
  BY <1>1, <1>2, <1>3, Zenon

(* The pushes of others still fit when a version is appended.               *)
LEMMA PushStillFits ==
    ASSUME NEW V, NEW v, NEW n \in Nat,
           NumbersOf(V, v.stack) = 1..n, v.version = n + 1,
           NEW r, PushFits(V, r)
    PROVE  PushFits(V \cup {v}, r)
<1> DEFINE W == V \cup {v}
           s == [stack |-> r.stack, version |-> r.seen, digest |-> r.digest]
<1>1. PICK k \in Nat : NumbersOf(V, r.stack) = 1..k /\ r.number <= k + 1 /\ r.seen <= k
  BY DEF PushFits
<1>2. r \in PushCall /\ s \notin V
  BY DEF PushFits
<1>3. /\ NumbersOf(W, v.stack) = 1..(n + 1)
      /\ \A o : o # v.stack => NumbersOf(W, o) = NumbersOf(V, o)
  BY Appended, Zenon
<1>4. CASE r.stack = v.stack
  <2>1. k = n
    <3>1. 1..k = 1..n
      BY <1>1, <1>4
    <3>2. QED
      BY <3>1
  <2>2. r.number <= (n + 1) + 1 /\ r.seen <= n + 1 /\ r.seen # n + 1
    BY <1>1, <1>2, <2>1 DEF PushCall
  <2>3. s \notin W
    BY <1>2, <2>2
  <2>4. NumbersOf(W, r.stack) = 1..(n + 1) /\ n + 1 \in Nat
    BY <1>3, <1>4
  <2>5. QED
    BY <1>2, <2>2, <2>3, <2>4 DEF PushFits
<1>5. CASE r.stack # v.stack
  <2>1. NumbersOf(W, r.stack) = 1..k
    BY <1>1, <1>3, <1>5, Zenon
  <2>2. s \notin W
    BY <1>2, <1>5
  <2>3. QED
    BY <1>1, <1>2, <2>1, <2>2 DEF PushFits
<1>6. QED
  BY <1>4, <1>5

LEMMA PushInsertInv ==
    ASSUME CatalogInv, NEW c \in Caller, PushInsert(c)
    PROVE  CatalogInv'
<1>1. CASE versions' = versions
  BY <1>1, OneCallMoves DEF PushInsert, Finish
<1>2. CASE versions' # versions
  <2>1. PICK n \in Nat :
             /\ PushFits(versions, call[c])
             /\ NumbersOf(versions, call[c].stack) = 1..n
             /\ versions' = versions \cup {[stack |-> call[c].stack, version |-> n + 1,
                                            digest |-> call[c].digest]}
    BY <1>2, NextNumber
  <2> DEFINE v == [stack |-> call[c].stack, version |-> n + 1, digest |-> call[c].digest]
  <2>v. NumbersOf(versions, v.stack) = 1..n /\ v.version = n + 1 /\ versions' = versions \cup {v}
    BY <2>1
  <2>2. versions' \subseteq Version
    BY <2>1 DEF CatalogInv, PushFits, PushCall, Version
  <2> HIDE DEF v
  <2>3. \A st \in Stack : \E k \in Nat : NumbersOf(versions', st) = 1..k
    <3>1. /\ NumbersOf(versions', v.stack) = 1..(n + 1)
          /\ \A o : o # v.stack => NumbersOf(versions', o) = NumbersOf(versions, o)
      <4>1. /\ NumbersOf(versions \cup {v}, v.stack) = 1..(n + 1)
            /\ \A o : o # v.stack =>
                   NumbersOf(versions \cup {v}, o) = NumbersOf(versions, o)
        BY <2>v, Appended, Zenon
      <4>2. QED
        BY <2>v, <4>1, Zenon
    <3>2. n + 1 \in Nat
      OBVIOUS
    <3>3. QED
      BY <3>1, <3>2 DEF CatalogInv
  <2>4. DOMAIN call' = Caller /\ \A o \in Caller : call'[o] = IF o = c THEN NoValue ELSE call[o]
    BY DEF PushInsert, Finish, Hold, CatalogInv
  <2>5. ASSUME NEW o \in Caller
        PROVE  \/ call'[o] = NoValue
               \/ PushFits(versions', call'[o])
               \/ DeployFits(env', set', call'[o])
    <3>1. CASE PushFits(versions, call[o]) /\ o # c
      BY <2>v, <2>4, <3>1, PushStillFits
    <3>2. CASE o = c \/ call[o] = NoValue \/ DeployFits(env, set, call[o])
      BY <2>4, <3>2 DEF PushInsert
    <3>3. QED
      BY <3>1, <3>2 DEF CatalogInv
  <2>6. QED
    BY <2>2, <2>3, <2>4, <2>5, Zenon DEF CatalogInv, PushInsert
<1>3. QED
  BY <1>1, <1>2

(* A step that appends no version and takes nothing from an environment    *)
(* that exists, after which a call holds what it held or nothing.           *)
LEMMA TablesGrow ==
    ASSUME CatalogInv, versions' = versions, DOMAIN env' = EnvName,
           \A e \in EnvName : env'[e] \notin {NoValue, Gone} => env'[e].stack \in Stack,
           set' \in [EnvName -> SUBSET SecretKey], dep' \in [EnvName -> SUBSET Digest],
           \A e \in EnvName : env[e] # NoValue => env'[e] # NoValue /\ set[e] \subseteq set'[e],
           DOMAIN call' = Caller,
           \A c \in Caller : call'[c] \in {call[c], NoValue}
    PROVE  CatalogInv'
<1>1. ASSUME NEW r, DeployFits(env, set, r)
      PROVE  DeployFits(env', set', r)
  <2>1. r.from = NoValue \/ r.from \in EnvName
    BY <1>1 DEF DeployFits, DeployCall, PreviewCall
  <2>2. CASE r.from = NoValue
    BY <1>1, <2>2 DEF DeployFits
  <2>3. CASE r.from \in EnvName /\ r.from # NoValue
    <3>1. env[r.from] # NoValue /\ env'[r.from] # NoValue /\ set[r.from] \subseteq set'[r.from]
      BY <1>1, <2>3 DEF DeployFits
    <3>2. QED
      BY <1>1, <2>3, <3>1 DEF DeployFits
  <2>4. QED
    BY <2>1, <2>2, <2>3
<1>2. ASSUME NEW c \in Caller
      PROVE  \/ call'[c] = NoValue
             \/ PushFits(versions', call'[c])
             \/ DeployFits(env', set', call'[c])
  BY <1>1 DEF CatalogInv
<1>3. QED
  BY <1>2 DEF CatalogInv

LEMMA CreateEnvironmentInv ==
    ASSUME CatalogInv, NEW e \in EnvName, NEW st \in Stack, CreateEnvironment(e, st)
    PROVE  CatalogInv'
<1>1. \A o \in EnvName :
        env'[o] = IF o = e THEN [stack |-> st, ephemeral |-> FALSE] ELSE env[o]
  BY DEF CreateEnvironment, CatalogInv
<1>2. env[e] = NoValue
  BY DEF CreateEnvironment, Unused
<1>3. DOMAIN env' = EnvName /\ UNCHANGED <<versions, set, dep, call>>
  BY DEF CreateEnvironment, CatalogInv
<1>4. \A o \in EnvName : env'[o] \notin {NoValue, Gone} => env'[o].stack \in Stack
  BY <1>1 DEF CatalogInv
<1>5. \A o \in EnvName : env[o] # NoValue => env'[o] # NoValue /\ set[o] \subseteq set'[o]
  BY <1>1, <1>2, <1>3
<1>6. QED
  BY <1>3, <1>4, <1>5, TablesGrow, Zenon DEF CatalogInv

LEMMA SetSecretInv ==
    ASSUME CatalogInv, NEW e \in EnvName, NEW k \in SecretKey, handleSetSecret(e, k)
    PROVE  CatalogInv'
<1>1. set' \in [EnvName -> SUBSET SecretKey] /\ \A o \in EnvName : set[o] \subseteq set'[o]
  BY Zenon DEF handleSetSecret, CatalogInv
<1>2. QED
  BY <1>1, TablesGrow, Zenon DEF handleSetSecret, CatalogInv

(* What goes from under a call that has checked is noted as lost.           *)
LEMMA LosingFits ==
    ASSUME CatalogInv, NEW e \in EnvName, NEW ks \in SUBSET SecretKey,
           env[e] # NoValue => env'[e] # NoValue,
           DOMAIN env' = EnvName, \A o \in EnvName : o # e => env'[o] = env[o],
           set' = [set EXCEPT ![e] = @ \ ks], call' = Losing(e, ks),
           NEW c \in Caller
    PROVE  \/ call'[c] = NoValue
           \/ PushFits(versions, call'[c])
           \/ DeployFits(env', set', call'[c])
<1> DEFINE r == call[c]
<1>0. call'[c] = IF (Checked(c, "deploy") \/ Checked(c, "preview")) /\ r.from = e
                 THEN [r EXCEPT !.lost = @ \cup ks] ELSE r
  BY DEF Losing
<1>1. CASE r = NoValue \/ PushFits(versions, r)
  BY <1>0, <1>1 DEF Checked, Busy, PushFits, PushCall
<1>2. CASE r # NoValue /\ DeployFits(env, set, r)
  <2>1. /\ r \in DeployCall \cup PreviewCall
        /\ Checked(c, "deploy") \/ Checked(c, "preview") <=> r.checked
    BY <1>2 DEF DeployFits, Checked, Busy, DeployCall, PreviewCall
  <2>2. r.from \in EnvName \cup {NoValue}
    BY <2>1 DEF DeployCall, PreviewCall
  <2>3. \A o \in EnvName : set'[o] = IF o = e THEN set[o] \ ks ELSE set[o]
    BY Zenon DEF CatalogInv
  <2>4. CASE r.checked /\ r.from = e
    <3> DEFINE q == [r EXCEPT !.lost = @ \cup ks]
    <3>1. /\ q \in DeployCall \cup PreviewCall
          /\ q.from = e /\ q.spec = r.spec /\ q.lost = r.lost \cup ks
      BY <2>1, <2>4 DEF DeployCall, PreviewCall
    <3>2. e # NoValue /\ env'[e] # NoValue
      BY <1>2, <2>4, CatalogAssumption DEF DeployFits
    <3>3. Required[r.spec] \subseteq set[e] \cup r.lost
      BY <1>2, <2>4, <3>2 DEF DeployFits
    <3>4. Required[q.spec] \subseteq set'[e] \cup q.lost
      BY <3>1, <3>3, <2>3
    <3>5. call'[c] = q
      BY <1>0, <2>1, <2>4
    <3> HIDE DEF q
    <3>6. DeployFits(env', set', q)
      BY <3>1, <3>2, <3>4 DEF DeployFits
    <3>7. QED
      BY <3>5, <3>6
  <2>5. CASE ~(r.checked /\ r.from = e)
    <3>1. call'[c] = r
      BY <1>0, <2>1, <2>5
    <3>2. r.from # NoValue => env'[r.from] # NoValue
      BY <1>2, <2>2 DEF DeployFits
    <3>3. r.checked /\ r.from # NoValue => set'[r.from] = set[r.from]
      BY <2>2, <2>3, <2>5
    <3>4. DeployFits(env', set', r)
      BY <1>2, <2>1, <3>2, <3>3 DEF DeployFits
    <3>5. QED
      BY <3>1, <3>4
  <2>6. QED
    BY <2>4, <2>5
<1>3. QED
  BY <1>1, <1>2, Zenon DEF CatalogInv

LEMMA DeleteSecretInv ==
    ASSUME CatalogInv, NEW e \in EnvName, NEW k \in SecretKey, handleDeleteSecret(e, k)
    PROVE  CatalogInv'
<1>1. \A c \in Caller : \/ call'[c] = NoValue
                        \/ PushFits(versions, call'[c])
                        \/ DeployFits(env', set', call'[c])
  <2>1. /\ set' = [set EXCEPT ![e] = @ \ {k}] /\ call' = Losing(e, {k})
        /\ env' = env /\ DOMAIN env' = EnvName /\ {k} \in SUBSET SecretKey
    BY DEF handleDeleteSecret, CatalogInv
  <2>2. QED
    BY <2>1, LosingFits, Zenon
<1>2. set' \in [EnvName -> SUBSET SecretKey] /\ DOMAIN call' = Caller
  BY DEF handleDeleteSecret, CatalogInv, Losing
<1>3. QED
  BY <1>1, <1>2, Zenon DEF handleDeleteSecret, CatalogInv

LEMMA ExpireEnvironmentInv ==
    ASSUME CatalogInv, NEW e \in EnvName, ExpireEnvironment(e)
    PROVE  CatalogInv'
<1>1. /\ DOMAIN env' = EnvName /\ env'[e] = Gone
      /\ \A o \in EnvName : o # e => env'[o] = env[o]
  BY DEF ExpireEnvironment, CatalogInv
<1>2. \A c \in Caller : \/ call'[c] = NoValue
                        \/ PushFits(versions, call'[c])
                        \/ DeployFits(env', set', call'[c])
  <2>1. set' = [set EXCEPT ![e] = @ \ set[e]] /\ set[e] \in SUBSET SecretKey
    BY Zenon DEF ExpireEnvironment, CatalogInv
  <2>2. call' = Losing(e, set[e]) /\ env'[e] # NoValue
    BY <1>1, CatalogAssumption DEF ExpireEnvironment
  <2>3. QED
    BY <1>1, <2>1, <2>2, LosingFits, Zenon
<1>3. /\ set' \in [EnvName -> SUBSET SecretKey] /\ dep' \in [EnvName -> SUBSET Digest]
      /\ DOMAIN call' = Caller /\ versions' = versions
  BY DEF ExpireEnvironment, CatalogInv, Losing
<1>4. \A o \in EnvName : env'[o] \notin {NoValue, Gone} => env'[o].stack \in Stack
  BY <1>1 DEF CatalogInv
<1>5. QED
  BY <1>1, <1>2, <1>3, <1>4, Zenon DEF CatalogInv

LEMMA BeginInv ==
    ASSUME CatalogInv, NEW c \in Caller, Begin(c)
    PROVE  CatalogInv'
<1>1. CASE \E st \in Stack, d \in Digest : PushLook(c, st, d)
  BY <1>1, PushLookInv
<1>2. ASSUME NEW e \in Present, NEW d \in Digest, UNCHANGED <<versions, env, set, dep>>,
             Hold(c, [op |-> "deploy", from |-> e, spec |-> d, checked |-> FALSE, lost |-> {}])
      PROVE  CatalogInv'
  <2> DEFINE r == [op |-> "deploy", from |-> e, spec |-> d, checked |-> FALSE, lost |-> {}]
  <2>1. DeployFits(env, set, r)
    BY DEF DeployFits, DeployCall, Present
  <2>2. QED
    BY <1>2, <2>1, OneCallMoves
<1>3. CASE \E e \in Present, v \in versions : handleCreateDeployment(c, e, v)
  BY <1>2, <1>3, Zenon DEF handleCreateDeployment, CatalogInv, Version
<1>4. CASE \E e \in Present : \E d \in dep[e] : handleRollback(c, e, d)
  BY <1>2, <1>4, Zenon DEF handleRollback, CatalogInv, Present
<1>5. ASSUME NEW v \in versions, NEW from \in Present \cup {NoValue},
             handleCreatePreview(c, v, from)
      PROVE  CatalogInv'
  <2> DEFINE r == [op |-> "preview", stack |-> v.stack, from |-> from, spec |-> v.digest,
                   checked |-> FALSE, lost |-> {}]
  <2>1. v.stack \in Stack /\ v.digest \in Digest
    BY DEF CatalogInv, Version
  <2>2. DeployFits(env, set, r)
    BY <2>1, Zenon DEF DeployFits, PreviewCall, Present
  <2>3. QED
    BY <1>5, <2>2, OneCallMoves DEF handleCreatePreview
<1>6. QED
  BY <1>1, <1>3, <1>4, <1>5 DEF Begin

LEMMA CheckInv ==
    ASSUME CatalogInv, NEW c \in Caller, Check(c)
    PROVE  CatalogInv'
<1> DEFINE r == call[c]
           q == [r EXCEPT !.checked = TRUE]
<1>1. DeployFits(env, set, r)
  BY Zenon DEF Check, Busy, CatalogInv, PushFits, PushCall
<1>2. CASE missing(r) = {}
  <2>1. /\ q \in DeployCall \cup PreviewCall
        /\ q.from = r.from /\ q.spec = r.spec
    BY <1>1, Zenon DEF DeployFits, DeployCall, PreviewCall
  <2>2. Required[r.spec] \subseteq IF r.from = NoValue THEN {} ELSE set[r.from]
    BY <1>2 DEF missing, SecretKeysForEnv
  <2>3. DeployFits(env, set, q)
    BY <1>1, <2>1, <2>2 DEF DeployFits
  <2>4. QED
    BY <1>2, <2>3, OneCallMoves DEF Check
<1>3. CASE missing(r) # {}
  BY <1>3, OneCallMoves DEF Check, Finish
<1>4. QED
  BY <1>2, <1>3

LEMMA createDeploymentTxInv ==
    ASSUME CatalogInv, NEW c \in Caller, createDeploymentTx(c)
    PROVE  CatalogInv'
<1>1. DeployFits(env, set, call[c])
  BY Zenon DEF createDeploymentTx, Checked, Busy, CatalogInv, PushFits, PushCall
<1>2. call[c].spec \in Digest
  BY <1>1, Zenon DEF DeployFits, DeployCall, PreviewCall
<1>3. dep' \in [EnvName -> SUBSET Digest]
  BY <1>2, Zenon DEF createDeploymentTx, CatalogInv
<1>4. DOMAIN call' = Caller /\ \A o \in Caller : call'[o] \in {call[o], NoValue}
  BY DEF createDeploymentTx, Finish, Hold, CatalogInv
<1>5. QED
  BY <1>3, <1>4, TablesGrow, Zenon DEF createDeploymentTx, CatalogInv

LEMMA PreviewTxInv ==
    ASSUME CatalogInv, NEW c \in Caller, NEW e \in EnvName, PreviewTx(c, e)
    PROVE  CatalogInv'
<1>1. call[c] \in PreviewCall
  BY Zenon DEF PreviewTx, Checked, Busy, CatalogInv, PushFits, PushCall, DeployFits, DeployCall
<1>2. /\ call[c].stack \in Stack /\ call[c].spec \in Digest
      /\ SecretKeysForEnv(call[c].from) \in SUBSET SecretKey
  BY <1>1 DEF PreviewCall, SecretKeysForEnv, CatalogInv
<1>3. /\ set' \in [EnvName -> SUBSET SecretKey] /\ dep' \in [EnvName -> SUBSET Digest]
      /\ DOMAIN env' = EnvName /\ versions' = versions
  BY <1>2 DEF PreviewTx, CatalogInv
<1>4. \A o \in EnvName : o # e => env'[o] = env[o] /\ set'[o] = set[o]
  BY DEF PreviewTx, CatalogInv
<1>5. env[e] = NoValue /\ env'[e].stack \in Stack
  BY <1>2 DEF PreviewTx, Unused, CatalogInv
<1>6. \A o \in EnvName : env'[o] \notin {NoValue, Gone} => env'[o].stack \in Stack
  BY <1>4, <1>5 DEF CatalogInv
<1>7. \A o \in EnvName : env[o] # NoValue => env'[o] # NoValue /\ set[o] \subseteq set'[o]
  BY <1>4, <1>5
<1>8. DOMAIN call' = Caller /\ \A o \in Caller : call'[o] \in {call[o], NoValue}
  BY DEF PreviewTx, Finish, Hold, CatalogInv
<1>9. QED
  BY <1>3, <1>6, <1>7, <1>8, TablesGrow

LEMMA NextInv == CatalogInv /\ [CatalogNext]_catalogVars => CatalogInv'
<1> SUFFICES ASSUME CatalogInv, [CatalogNext]_catalogVars PROVE CatalogInv'
  OBVIOUS
<1>1. ASSUME NEW c \in Caller, Proceed(c) PROVE CatalogInv'
  <2>1. CASE Refuse(c)
    BY <2>1, OneCallMoves DEF Refuse, Finish
  <2>2. QED
    BY <1>1, <2>1, PushNumberInv, PushInsertInv, CheckInv, createDeploymentTxInv, PreviewTxInv
    DEF Proceed
<1>2. ASSUME NEW e \in EnvName, EnvironmentOp(e) PROVE CatalogInv'
  BY <1>2, CreateEnvironmentInv, SetSecretInv, DeleteSecretInv, ExpireEnvironmentInv
  DEF EnvironmentOp
<1>3. CASE UNCHANGED catalogVars
  BY <1>3 DEF catalogVars, CatalogInv
<1>4. QED
  BY <1>1, <1>2, <1>3, BeginInv DEF CatalogNext

(* Only the INSERT of a push appends, and only the next number.             *)
LEMMA OnlyPushAppends ==
    ASSUME CatalogInv, CatalogNext, versions' # versions
    PROVE  \E c \in Caller : PushInsert(c)
BY Zenon DEF CatalogNext, Begin, Proceed, EnvironmentOp, PushLook, PushNumber, Check,
       createDeploymentTx, PreviewTx, Refuse, CreateEnvironment, handleSetSecret,
       handleDeleteSecret, ExpireEnvironment, handleCreateDeployment, handleRollback,
       handleCreatePreview

(* CatalogInv holds in every reachable state.                               *)
LEMMA AlwaysInv == CatalogSpec => []CatalogInv
BY InitInv, NextInv, PTL DEF CatalogSpec

(* CreateStackVersion: versions are numbered from 1 without gaps, one at a  *)
(* time, and none is changed, however many pushes overlap.                  *)
THEOREM VersionsAppended == CatalogSpec => VersionsAppend
<1> DEFINE A == /\ versions \subseteq versions'
                /\ \A v \in versions' \ versions : v.version = LatestStackVersion(v.stack) + 1
                /\ Cardinality(versions' \ versions) <= 1
<1>1. CatalogInv /\ [CatalogNext]_catalogVars => [A]_catalogVars
  <2> SUFFICES ASSUME CatalogInv, CatalogNext PROVE A
    BY DEF catalogVars
  <2>1. CASE versions' = versions
    <3>1. versions' \ versions = {} /\ Cardinality({}) = 0
      BY <2>1, FS_EmptySet
    <3>2. QED
      BY <2>1, <3>1
  <2>2. CASE versions' # versions
    <3>1. PICK c \in Caller : PushInsert(c)
      BY <2>2, OnlyPushAppends
    <3>2. PICK n \in Nat :
             /\ PushFits(versions, call[c])
             /\ NumbersOf(versions, call[c].stack) = 1..n
             /\ versions' = versions \cup {[stack |-> call[c].stack, version |-> n + 1,
                                            digest |-> call[c].digest]}
      BY <2>2, <3>1, NextNumber
    <3> DEFINE w == [stack |-> call[c].stack, version |-> n + 1, digest |-> call[c].digest]
    <3>3. LatestStackVersion(w.stack) = n
      BY <3>2, LatestOfN
    <3>4. versions' \ versions = {w} /\ versions \subseteq versions'
      BY <2>2, <3>2
    <3>5. Cardinality({w}) = 1
      BY FS_Singleton, Zenon
    <3>6. w.version = LatestStackVersion(w.stack) + 1
      BY <3>3
    <3> HIDE DEF w
    <3>7. QED
      BY <3>4, <3>5, <3>6
  <2>3. QED
    BY <2>1, <2>2
<1>2. QED
  BY <1>1, AlwaysInv, PTL DEF CatalogSpec, VersionsAppend

(* CreateStackVersion: a version repeats the manifest of the one before it  *)
(* only when that one was pushed after the call had looked, for any number  *)
(* of overlapping pushes.                                                   *)
THEOREM NoChurned == CatalogSpec => NoChurn
<1> DEFINE A == \A v \in versions' \ versions :
          Same(v.stack, v.version - 1, v.digest)
             => \E c \in Caller : /\ Busy(c) /\ call[c].op = "push" /\ call'[c] = NoValue
                                  /\ call[c].seen < v.version - 1
<1>1. CatalogInv /\ [CatalogNext]_catalogVars => [A]_catalogVars
  <2> SUFFICES ASSUME CatalogInv, CatalogNext,
                      NEW v \in versions' \ versions, Same(v.stack, v.version - 1, v.digest)
               PROVE  \E c \in Caller : /\ Busy(c) /\ call[c].op = "push" /\ call'[c] = NoValue
                                        /\ call[c].seen < v.version - 1
    BY DEF catalogVars
  <2>1. PICK c \in Caller : PushInsert(c)
    BY OnlyPushAppends
  <2>2. PICK n \in Nat :
             /\ PushFits(versions, call[c])
             /\ call[c].seen <= n
             /\ versions' = versions \cup {[stack |-> call[c].stack, version |-> n + 1,
                                            digest |-> call[c].digest]}
    BY <2>1, NextNumber, Zenon
  <2>3. v = [stack |-> call[c].stack, version |-> n + 1, digest |-> call[c].digest]
    BY <2>2, Zenon
  <2>4. v.stack = call[c].stack /\ v.version - 1 = n /\ v.digest = call[c].digest
    BY <2>3
  <2>5. call[c].seen \in Nat /\ call[c].seen <= n
    BY <2>2 DEF PushFits, PushCall
  <2>6. call[c].seen # n
    BY <2>2, <2>4 DEF PushFits, Same
  <2>7. call'[c] = NoValue
    BY <2>1, Zenon DEF PushInsert, Finish, Hold, CatalogInv
  <2>8. QED
    BY <2>1, <2>4, <2>5, <2>6, <2>7 DEF PushInsert
<1>2. QED
  BY <1>1, AlwaysInv, PTL DEF CatalogSpec, NoChurn

(* Both of CreateStackVersion: versions are appended and none is churn.     *)
THEOREM PushesAppended == CatalogSpec => PushesAppend
BY VersionsAppended, NoChurned DEF PushesAppend

(* The deploy, rollback and preview handlers: a deployment is made with     *)
(* every secret its manifest requires, save those deleted after the call    *)
(* had checked, for any number of calls and environments.                   *)
THEOREM DeployedWithSecrets == CatalogSpec => DeploysWithSecrets
<1> DEFINE A == \A c \in Caller, e \in EnvName :
          (createDeploymentTx(c) /\ e = call[c].from) \/ PreviewTx(c, e)
             => Required[call[c].spec] \subseteq set'[e] \cup call[c].lost
<1>1. CatalogInv => A
  <2> SUFFICES ASSUME CatalogInv, NEW c \in Caller, NEW e \in EnvName,
                      (createDeploymentTx(c) /\ e = call[c].from) \/ PreviewTx(c, e)
               PROVE  Required[call[c].spec] \subseteq set'[e] \cup call[c].lost
    OBVIOUS
  <2>1. DeployFits(env, set, call[c]) /\ call[c].checked
    BY Zenon DEF createDeploymentTx, PreviewTx, Checked, Busy, CatalogInv, PushFits, PushCall
  <2>2. set'[e] = SecretKeysForEnv(call[c].from)
    BY CatalogAssumption, Zenon DEF createDeploymentTx, PreviewTx, CatalogInv, SecretKeysForEnv
  <2>3. QED
    BY <2>1, <2>2, Zenon DEF DeployFits, SecretKeysForEnv
<1>2. QED
  BY <1>1, AlwaysInv, PTL DEF CatalogSpec, DeploysWithSecrets

-----------------------------------------------------------------------------
(* The dashboard.                                                          *)

SectionRow == [age : Nat, err : BOOLEAN, loading : BOOLEAN]
Model == [org : BOOLEAN, fatal : BOOLEAN, quitting : BOOLEAN, front : BOOLEAN,
          cursor : Nat, envs : Seq(EnvId), sec : [Section -> SectionRow],
          list : EnvId \cup {NoEnv}, deploymentsFor : EnvId \cup {NoEnv}]

Tracked == (Fast \ {"health"}) \cup {"catalog"}

OnRow(x) == x.cursor \in 0..(Len(x.envs) - 1) \/ x.cursor = 0
InStep(x, left) ==
    \A s \in Tracked : left[s] <= 1 /\ (x.sec[s].loading <=> left[s] = 1)

(* A model and the requests that are out, before and after what is due is   *)
(* asked for.  The list held is the one deploymentsFor names.               *)
Fits(x, left) ==
    /\ x \in Model /\ left \in [Request -> Nat]
    /\ x.list = x.deploymentsFor
    /\ OnRow(x) /\ InStep(x, left)

TuiInv == Fits(m, net)

(* Requests of sections, of the organization and of environments differ.    *)
LEMMA Names ==
    /\ Tracked \subseteq Section /\ Tracked \subseteq Request
    /\ Tracked \cap EnvId = {} /\ "org" \notin Tracked /\ "deployments" \notin Tracked
    /\ "catalog" \notin Fast /\ "deployments" \notin Fast
BY TuiAssumption, Zenon DEF Tracked, Section, Request

(* clamp answers a row, or 0 when there is none.                            *)
LEMMA ClampFits ==
    ASSUME NEW k \in Int, NEW n \in Nat
    PROVE  clamp(k, n) \in Nat /\ (clamp(k, n) \in 0..(n - 1) \/ clamp(k, n) = 0)
<1>1. CASE n <= 0
  BY <1>1 DEF clamp
<1>2. CASE n > 0 /\ k >= n
  BY <1>2 DEF clamp
<1>3. CASE n > 0 /\ k < n
  BY <1>3 DEF clamp
<1>4. QED
  BY <1>1, <1>2, <1>3

LEMMA InitFits == TuiInit => TuiInv
<1> SUFFICES ASSUME TuiInit PROVE TuiInv
  OBVIOUS
<1>1. NoSection \in SectionRow /\ NoSection.loading = FALSE
  BY TuiAssumption DEF NoSection, SectionRow, Never
<1>2. newModel.sec = [s \in Section |-> NoSection] /\ newModel.envs = << >>
      /\ newModel.cursor = 0 /\ newModel.list = NoEnv /\ newModel.deploymentsFor = NoEnv
  BY DEF newModel
<1>3. newModel \in Model
  BY <1>1 DEF newModel, Model
<1>4. net \in [Request -> Nat] /\ \A s \in Tracked : net[s] = 0
  BY Names DEF TuiInit, Tracked
<1>5. InStep(newModel, net)
  BY <1>1, <1>2, <1>4, Names DEF InStep
<1>6. QED
  BY <1>2, <1>3, <1>4, <1>5 DEF TuiInit, TuiInv, Fits, OnRow

(* Asking for what is due keeps all of it: a tracked section is due only    *)
(* while it does not wait.                                                  *)
LEMMA UpdateFits ==
    ASSUME NEW x, NEW left, Fits(x, left), Update(x, left)
    PROVE  TuiInv'
<1> DEFINE f == IF x.quitting \/ x.fatal THEN {} ELSE due(x)
           sec == [s \in Section |->
                     IF s \in f \/ (s = "deployments" /\ f \cap EnvId # {})
                     THEN [x.sec[s] EXCEPT !.loading = TRUE] ELSE x.sec[s]]
<1>1. m' = [x EXCEPT !.sec = sec]
  BY DEF Update, markLoading
<1>2. net' = [r \in Request |->
                 IF r \in f /\ (r \in EnvId => left[r] < MaxStack)
                 THEN left[r] + 1 ELSE left[r]]
  BY DEF Update
<1>3. x \in Model /\ left \in [Request -> Nat]
  BY DEF Fits
<1>4. \A s \in Tracked : s \in f => x.sec[s].loading = FALSE
  <2>1. \A s \in Tracked \cap due(x) : ~x.sec[s].loading
    <3> SUFFICES ASSUME NEW s \in Tracked, s \in due(x) PROVE ~x.sec[s].loading
      OBVIOUS
    <3>1. s \notin {e \in {selectedEnvID(x)} \ {NoEnv} :
            x.front /\ (e # x.deploymentsFor \/ elapsed(x.sec["deployments"], 1))}
      <4>1. selectedEnvID(x) \in EnvId \cup {NoEnv}
        <5>1. CASE x.envs = << >>
          BY <5>1 DEF selectedEnvID
        <5>2. CASE x.envs # << >>
          <6>1. x.envs \in Seq(EnvId) /\ x.cursor \in Nat
            BY <1>3 DEF Model
          <6>2. Len(x.envs) \in Nat \ {0}
            BY <5>2, <6>1
          <6>3. clamp(x.cursor, Len(x.envs)) + 1 \in 1..Len(x.envs)
            BY <6>1, <6>2 DEF clamp
          <6>4. QED
            BY <5>2, <6>1, <6>3 DEF selectedEnvID
        <5>3. QED
          BY <5>1, <5>2
      <4>2. QED
        BY <4>1, Names
    <3>2. QED
      BY <3>1 DEF due, elapsed
  <2>2. \A s \in Section : x.sec[s].loading \in BOOLEAN
    BY <1>3 DEF Model, SectionRow
  <2>3. QED
    BY <2>1, <2>2, Names
<1> HIDE DEF f
<1>5. sec \in [Section -> SectionRow]
  <2>1. \A s \in Section : x.sec[s] \in SectionRow
    BY <1>3 DEF Model
  <2>2. \A s \in Section : [x.sec[s] EXCEPT !.loading = TRUE] \in SectionRow
    BY <2>1, Zenon DEF SectionRow
  <2>3. QED
    BY <2>1, <2>2
<1>6. \A s \in Tracked :
        /\ sec[s].loading = (s \in f \/ x.sec[s].loading)
        /\ net'[s] = IF s \in f THEN left[s] + 1 ELSE left[s]
  <2> SUFFICES ASSUME NEW s \in Tracked
               PROVE  /\ sec[s].loading = (s \in f \/ x.sec[s].loading)
                      /\ net'[s] = IF s \in f THEN left[s] + 1 ELSE left[s]
    BY Zenon
  <2>1. s \in Section /\ s \in Request /\ s \notin EnvId /\ s # "deployments"
    BY Names
  <2>2. x.sec[s] \in SectionRow
    BY <1>3, <2>1 DEF Model
  <2>3. sec[s] = IF s \in f THEN [x.sec[s] EXCEPT !.loading = TRUE] ELSE x.sec[s]
    BY <2>1
  <2>4. QED
    BY <1>2, <2>1, <2>2, <2>3, Zenon DEF SectionRow
<1> HIDE DEF sec
<1>7. /\ m' \in Model /\ m'.sec = sec /\ m'.cursor = x.cursor /\ m'.envs = x.envs
      /\ m'.list = x.list /\ m'.deploymentsFor = x.deploymentsFor
  BY <1>1, <1>3, <1>5, Zenon DEF Model
<1>8. net' \in [Request -> Nat]
  BY <1>2, <1>3
<1>9. InStep(m', net')
  <2> SUFFICES ASSUME NEW s \in Tracked
               PROVE  net'[s] <= 1 /\ (m'.sec[s].loading <=> net'[s] = 1)
    BY DEF InStep
  <2>1. left[s] \in Nat /\ left[s] <= 1 /\ (x.sec[s].loading <=> left[s] = 1)
    BY <1>3, Names DEF Fits, InStep
  <2>2. CASE s \in f
    <3>1. ~x.sec[s].loading
      BY <1>4, <2>2
    <3>2. left[s] = 0
      BY <2>1, <3>1
    <3>3. net'[s] = 1
      BY <1>6, <2>2, <3>2
    <3>4. m'.sec[s].loading
      BY <1>6, <1>7, <2>2, Zenon
    <3>5. QED
      BY <3>3, <3>4
  <2>3. CASE s \notin f
    BY <1>6, <1>7, <2>1, <2>3, Zenon
  <2>4. QED
    BY <2>2, <2>3
<1>10. QED
  BY <1>7, <1>8, <1>9 DEF TuiInv, Fits, OnRow

(* Messages that leave sections' waiting and requests as they are.          *)
LEMMA SameWaiting ==
    ASSUME TuiInv, NEW x \in Model, x.list = x.deploymentsFor, OnRow(x),
           \A s \in Tracked : x.sec[s].loading = m.sec[s].loading
    PROVE  Fits(x, net)
BY DEF TuiInv, Fits, InStep

(* An answer that settles the section it is of.                             *)
LEMMA Settled ==
    ASSUME TuiInv, NEW s \in Section, NEW err \in BOOLEAN
    PROVE  LET x == [m EXCEPT !.sec[s] = settle(@, err)] IN
           /\ x \in Model /\ x.cursor = m.cursor /\ x.envs = m.envs
           /\ x.list = m.list /\ x.deploymentsFor = m.deploymentsFor
           /\ x.sec[s].loading = FALSE
           /\ \A o \in Section \ {s} : x.sec[o] = m.sec[o]
<1>1. m \in Model /\ m.sec[s] \in SectionRow
  BY DEF TuiInv, Fits, Model
<1>2. settle(m.sec[s], err) \in SectionRow /\ settle(m.sec[s], err).loading = FALSE
  BY <1>1 DEF settle, SectionRow
<1>3. QED
  BY <1>1, <1>2 DEF Model

(* Of the requests, an answer takes one of its own away.                    *)
LEMMA TakenAway ==
    ASSUME TuiInv, NEW r \in Request, net[r] > 0
    PROVE  /\ Left(r) \in [Request -> Nat] /\ Left(r)[r] = net[r] - 1
           /\ \A o \in Request \ {r} : Left(r)[o] = net[o]
BY DEF TuiInv, Fits, Left

LEMMA TickInv == TuiInv /\ tickMsg => TuiInv'
<1> SUFFICES ASSUME TuiInv, tickMsg PROVE TuiInv'
  OBVIOUS
<1> DEFINE older(s) == IF s.age < SlowTicks THEN [s EXCEPT !.age = @ + 1] ELSE s
           sec == [s \in Section |-> older(m.sec[s])]
           x == [m EXCEPT !.sec = sec]
<1>1. Update(x, net)
  BY DEF tickMsg
<1>2. m \in Model /\ \A s \in Section : m.sec[s] \in SectionRow
  BY DEF TuiInv, Fits, Model
<1>3. \A s \in Section : older(m.sec[s]) \in SectionRow
                         /\ older(m.sec[s]).loading = m.sec[s].loading
  BY <1>2 DEF SectionRow
<1>4. sec \in [Section -> SectionRow] /\ \A s \in Section : sec[s].loading = m.sec[s].loading
  BY <1>3
<1> HIDE DEF sec
<1>5. /\ x \in Model /\ x.cursor = m.cursor /\ x.envs = m.envs /\ x.sec = sec
      /\ x.list = m.list /\ x.deploymentsFor = m.deploymentsFor
  BY <1>2, <1>4 DEF Model
<1> HIDE DEF x
<1>6. Fits(x, net)
  BY <1>4, <1>5, SameWaiting, Names DEF TuiInv, Fits, OnRow
<1>7. QED
  BY <1>1, <1>6, UpdateFits

LEMMA OrgInv == ASSUME TuiInv, NEW err \in BOOLEAN, orgMsg(err) PROVE TuiInv'
<1> DEFINE x == IF err THEN [m EXCEPT !.fatal = TRUE] ELSE [m EXCEPT !.org = TRUE]
<1>1. Update(x, Left("org")) /\ net["org"] > 0 /\ "org" \in Request
  BY DEF orgMsg, Answer, Request
<1>2. m \in Model
  BY DEF TuiInv, Fits
<1>3. /\ x \in Model /\ x.cursor = m.cursor /\ x.envs = m.envs /\ x.sec = m.sec
      /\ x.list = m.list /\ x.deploymentsFor = m.deploymentsFor
  BY <1>2, Zenon DEF Model
<1> HIDE DEF x
<1>4. \A s \in Tracked : Left("org")[s] = net[s]
  BY <1>1, TakenAway, Names
<1>5. Left("org") \in [Request -> Nat]
  BY <1>1, TakenAway
<1>6. Fits(x, Left("org"))
  BY <1>3, <1>4, <1>5 DEF TuiInv, Fits, OnRow, InStep
<1>7. QED
  BY <1>1, <1>6, UpdateFits

(* A section that was waited for has nothing out once it is answered.       *)
LEMMA AnsweredInStep ==
    ASSUME TuiInv, NEW s \in Fast \cup {"catalog"}, net[s] > 0, NEW x,
           x.sec[s].loading = FALSE, \A o \in Section \ {s} : x.sec[o] = m.sec[o]
    PROVE  InStep(x, Left(s))
<1>1. s \in Request /\ s \in Section
  BY DEF Request, Section
<1> SUFFICES ASSUME NEW o \in Tracked
             PROVE  Left(s)[o] <= 1 /\ (x.sec[o].loading <=> Left(s)[o] = 1)
  BY DEF InStep
<1>2. o \in Section /\ o \in Request /\ net[o] \in Nat
  BY Names DEF TuiInv, Fits
<1>3. net[o] <= 1 /\ (m.sec[o].loading <=> net[o] = 1)
  BY DEF TuiInv, Fits, InStep
<1>4. CASE o = s
  <2>1. Left(s)[o] = 0
    BY <1>1, <1>2, <1>3, <1>4, TakenAway
  <2>2. QED
    BY <1>4, <2>1
<1>5. CASE o # s
  <2>1. Left(s)[o] = net[o] /\ x.sec[o] = m.sec[o]
    BY <1>1, <1>2, <1>5, TakenAway
  <2>2. QED
    BY <1>3, <2>1
<1>6. QED
  BY <1>4, <1>5

LEMMA FastInv == ASSUME TuiInv, NEW s \in Fast, NEW err \in BOOLEAN, fastMsg(s, err) PROVE TuiInv'
<1> DEFINE x == [m EXCEPT !.sec[s] = settle(@, err)]
<1>1. Update(x, Left(s)) /\ net[s] > 0 /\ s \in Request /\ s \in Section
  BY DEF fastMsg, Answer, Request, Section
<1>2. /\ x \in Model /\ x.cursor = m.cursor /\ x.envs = m.envs
      /\ x.list = m.list /\ x.deploymentsFor = m.deploymentsFor
      /\ x.sec[s].loading = FALSE
      /\ \A o \in Section \ {s} : x.sec[o] = m.sec[o]
  BY <1>1, Settled, Zenon
<1> HIDE DEF x
<1>3. InStep(x, Left(s))
  BY <1>1, <1>2, AnsweredInStep, Zenon
<1>4. Left(s) \in [Request -> Nat]
  BY <1>1, TakenAway
<1>5. Fits(x, Left(s))
  BY <1>2, <1>3, <1>4 DEF TuiInv, Fits, OnRow
<1>6. QED
  BY <1>1, <1>5, UpdateFits

LEMMA CatalogMsgInv ==
    ASSUME TuiInv, NEW c \in Catalogs, NEW err \in BOOLEAN, catalogMsg(c, err)
    PROVE  TuiInv'
<1> DEFINE x == [m EXCEPT !.sec["catalog"] = settle(@, err)]
           y == [x EXCEPT !.envs = c, !.cursor = clamp(@, Len(c))]
           z == IF err THEN x ELSE y
<1>1. Update(z, Left("catalog")) /\ net["catalog"] > 0
      /\ "catalog" \in Request /\ "catalog" \in Section
  BY DEF catalogMsg, Answer, Request, Section
<1>2. /\ x \in Model /\ x.cursor = m.cursor /\ x.envs = m.envs
      /\ x.list = m.list /\ x.deploymentsFor = m.deploymentsFor
      /\ x.sec["catalog"].loading = FALSE
      /\ \A o \in Section \ {"catalog"} : x.sec[o] = m.sec[o]
  BY <1>1, Settled, Zenon
<1> HIDE DEF x
<1>3. /\ y \in Model /\ OnRow(y) /\ y.sec = x.sec
      /\ y.list = x.list /\ y.deploymentsFor = x.deploymentsFor
  <2>1. c \in Seq(EnvId) /\ Len(c) \in Nat /\ x.cursor \in Nat
    BY <1>2, TuiAssumption DEF Model
  <2>2. /\ clamp(x.cursor, Len(c)) \in Nat
        /\ clamp(x.cursor, Len(c)) \in 0..(Len(c) - 1) \/ clamp(x.cursor, Len(c)) = 0
    BY <2>1 DEF clamp
  <2>3. /\ y \in Model /\ y.cursor = clamp(x.cursor, Len(c)) /\ y.envs = c /\ y.sec = x.sec
        /\ y.list = x.list /\ y.deploymentsFor = x.deploymentsFor
    BY <1>2, <2>1, <2>2, Zenon DEF Model
  <2> HIDE DEF y
  <2>4. QED
    BY <2>2, <2>3 DEF OnRow
<1> HIDE DEF y
<1>4. z \in Model /\ OnRow(z) /\ z.list = z.deploymentsFor /\ z.sec = x.sec
  BY <1>2, <1>3 DEF TuiInv, Fits, OnRow
<1> HIDE DEF z
<1>5. InStep(z, Left("catalog"))
  BY <1>1, <1>2, <1>4, AnsweredInStep, Zenon
<1>6. Left("catalog") \in [Request -> Nat]
  BY <1>1, TakenAway
<1>7. Fits(z, Left("catalog"))
  BY <1>4, <1>5, <1>6 DEF Fits
<1>8. QED
  BY <1>1, <1>7, UpdateFits

LEMMA DeploymentsInv ==
    ASSUME TuiInv, NEW e \in EnvId, NEW err \in BOOLEAN, deploymentsMsg(e, err)
    PROVE  TuiInv'
<1> DEFINE x == [m EXCEPT !.sec["deployments"] = settle(@, err)]
           y == [x EXCEPT !.list = e, !.deploymentsFor = e]
           z == IF e # selectedEnvID(m) THEN m ELSE IF err THEN x ELSE y
<1>1. Update(z, Left(e)) /\ net[e] > 0 /\ e \in Request /\ "deployments" \in Section
  BY DEF deploymentsMsg, Answer, Request, Section
<1>2. /\ x \in Model /\ x.cursor = m.cursor /\ x.envs = m.envs
      /\ x.list = m.list /\ x.deploymentsFor = m.deploymentsFor
      /\ \A o \in Section \ {"deployments"} : x.sec[o] = m.sec[o]
  BY <1>1, Settled, Zenon
<1> HIDE DEF x
<1>3. /\ y \in Model /\ y.cursor = x.cursor /\ y.envs = x.envs /\ y.sec = x.sec
      /\ y.list = y.deploymentsFor
  BY <1>2, Zenon DEF Model
<1> HIDE DEF y
<1>4. /\ z \in Model /\ OnRow(z) /\ z.list = z.deploymentsFor
      /\ \A s \in Tracked : z.sec[s] = m.sec[s]
  <2>1. \A s \in Tracked : x.sec[s] = m.sec[s]
    BY <1>2, Names
  <2>2. QED
    BY <1>2, <1>3, <2>1, Zenon DEF TuiInv, Fits, OnRow
<1> HIDE DEF z
<1>5. \A s \in Tracked : Left(e)[s] = net[s]
  BY <1>1, TakenAway, Names
<1>6. Left(e) \in [Request -> Nat]
  BY <1>1, TakenAway
<1>7. Fits(z, Left(e))
  BY <1>4, <1>5, <1>6 DEF TuiInv, Fits, InStep
<1>8. QED
  BY <1>1, <1>7, UpdateFits

LEMMA KeyInv == TuiInv /\ KeyMsg => TuiInv'
<1> SUFFICES ASSUME TuiInv, NEW x \in key(m), Update(x, net) PROVE TuiInv'
  BY DEF KeyMsg
<1>1. m \in Model /\ m.cursor \in Nat /\ m.envs \in Seq(EnvId) /\ Len(m.envs) \in Nat
  BY DEF TuiInv, Fits, Model
<1>2. ASSUME NEW k \in Int
      PROVE  Fits(cursorAt(m, k), net)
  <2> DEFINE y == [m EXCEPT !.cursor = clamp(k, Len(m.envs))]
  <2>1. /\ clamp(k, Len(m.envs)) \in Nat
        /\ clamp(k, Len(m.envs)) \in 0..(Len(m.envs) - 1) \/ clamp(k, Len(m.envs)) = 0
    BY <1>1, ClampFits, Zenon
  <2>2. /\ y \in Model /\ y.cursor = clamp(k, Len(m.envs)) /\ y.envs = m.envs /\ y.sec = m.sec
        /\ y.list = m.list /\ y.deploymentsFor = m.deploymentsFor
    BY <1>1, <2>1 DEF Model
  <2> HIDE DEF y
  <2>3. Fits(y, net)
    BY <2>1, <2>2 DEF TuiInv, Fits, OnRow, InStep
  <2>4. cursorAt(m, k) = IF m.front THEN y ELSE m
    BY DEF cursorAt, y
  <2>5. QED
    BY <2>3, <2>4 DEF TuiInv
<1>3. ASSUME NEW y \in Model, y.cursor = m.cursor, y.envs = m.envs, y.sec = m.sec,
             y.list = m.list, y.deploymentsFor = m.deploymentsFor
      PROVE  Fits(y, net)
  BY <1>3 DEF TuiInv, Fits, OnRow, InStep
<1>4. CASE x = [m EXCEPT !.quitting = TRUE]
  <2>1. /\ x \in Model /\ x.cursor = m.cursor /\ x.envs = m.envs /\ x.sec = m.sec
        /\ x.list = m.list /\ x.deploymentsFor = m.deploymentsFor
    BY <1>1, <1>4, Zenon DEF Model
  <2>2. QED
    BY <1>3, <2>1, UpdateFits
<1>5. CASE x \in {[m EXCEPT !.front = p] : p \in BOOLEAN}
  <2>1. /\ x \in Model /\ x.cursor = m.cursor /\ x.envs = m.envs /\ x.sec = m.sec
        /\ x.list = m.list /\ x.deploymentsFor = m.deploymentsFor
    BY <1>1, <1>5 DEF Model
  <2>2. QED
    BY <1>3, <2>1, UpdateFits
<1>6. CASE x \in {cursorAt(m, m.cursor + 1), cursorAt(m, m.cursor - 1), cursorAt(m, 0), cursorAt(m, Len(m.envs) - 1)}
  <2>1. m.cursor + 1 \in Int /\ m.cursor - 1 \in Int /\ 0 \in Int /\ Len(m.envs) - 1 \in Int
    BY <1>1
  <2>2. Fits(x, net)
    BY <1>2, <1>6, <2>1
  <2>3. QED
    BY <2>2, UpdateFits
<1>7. CASE x = [m EXCEPT !.sec = [s \in Section |-> [m.sec[s] EXCEPT !.age = Never]]]
  <2> DEFINE sec == [s \in Section |-> [m.sec[s] EXCEPT !.age = Never]]
  <2>1. Never \in Nat /\ \A s \in Section : m.sec[s] \in SectionRow
    BY <1>1, TuiAssumption DEF Never, Model
  <2>2. \A s \in Section : /\ [m.sec[s] EXCEPT !.age = Never] \in SectionRow
                           /\ [m.sec[s] EXCEPT !.age = Never].loading = m.sec[s].loading
    BY <2>1 DEF SectionRow
  <2>3. sec \in [Section -> SectionRow] /\ \A s \in Section : sec[s].loading = m.sec[s].loading
    BY <2>2, Zenon
  <2>4. x = [m EXCEPT !.sec = sec]
    BY <1>7
  <2> HIDE DEF sec
  <2>5. /\ x \in Model /\ x.cursor = m.cursor /\ x.envs = m.envs /\ x.sec = sec
        /\ x.list = m.list /\ x.deploymentsFor = m.deploymentsFor
    BY <1>1, <2>3, <2>4 DEF Model
  <2>6. Fits(x, net)
    BY <2>3, <2>5, SameWaiting, Names DEF TuiInv, Fits, OnRow
  <2>7. QED
    BY <2>6, UpdateFits
<1>8. QED
  BY <1>4, <1>5, <1>6, <1>7 DEF key

LEMMA NextFits == TuiInv /\ [TuiNext]_tuiVars => TuiInv'
<1> SUFFICES ASSUME TuiInv, [TuiNext]_tuiVars PROVE TuiInv'
  OBVIOUS
<1>1. CASE UNCHANGED tuiVars
  BY <1>1 DEF tuiVars, TuiInv
<1>2. QED
  BY <1>1, TickInv, KeyInv, OrgInv, FastInv, CatalogMsgInv, DeploymentsInv DEF TuiNext, Answers

LEMMA AlwaysFits == TuiSpec => []TuiInv
BY InitFits, NextFits, PTL DEF TuiSpec

(* deploymentsMsg and the view's revisions: what is shown under an          *)
(* environment is its own, whatever answers come late or in another order.  *)
THEOREM RevisionsOwn == TuiSpec => []OwnRevisions
<1>1. TuiInv => OwnRevisions
  BY DEF TuiInv, Fits, OwnRevisions, revisions
<1>2. QED
  BY <1>1, AlwaysFits, PTL

(* clamp after every listing and key: the cursor is on a row.               *)
THEOREM CursorOnRow == TuiSpec => []CursorInList
<1>1. TuiInv => CursorInList
  BY DEF TuiInv, Fits, OnRow, CursorInList
<1>2. QED
  BY <1>1, AlwaysFits, PTL

(* due and markLoading after every message: a section is asked for once at  *)
(* a time and marked exactly while it is.                                   *)
THEOREM AskedOnce == TuiSpec => []OneOutstanding
<1>1. TuiInv => OneOutstanding
  BY DEF TuiInv, Fits, InStep, Tracked, OneOutstanding
<1>2. QED
  BY <1>1, AlwaysFits, PTL

=============================================================================
