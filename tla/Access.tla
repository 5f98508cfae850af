------------------------------- MODULE Access -------------------------------
(***************************************************************************)
(* Who may act on an organization: operators and their tokens, memberships, *)
(* invitations, and the requests for access that become invitations.  One   *)
(* organization.  A transaction of the store is one step; a handler that    *)
(* makes several calls takes several, with those of other callers between;  *)
(* authenticating and authorizing a call goes with its first statement.     *)
(* Each operator has one call in flight.                                    *)
(***************************************************************************)
EXTENDS Naturals, FiniteSets, FiniteSetsExt

CONSTANTS
    Person,      \* e-mail addresses, up to case: lower(email) is unique
    Founder,     \* the operator made at bootstrap
    Guest,       \* the people who are invited or ask for access
    MaxInvites, MaxAsks, MaxTokens  \* bounds on the rows of each table

ASSUME AccessAssumption ==
    /\ Founder \in Person /\ Guest \subseteq Person /\ IsFiniteSet(Person)
    /\ MaxInvites \in Nat /\ MaxAsks \in Nat /\ MaxTokens \in Nat

Invite == 1..MaxInvites
Ask == 1..MaxAsks

VARIABLES
    op,       \* operators: "none", "active" or "disabled"
    tok,      \* operator_tokens of each: how many never expire, may, have
    members,  \* organization_members
    inv,      \* operator_invites, in order of creation
    ask,      \* access_requests, in order of creation
    h,        \* the handler each operator has in flight
    overlap   \* history: two removals had both passed their count

accessVars == <<op, tok, members, inv, ask, h, overlap>>

NoTokens == [forever |-> 0, dated |-> 0, expired |-> 0]
NoInvite == [st |-> "none", email |-> Founder, past |-> FALSE,
             used |-> 0, admitted |-> 0]     \* history: redemptions, tokens minted
NoAsk == [st |-> "none", email |-> Founder, invite |-> 0]
NoCall == [pc |-> "idle", who |-> Founder]

AccessInit ==
    /\ op = [p \in Person |-> IF p = Founder THEN "active" ELSE "none"]
    /\ tok = [p \in Person |-> IF p = Founder THEN [NoTokens EXCEPT !.forever = 1]
                               ELSE NoTokens]
    /\ members = {Founder}
    /\ inv = [i \in Invite |-> NoInvite]
    /\ ask = [a \in Ask |-> NoAsk]
    /\ h = [p \in Person |-> NoCall]
    /\ overlap = FALSE

-----------------------------------------------------------------------------
(* OperatorForToken and authorize: an unexpired token of an operator who is *)
(* not disabled, and for the routes of an organization a membership.        *)

Rows(p) == tok[p].forever + tok[p].dated + tok[p].expired     \* ListOperatorTokens
Usable(p) == tok[p].forever + tok[p].dated > 0
OperatorForToken(p) == h[p].pc = "idle" /\ op[p] = "active" /\ Usable(p)
TokenRoom == MapThenSumSet(Rows, Person) < MaxTokens          \* the bound of the table
authorizeOrg(p) == OperatorForToken(p) /\ p \in members

At(p, pc) == h[p].pc = pc
Goto(p, pc, who) == h' = [h EXCEPT ![p] = [pc |-> pc, who |-> who]]
Return(p) == h' = [h EXCEPT ![p] = NoCall]

(* A call fails: the database is away, its seconds are over, the process    *)
(* ends.  What its earlier statements did stays.                            *)
Abort(p) ==
    /\ h[p].pc # "idle"
    /\ Return(p)
    /\ UNCHANGED <<op, tok, members, inv, ask, overlap>>

-----------------------------------------------------------------------------
(* handleAddMember: four statements, each its own transaction.              *)

GetOperatorByEmail(e) == op[e] # "none"

handleAddMember(p, e) ==
    /\ authorizeOrg(p)
    /\ Goto(p, IF GetOperatorByEmail(e) THEN "add" ELSE "create", e)
    /\ UNCHANGED <<op, tok, members, inv, ask, overlap>>

CreateOperator(p) ==
    /\ At(p, "create")
    /\ IF op[h[p].who] = "none"
       THEN op' = [op EXCEPT ![h[p].who] = "active"] /\ Goto(p, "issue", h[p].who)
       ELSE UNCHANGED op /\ Return(p)                          \* the index refuses
    /\ UNCHANGED <<tok, members, inv, ask, overlap>>

IssueOperatorToken(p) ==
    /\ At(p, "issue")
    /\ TokenRoom
    /\ tok' = [tok EXCEPT ![h[p].who].forever = @ + 1]
    /\ Goto(p, "add", h[p].who)
    /\ UNCHANGED <<op, members, inv, ask, overlap>>

AddOrgMember(p) ==
    /\ At(p, "add")
    /\ members' = members \cup {h[p].who}
    /\ Return(p)
    /\ UNCHANGED <<op, tok, inv, ask, overlap>>

-----------------------------------------------------------------------------
(* handleRemoveMember and handleRevokeToken: count in one statement, delete *)
(* in the next.                                                             *)

(* A slip: the last member counts as enough.                                *)
handleRemoveMemberLast(p, e) ==
    /\ authorizeOrg(p)
    /\ Goto(p, "remove", e)
    /\ overlap' = (overlap \/ \E q \in Person : At(q, "remove"))
    /\ UNCHANGED <<op, tok, members, inv, ask>>

handleRemoveMember(p, e) ==
    /\ authorizeOrg(p)
    /\ Cardinality(members) > 1
    /\ Goto(p, "remove", e)
    /\ overlap' = (overlap \/ \E q \in Person : At(q, "remove"))
    /\ UNCHANGED <<op, tok, members, inv, ask>>

RemoveOrgMember(p) ==
    /\ At(p, "remove")
    /\ members' = members \ {h[p].who}
    /\ Return(p)
    /\ UNCHANGED <<op, tok, inv, ask, overlap>>

(* The count takes expired tokens in.                                       *)
handleRevokeToken(p) ==
    /\ OperatorForToken(p)
    /\ Rows(p) > 1
    /\ Goto(p, "revoke", Founder)
    /\ UNCHANGED <<op, tok, members, inv, ask, overlap>>

RevokeOperatorToken(p) ==
    /\ At(p, "revoke")
    /\ \E kind \in DOMAIN NoTokens :
         tok[p][kind] > 0 /\ tok' = [tok EXCEPT ![p][kind] = @ - 1]
    /\ Return(p)
    /\ UNCHANGED <<op, members, inv, ask, overlap>>

(* For the caller; the token may be dated.                                  *)
handleCreateToken(p) ==
    /\ OperatorForToken(p)
    /\ TokenRoom
    /\ \E kind \in {"forever", "dated"} : tok' = [tok EXCEPT ![p][kind] = @ + 1]
    /\ UNCHANGED <<op, members, inv, ask, h, overlap>>

-----------------------------------------------------------------------------
(* Invitations.                                                             *)

Unissued == {i \in Invite : inv[i].st = "none"}

(* The live invitation of the address is superseded, and a new one made.    *)
createInviteTx(e) ==
    inv' = [i \in Invite |->
             IF i = Min(Unissued) THEN [NoInvite EXCEPT !.st = "open", !.email = e]
             ELSE IF inv[i].st = "open" /\ inv[i].email = e
             THEN [inv[i] EXCEPT !.st = "revoked", !.past = FALSE] ELSE inv[i]]

handleCreateInvite(p, e) ==
    /\ authorizeOrg(p) /\ Unissued # {}
    /\ createInviteTx(e)
    /\ UNCHANGED <<op, tok, members, ask, h, overlap>>

(* Also one that has run out.                                               *)
RevokeInvite(i) ==
    /\ inv[i].st = "open"
    /\ inv' = [inv EXCEPT ![i].st = "revoked", ![i].past = FALSE]

handleRevokeInvite(p, i) ==
    /\ authorizeOrg(p)
    /\ RevokeInvite(i)
    /\ UNCHANGED <<op, tok, members, ask, h, overlap>>

(* A slip: a revoked invitation is as good as an open one. *)
RedeemInviteRevoked(i) ==
    LET e == inv[i].email IN
    /\ inv[i].st \in {"open", "revoked"} /\ ~inv[i].past
    /\ op[e] # "disabled" /\ TokenRoom
    /\ inv' = [inv EXCEPT ![i].st = "redeemed", ![i].used = @ + 1, ![i].admitted = @ + 1]
    /\ op' = [op EXCEPT ![e] = "active"]
    /\ members' = members \cup {e}
    /\ tok' = [tok EXCEPT ![e].forever = @ + 1]
    /\ UNCHANGED <<ask, h, overlap>>

(* The invitation is spent, the operator made or found, the membership and  *)
(* a token added, all or nothing; a disabled operator undoes it all.        *)
RedeemInvite(i) ==
    LET e == inv[i].email IN
    /\ inv[i].st = "open" /\ ~inv[i].past
    /\ op[e] # "disabled" /\ TokenRoom
    /\ inv' = [inv EXCEPT ![i].st = "redeemed", ![i].used = @ + 1, ![i].admitted = @ + 1]
    /\ op' = [op EXCEPT ![e] = "active"]
    /\ members' = members \cup {e}
    /\ tok' = [tok EXCEPT ![e].forever = @ + 1]
    /\ UNCHANGED <<ask, h, overlap>>

-----------------------------------------------------------------------------
(* Requests for access.  A second one of an address that waits changes its  *)
(* name and note, which are left out.                                       *)

CreateAccessRequest(e) ==
    /\ \A a \in Ask : ~(ask[a].st = "pending" /\ ask[a].email = e)
    /\ \E a \in Ask :
         /\ ask[a].st = "none" /\ \A b \in 1..a - 1 : ask[b].st # "none"
         /\ ask' = [ask EXCEPT ![a] = [NoAsk EXCEPT !.st = "pending", !.email = e]]

(* Anyone may ask, without a token.  Mailing the members does not fail it.  *)
handleCreateAccessRequest(e) ==
    /\ CreateAccessRequest(e)
    /\ UNCHANGED <<op, tok, members, inv, h, overlap>>

ApproveAccessRequest(a) ==
    /\ ask[a].st = "pending"
    /\ ask' = [ask EXCEPT ![a].st = "approved", ![a].invite = Min(Unissued)]
    /\ createInviteTx(ask[a].email)

handleApproveAccessRequest(p, a) ==
    /\ authorizeOrg(p) /\ Unissued # {}
    /\ ApproveAccessRequest(a)
    /\ UNCHANGED <<op, tok, members, h, overlap>>

(* A slip: declining closes what was approved before.                       *)
DeclineAccessRequestLate(a) ==
    /\ ask[a].st \in {"pending", "approved"}
    /\ ask' = [ask EXCEPT ![a].st = "declined"]

DeclineAccessRequest(a) ==
    /\ ask[a].st = "pending"
    /\ ask' = [ask EXCEPT ![a].st = "declined"]

handleDeclineAccessRequest(p, a) ==
    /\ authorizeOrg(p)
    /\ DeclineAccessRequest(a)
    /\ UNCHANGED <<op, tok, members, inv, h, overlap>>

-----------------------------------------------------------------------------
(* Time, and the administrator of the database.                             *)

ExpireInvite(i) ==
    /\ inv[i].st = "open" /\ ~inv[i].past
    /\ inv' = [inv EXCEPT ![i].past = TRUE]
    /\ UNCHANGED <<op, tok, members, ask, h, overlap>>

ExpireToken(p) ==
    /\ tok[p].dated > 0
    /\ tok' = [tok EXCEPT ![p].dated = @ - 1, ![p].expired = @ + 1]
    /\ UNCHANGED <<op, members, inv, ask, h, overlap>>

DisableOperator(p) ==
    /\ op[p] = "active"
    /\ op' = [op EXCEPT ![p] = "disabled"]
    /\ UNCHANGED <<tok, members, inv, ask, h, overlap>>

(* The control plane starts again: calls in flight are gone, the founder    *)
(* is a member, and has a token.                                            *)
BootstrapOperator ==
    /\ h' = [p \in Person |-> NoCall]
    /\ members' = members \cup {Founder}
    /\ tok' = IF Rows(Founder) = 0 THEN [tok EXCEPT ![Founder].forever = 1] ELSE tok
    /\ UNCHANGED <<op, inv, ask, overlap>>

-----------------------------------------------------------------------------

AccessNext ==
    \/ BootstrapOperator
    \/ \E p \in Person :
         \/ CreateOperator(p) \/ IssueOperatorToken(p) \/ AddOrgMember(p)
         \/ RemoveOrgMember(p)
         \/ handleCreateToken(p) \/ handleRevokeToken(p) \/ RevokeOperatorToken(p)
         \/ Abort(p) \/ ExpireToken(p) \/ DisableOperator(p)
         \/ \E e \in Person : handleAddMember(p, e) \/ handleRemoveMember(p, e)
         \/ \E e \in Guest : handleCreateInvite(p, e)
         \/ \E i \in Invite : handleRevokeInvite(p, i)
         \/ \E a \in Ask :
              handleApproveAccessRequest(p, a) \/ handleDeclineAccessRequest(p, a)
    \/ \E e \in Guest : handleCreateAccessRequest(e)
    \/ \E i \in Invite : RedeemInvite(i) \/ ExpireInvite(i)

AccessSpec == AccessInit /\ [][AccessNext]_accessVars

-----------------------------------------------------------------------------

(* Every invitation is a ticket for one: it admits once, and never after it *)
(* was revoked, superseded or ran out, whatever calls overlap.              *)
(* RedeemInvite's one UPDATE and the transaction around it.                 *)
InviteLife(i) ==
    IF inv[i].st = "none" THEN "unissued"
    ELSE IF inv[i].st = "open" /\ ~inv[i].past THEN "open" ELSE "closed"
InviteTicket == INSTANCE Ticket
    WITH Tickets <- Invite, Uses <- [i \in Invite |-> 1],
         life <- [i \in Invite |-> InviteLife(i)],
         used <- [i \in Invite |-> inv[i].used],
         admitted <- [i \in Invite |-> inv[i].admitted]
InvitesAreTickets == InviteTicket!TicketSpec

(* An address never has two invitations that could be redeemed, however     *)
(* inviting, approving and redeeming interleave: createInviteTx is the only *)
(* place one is made, and it supersedes.                                    *)
OneLiveInvite ==
    \A i, j \in Invite :
        inv[i].st = "open" /\ inv[j].st = "open" /\ inv[i].email = inv[j].email => i = j

(* A request for access is decided once: an approved one names the one      *)
(* invitation its approval made, for its own address, no other request      *)
(* names that one, and an address waits in one request at a time.           *)
RequestLedger ==
    \A a, b \in Ask :
        /\ (ask[a].st = "approved") = (ask[a].invite # 0)
        /\ ask[a].invite # 0 =>
             /\ inv[ask[a].invite].st # "none" /\ inv[ask[a].invite].email = ask[a].email
             /\ ask[b].invite = ask[a].invite => a = b
        /\ ask[a].st = "pending" /\ ask[b].st = "pending" /\ ask[a].email = ask[b].email => a = b

(* An invitation that came from a request is the only one of that request:  *)
(* a decision is never taken back or taken twice.                           *)
DecisionIsFinal ==
    [][\A a \in Ask : ask[a].st \in {"approved", "declined"} => ask'[a] = ask[a]]_accessVars

(* The organization loses its last member only when two removals overlap,   *)
(* each after the other's count: handleRemoveMember's refusal.              *)
KeepsMember == members = {} => overlap

(* Invitations and requests agree: createInviteTx supersedes what it finds, *)
(* and the handlers of requests decide each once and for one invitation.    *)
InviteLedger == OneLiveInvite /\ RequestLedger

=============================================================================
