------------------------------- MODULE Ticket -------------------------------
(***************************************************************************)
(* What tickets promise: operators' invitations and nodes' join tokens are  *)
(* each shown to be tickets.  A ticket is issued once, is spent at most     *)
(* Uses times, and once it is closed (revoked, superseded, expired) it is   *)
(* spent no more.  What a use admits may come about later than the use, or  *)
(* never.  One step may move several tickets.                               *)
(***************************************************************************)
EXTENDS Naturals

CONSTANTS Tickets, Uses

VARIABLES
    life,     \* of each ticket: "unissued", "open" or "closed"
    used,     \* how often it was spent
    admitted  \* how many were let in by it

ticketVars == <<life, used, admitted>>

TicketInit ==
    /\ life = [t \in Tickets |-> "unissued"]
    /\ used = [t \in Tickets |-> 0]
    /\ admitted = [t \in Tickets |-> 0]

Issue(t) ==
    /\ life[t] = "unissued" /\ life'[t] = "open"
    /\ used'[t] = used[t] /\ admitted'[t] = admitted[t]

Spend(t) ==
    /\ life[t] = "open" /\ life'[t] \in {"open", "closed"}
    /\ used[t] < Uses[t] /\ used'[t] = used[t] + 1
    /\ admitted'[t] \in {admitted[t], admitted[t] + 1}

Admit(t) ==
    /\ admitted[t] < used[t] /\ admitted'[t] = admitted[t] + 1
    /\ life'[t] = life[t] /\ used'[t] = used[t]

Close(t) ==
    /\ life[t] = "open" /\ life'[t] = "closed"
    /\ used'[t] = used[t] /\ admitted'[t] = admitted[t]

Rest(t) == life'[t] = life[t] /\ used'[t] = used[t] /\ admitted'[t] = admitted[t]

TicketNext ==
    \A t \in Tickets : Rest(t) \/ Issue(t) \/ Spend(t) \/ Admit(t) \/ Close(t)

TicketSpec == TicketInit /\ [][TicketNext]_ticketVars

=============================================================================
