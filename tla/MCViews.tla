------------------------------- MODULE MCViews -------------------------------
(* What an operator watches, side by side: the output of a service, and the *)
(* dashboard.  Neither reads the other's state, so a behaviour is of one or *)
(* of the other: of the other there is no request, or the session is over,  *)
(* and nothing fair is enabled.                                             *)
EXTENDS Logs, Tui

CONSTANTS a, b

VARIABLE part

MCCatalogs == {<<a, b>>, <<b>>}

ViewsInit ==
    /\ LogsInit
    /\ \/ part = "logs" /\ net = [r \in Request |-> 0]
          /\ m = [newModel EXCEPT !.quitting = TRUE] /\ fails = 0
       \/ part = "tui" /\ TuiInit

ViewsNext ==
    /\ UNCHANGED part
    /\ \/ part = "logs" /\ LogsNext /\ UNCHANGED tuiVars
       \/ part = "tui" /\ TuiNext /\ UNCHANGED logVars

ViewsSpec ==
    /\ ViewsInit /\ [][ViewsNext]_<<logVars, tuiVars, part>>
    /\ LogsFairness /\ TuiFairness

=============================================================================
