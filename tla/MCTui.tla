-------------------------------- MODULE MCTui --------------------------------
(* The dashboard alone, with two environments that the catalog lists both   *)
(* or loses the first of.                                                   *)
EXTENDS Tui

CONSTANTS a, b

MCCatalogs == {<<a, b>>, <<b>>}

TuiFairSpec == TuiSpec /\ TuiFairness

=============================================================================
