------------------------------- MODULE MCTuiWM -------------------------------
(* A screen of 6 by 4 cells, and a mouse that keeps clicking in one window.  *)
EXTENDS TuiWM

OneSpot == {<<2, 2>>}
==============================================================================
