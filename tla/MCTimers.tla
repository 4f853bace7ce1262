------------------------------- MODULE MCTimers -------------------------------
(* An instance of Timers for TLC.                                           *)
EXTENDS Timers

CONSTANTS e1, e2, e3

ThreeEvents == {e1, e2, e3}
ForthAndBack == {-2, 0, 1}
=============================================================================
