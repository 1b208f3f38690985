--------------------------- MODULE MCSupervisor -----------------------------
(***************************************************************************)
(* Supervisor for TLC.  The program's ladder is 1, 2, 5, 10 and 30 seconds *)
(* in polls of 50 ms: 20, 40, 100, 200 and 600 of them.  Nothing in it     *)
(* depends on the length of a poll, so the run has its five rungs in polls *)
(* ten times as long.                                                      *)
(***************************************************************************)
EXTENDS Supervisor

ScaledSteps == <<2, 4, 10, 20, 60>>
ShortSteps == <<1, 2, 3>>
=============================================================================
