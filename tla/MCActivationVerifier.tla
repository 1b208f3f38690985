----------------------- MODULE MCActivationVerifier -------------------------
(***************************************************************************)
(* ActivationVerifier for TLC: three workspaces and N = 2, so that the     *)
(* WARN's threshold can be reached, missed and passed; up to four timers,  *)
(* so that a stale timer, its successor and two more attempts coexist.     *)
(***************************************************************************)
EXTENDS ActivationVerifier
=============================================================================
