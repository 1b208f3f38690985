---------------------------- MODULE MCMruCheck ------------------------------
(***************************************************************************)
(* MruCheck for TLC: one group of three workspaces and one of two, a list  *)
(* of three, so that entries are moved, evicted and forgotten.             *)
(***************************************************************************)
EXTENDS MruCheck

MCGroups == {1, 2}
MCWorkspaces == {11, 12, 13, 21, 22}
MCGroupOf(w) == IF w < 20 THEN 1 ELSE 2
MCCoordinates == [w \in MCWorkspaces |-> CASE w = 11 -> 2 [] w = 12 -> 1
                                           [] w = 13 -> 1 [] OTHER -> w]
=============================================================================
