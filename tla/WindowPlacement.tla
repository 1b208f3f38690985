-------------------------- MODULE WindowPlacement ---------------------------
(***************************************************************************)
(* What the daemon promises to a window, without workspaces, groups, views *)
(* or the queue: when the window appears it is sent somewhere, left where  *)
(* it is, or put off; what was put off is settled once; and what is        *)
(* settled stays so until the window closes or the session ends.  Session  *)
(* implements this specification.                                          *)
(***************************************************************************)
EXTENDS Sequences

CONSTANT Windows

VARIABLES
  fate,     \* per window: "unseen", "waiting", "sent" or "left"
  moves     \* the windows of the move requests under way, in order

vars == <<fate, moves>>

Nowhere == [t \in Windows |-> "unseen"]

Init == fate = Nowhere /\ moves = << >>

(* One move for a window that is sent, and none for one that is left. *)
Settle(t, how) ==
  /\ how \in {"sent", "left"}
  /\ fate' = [fate EXCEPT ![t] = how]
  /\ moves' = IF how = "sent" THEN Append(moves, t) ELSE moves

Decide(t, how) == fate[t] = "unseen" /\ Settle(t, how)

PutOff(t) ==
  /\ fate[t] = "unseen"
  /\ fate' = [fate EXCEPT ![t] = "waiting"]
  /\ UNCHANGED moves

Resolve(t, how) == fate[t] = "waiting" /\ Settle(t, how)

(* A window that closes takes its placement with it. *)
Forget(t) ==
  /\ fate[t] # "unseen"
  /\ fate' = [fate EXCEPT ![t] = "unseen"]
  /\ UNCHANGED moves

Deliver ==
  /\ moves # << >>
  /\ moves' = Tail(moves)
  /\ UNCHANGED fate

NewSession == fate' = Nowhere /\ moves' = << >>

Next ==
  \/ \E t \in Windows, how \in {"sent", "left"} : Decide(t, how) \/ Resolve(t, how)
  \/ \E t \in Windows : PutOff(t) \/ Forget(t)
  \/ Deliver
  \/ NewSession

Spec == Init /\ [][Next]_vars
=============================================================================
