----------------------------- MODULE Lifecycle ------------------------------
(***************************************************************************)
(* What the daemon's process promises to whoever runs it, without the      *)
(* polls, the signal masks and the ways a connection can fail: it serves,  *)
(* and when a session is lost it stays idle for the next delay of the      *)
(* ladder and tries again.  Supervisor implements this specification.      *)
(***************************************************************************)
EXTENDS Naturals, Sequences

CONSTANT Ladder     \* the delays between attempts, in some unit

VARIABLES
  stage,    \* "new", then "idle", "trying" and "serving", until it ends as
            \*   "succeeded", "failed" or "killed"
  rung,     \* the delay that the next lost session costs
  rest,     \* what is left of the current delay
  asked,    \* the process was sent a shutdown signal
  heard     \* and has noticed, outside a session

vars == <<stage, rung, rest, asked, heard>>

Over == {"succeeded", "failed", "killed"}

Init ==
  /\ stage = "new" /\ rung = 1 /\ rest = 0
  /\ asked = FALSE /\ heard = FALSE

(* What reached a session unread is heard when the session ends, if at all. *)
MayHear == heard' \in {heard, heard \/ (stage = "serving" /\ asked)}

Begin ==
  /\ stage = "new"
  /\ stage' = "idle"
  /\ UNCHANGED <<rung, rest, asked, heard>>

(* A process that has heard a signal does not try any more. *)
Try ==
  /\ stage = "idle" /\ rest = 0 /\ ~heard
  /\ stage' = "trying"
  /\ UNCHANGED <<rung, rest, asked, heard>>

(* Only a session that works takes the process back to the first delay. *)
Serve ==
  /\ stage = "trying"
  /\ stage' = "serving"
  /\ rung' = 1
  /\ UNCHANGED <<rest, asked, heard>>

Lose ==
  /\ stage \in {"trying", "serving"}
  /\ stage' = "idle"
  /\ rest' = Ladder[rung]
  /\ rung' = IF rung < Len(Ladder) THEN rung + 1 ELSE rung
  /\ MayHear
  /\ UNCHANGED asked

Rest ==
  /\ stage = "idle" /\ rest > 0
  /\ rest' = rest - 1
  /\ UNCHANGED <<stage, rung, asked, heard>>

Succeed ==
  /\ (stage = "idle" /\ heard) \/ (stage = "serving" /\ asked)
  /\ stage' = "succeeded"
  /\ UNCHANGED <<rung, rest, asked, heard>>

(* It never gives up while it waits. *)
Fail ==
  /\ stage \in {"new", "trying", "serving"}
  /\ stage' = "failed"
  /\ MayHear
  /\ UNCHANGED <<rung, rest, asked>>

Ask ==
  /\ stage \notin Over
  /\ asked' = TRUE
  /\ heard' \in {heard, TRUE}
  /\ UNCHANGED <<stage, rung, rest>>

Die ==      \* of a signal it has no handler for
  /\ stage \notin Over
  /\ stage' = "killed"
  /\ asked' = TRUE
  /\ MayHear
  /\ UNCHANGED <<rung, rest>>

Next ==
  \/ Begin \/ Try \/ Serve \/ Lose \/ Rest
  \/ Succeed \/ Fail
  \/ Ask \/ Die

Spec == Init /\ [][Next]_vars
=============================================================================
