------------------------ MODULE ActivationVerifier --------------------------
(***************************************************************************)
(* The verification of workspace activations in one Wayland session:       *)
(* runtime.rs (register_activate_with_verification and its timer callback, *)
(* emit_verify_event) and the confirm walk of WorkspaceHandler::done.      *)
(*                                                                         *)
(* Two tables describe an outstanding activation: the verifier's pending   *)
(* map and AppData.pending_tokens, which holds the calloop registration of *)
(* its timer.  A third party, the event loop, holds the timers themselves. *)
(* A second activation of a handle overwrites its token without removing   *)
(* the earlier timer, so the three can come apart; what still holds, and   *)
(* what holds only while callers never re-activate a pending handle, is    *)
(* what this module states.                                                *)
(***************************************************************************)
EXTENDS Verify

CONSTANTS
  MaxTimers       \* bound: how many timers one behaviour may register

ASSUME MaxTimersAssumption == MaxTimers \in Nat

VARIABLES
  verify_timeout,   \* config: is SWITCH_VERIFY_TIMEOUT_MS a duration, not None
  verifier,         \* AppData.verifier
  pending_tokens,   \* AppData.pending_tokens: handle -> token
  timers,           \* calloop: the live timer sources, [token, handle]
  next_token,       \* calloop: the next registration token
  hist              \* history, read by no action

vars == <<verify_timeout, verifier, pending_tokens, timers, next_token, hist>>

Timer == [token : Nat, handle : Handles]

(* What an observer of the log and of the compositor would have seen:
     attempted  handles activated since the session began
     warns      how many WARNs were logged
     answered   a done() batch showed a handle active while one of its
                timers was still running
     clean      no handle was re-activated while its last activation was
                pending *)
History ==
  [ attempted  : SUBSET Handles,
    warns      : Nat,
    answered   : BOOLEAN,
    clean      : BOOLEAN ]

TypeOK ==
  /\ verify_timeout \in BOOLEAN
  /\ verifier \in VerifierState
  /\ DOMAIN pending_tokens \subseteq Handles
  /\ pending_tokens \in [DOMAIN pending_tokens -> Nat]
  /\ timers \subseteq Timer
  /\ next_token \in Nat
  /\ hist \in History

Init ==
  /\ verify_timeout \in BOOLEAN
  /\ verifier = NewVerifier
  /\ pending_tokens = << >>
  /\ timers = {}
  /\ next_token = 0
  /\ hist = [attempted |-> {}, warns |-> 0, answered |-> FALSE,
             clean |-> TRUE]

-----------------------------------------------------------------------------
(* register_activate_with_verification, after activate + commit succeeded.
   When the manager is gone or the transaction fails it returns before it
   touches any of this state. *)

(* HashMap::insert: a token already there for the handle is overwritten; the
   timer it named stays in the event loop. *)
(* Mutant: key and value are swapped. *)
InsertTokenSwapped(h, token) ==
  [g \in DOMAIN pending_tokens \union {token} |->
     IF g = token THEN h ELSE pending_tokens[g]]

InsertToken(h, token) ==
  [g \in DOMAIN pending_tokens \union {h} |->
     IF g = h THEN token ELSE pending_tokens[g]]

DropTokens(H) ==
  [g \in DOMAIN pending_tokens \ H |-> pending_tokens[g]]

(* LoopHandle::remove, for the timers that the tokens of H name.  Mutant: they
   run on. *)
CancelNoTimers(H) == timers

CancelTimers(H) ==
  {t \in timers : \A h \in H : t.token # pending_tokens[h]}

ActivateUnverified(h) ==        \* switch_verify_timeout is None
  /\ ~verify_timeout
  /\ verifier' = RecordAttempt(verifier, h, FALSE)
  /\ hist' = [hist EXCEPT !.attempted = @ \union {h}]
  /\ UNCHANGED <<verify_timeout, pending_tokens, timers, next_token>>

ActivateWithTimer(h) ==         \* insert_source returned a token
  /\ verify_timeout
  /\ next_token < MaxTimers
  /\ timers' = timers \union {[token |-> next_token, handle |-> h]}
  /\ next_token' = next_token + 1
  /\ verifier' = RecordAttempt(verifier, h, TRUE)
  /\ pending_tokens' = InsertToken(h, next_token)
  /\ hist' = [hist EXCEPT !.attempted = @ \union {h},
                          !.clean = @ /\ h \notin verifier.pending]
  /\ UNCHANGED verify_timeout

ActivateTimerRefused(h) ==      \* insert_source failed
  /\ verify_timeout
  /\ verifier' = RecordAttempt(verifier, h, FALSE)
  /\ hist' = [hist EXCEPT !.attempted = @ \union {h}]
  /\ UNCHANGED <<verify_timeout, pending_tokens, timers, next_token>>

(* The timer callback.  All timers have the same duration, so the earliest
   registered one expires first.  It removes the handle's token whichever
   timer that token names, and is dropped. *)
TimerFires(t) ==
  /\ t \in timers
  /\ \A u \in timers : t.token <= u.token
  /\ timers' = timers \ {t}
  /\ verifier' = RecordTimeout(verifier, t.handle)
  /\ pending_tokens' = DropTokens({t.handle})
  /\ LET event == TimeoutEvent(verifier, t.handle) IN
     hist' = [hist EXCEPT !.warns = IF LogsWarn(event) THEN @ + 1 ELSE @]
  /\ UNCHANGED <<verify_timeout, next_token>>

(* WorkspaceHandler::done for a batch in which exactly the workspaces in
   active have the Active bit.  The walk visits the handles that have a
   token, in the order of a HashMap; record_confirm commutes with itself, so
   the walk is one step: with anything to confirm it ends in any of them
   applied last. *)
ConfirmAll(v, H) ==
  IF H = {} THEN v
  ELSE LET last == CHOOSE h \in H : TRUE
       IN RecordConfirm([v EXCEPT !.pending = @ \ H], last)

Done(active) ==
  LET confirmed == DOMAIN pending_tokens \intersect active
      seen      == \E t \in timers : t.handle \in active
  IN /\ verifier' = ConfirmAll(verifier, confirmed)
     /\ timers' = CancelTimers(confirmed)
     /\ pending_tokens' = DropTokens(confirmed)
     /\ hist' = [hist EXCEPT !.answered = @ \/ seen]
     /\ UNCHANGED <<verify_timeout, next_token>>

Next ==
  \/ \E h \in Handles : ActivateUnverified(h)
  \/ \E h \in Handles : ActivateWithTimer(h)
  \/ \E h \in Handles : ActivateTimerRefused(h)
  \/ \E t \in timers : TimerFires(t)
  \/ \E active \in SUBSET Handles : Done(active)

Spec == Init /\ [][Next]_vars

(* A calloop timer that is registered expires, and its callback runs, as long
   as the loop runs: nothing else has to happen. *)
FairSpec == Spec /\ WF_vars(\E t \in timers : TimerFires(t))
-----------------------------------------------------------------------------
(* Properties that hold whatever the callers do. *)

(* The two tables never disagree: a handle is pending in the verifier exactly
   when AppData holds a token for it, and that token names a timer of this
   handle that is still in the event loop.  So done() can never cancel a
   foreign timer, nor confirm a handle the verifier has given up on, even
   when stale timers of the same handle fire in between. *)
TablesAgree ==
  /\ verifier.pending = DOMAIN pending_tokens
  /\ \A h \in DOMAIN pending_tokens :
       [token |-> pending_tokens[h], handle |-> h] \in timers

(* The WARN of signal B is logged at most once per session, and not before
   N distinct workspaces have been activated since the session began: neither
   repeated attempts at one workspace nor stale timers bring it about. *)
WarnIsRare ==
  /\ hist.warns <= 1
  /\ hist.warns = 1 => Cardinality(hist.attempted) >= WarnThreshold

(* The WARN is never logged in a session that has confirmed an activation,
   whenever the confirmation came: suspicion is not rebuilt afterwards. *)
NoWarnOnceConfirmed ==
  [][verifier.ever_confirmed => hist'.warns = hist.warns]_vars

(* No activation stays pending for ever: it is confirmed, or one of the
   handle's timers fires. *)
PendingResolves ==
  \A h \in Handles : h \in verifier.pending ~> h \notin verifier.pending

-----------------------------------------------------------------------------
(* Properties of the callers that never re-activate a pending handle, which is
   what record_attempt's debug_assert asks of them. *)

(* Every timer in the event loop is the one its handle's token names: none can
   outlive a confirmation and fire for a later attempt. *)
CleanTimersAreTracked ==
  hist.clean =>
    \A t \in timers : /\ t.handle \in DOMAIN pending_tokens
                      /\ pending_tokens[t.handle] = t.token

(* A compositor that showed a workspace active while its timer was running has
   been believed: ever_confirmed is set, so no WARN can follow. *)
CleanAnswersAreBelieved ==
  hist.clean /\ hist.answered => verifier.ever_confirmed

-----------------------------------------------------------------------------
(* The inductive strengthening behind the proofs. *)

TokensAreFresh ==
  /\ \A t \in timers : t.token < next_token
  /\ \A t, u \in timers : t.token = u.token => t = u

AttemptsAreCounted ==
  /\ IsFiniteSet(hist.attempted)
  /\ verifier.attempted_distinct \subseteq hist.attempted

WarnIsLatched ==
  /\ hist.warns = IF verifier.process_warn_fired THEN 1 ELSE 0
  /\ verifier.process_warn_fired =>
       Cardinality(hist.attempted) >= WarnThreshold

(* What makes the properties above inductive: tokens are never reused, the
   verifier's attempts are among those made, and the WARN the observer counted
   is the one the latch remembers. *)
IInv ==
  /\ TypeOK
  /\ TablesAgree
  /\ TokensAreFresh
  /\ CleanTimersAreTracked
  /\ CleanAnswersAreBelieved
  /\ AttemptsAreCounted
  /\ WarnIsLatched

=============================================================================
