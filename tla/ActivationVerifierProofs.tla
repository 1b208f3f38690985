--------------------- MODULE ActivationVerifierProofs -----------------------
(***************************************************************************)
(* Proofs about ActivationVerifier, for every set of handles, every        *)
(* threshold and every number of timers.  Each action preserves IInv, one  *)
(* lemma per action; the theorems read their properties off IInv.          *)
(***************************************************************************)
EXTENDS ActivationVerifier, FiniteSetTheorems, TLAPS

(* The verifier's transitions stay within VerifierState, src/verify.rs. *)
LEMMA VerifierTypes ==
  ASSUME NEW v \in VerifierState, NEW h \in Handles, NEW timed \in BOOLEAN
  PROVE  /\ RecordAttempt(v, h, timed) \in VerifierState
         /\ RecordTimeout(v, h) \in VerifierState
         /\ RecordConfirm(v, h) \in VerifierState
<1>1. RecordAttempt(v, h, timed) \in VerifierState
  BY DEF RecordAttempt, VerifierState
<1>2. RecordTimeout(v, h) \in VerifierState
  BY DEF RecordTimeout, VerifierState, WarnFires
<1>3. RecordConfirm(v, h) \in VerifierState
  BY DEF RecordConfirm, VerifierState
<1> QED BY <1>1, <1>2, <1>3

(* So does the confirm walk of done(), whatever it confirms. *)
LEMMA ConfirmAllType ==
  ASSUME NEW v \in VerifierState, NEW H \in SUBSET Handles
  PROVE  ConfirmAll(v, H) \in VerifierState
<1>1. CASE H = {}
  BY <1>1 DEF ConfirmAll
<1>2. CASE H # {}
  <2>1. (CHOOSE g \in H : TRUE) \in Handles
    BY <1>2
  <2>2. [v EXCEPT !.pending = @ \ H] \in VerifierState
    BY DEF VerifierState
  <2> QED BY <1>2, <2>1, <2>2, VerifierTypes DEF ConfirmAll
<1> QED BY <1>1, <1>2

(* What the confirm walk of done() leaves of the verifier. *)
LEMMA ConfirmAllFields ==
  ASSUME NEW v \in VerifierState, NEW H \in SUBSET Handles
  PROVE  /\ ConfirmAll(v, H).pending = v.pending \ H
         /\ ConfirmAll(v, H).process_warn_fired = v.process_warn_fired
         /\ ConfirmAll(v, H).attempted_distinct \subseteq v.attempted_distinct
         /\ ConfirmAll(v, H).ever_confirmed = (v.ever_confirmed \/ H # {})
<1>1. CASE H = {}
  BY <1>1 DEF ConfirmAll, VerifierState
<1>2. CASE H # {}
  <2>1. (CHOOSE g \in H : TRUE) \in H
    BY <1>2
  <2> QED BY <1>2, <2>1 DEF ConfirmAll, RecordConfirm, VerifierState
<1> QED BY <1>1, <1>2

(* One more attempt keeps the set of attempts finite and no smaller. *)
LEMMA OneMoreAttempt ==
  ASSUME NEW S, IsFiniteSet(S), NEW h
  PROVE  /\ IsFiniteSet(S \union {h})
         /\ Cardinality(S) \in Nat
         /\ Cardinality(S \union {h}) \in Nat
         /\ Cardinality(S \union {h}) >= Cardinality(S)
<1>1. IsFiniteSet(S \union {h})
  BY FS_AddElement
<1>2. S \subseteq S \union {h}
  OBVIOUS
<1>3. Cardinality(S) \in Nat /\ Cardinality(S \union {h}) \in Nat
  BY <1>1, FS_CardinalityType
<1>4. Cardinality(S) <= Cardinality(S \union {h})
  BY <1>1, <1>2, FS_Subset
<1> QED BY <1>1, <1>3, <1>4

(* The event record_timeout returns carries the WARN exactly when it is due. *)
LEMMA WarnIsInTheEvent ==
  ASSUME NEW v, NEW h
  PROVE  LogsWarn(TimeoutEvent(v, h)) <=> WarnFires(v)
<1>1. CASE WarnFires(v)
  <2>1. TimeoutEvent(v, h) \in {"WarnOnceForProcess", "InfoAndWarn"}
    BY <1>1 DEF TimeoutEvent, InfoFires
  <2> QED BY <1>1, <2>1 DEF LogsWarn
<1>2. CASE ~WarnFires(v)
  <2>1. TimeoutEvent(v, h) \in {"InfoOnceForHandle", "None"}
    BY <1>2 DEF TimeoutEvent, InfoFires
  <2>2. ~LogsWarn(TimeoutEvent(v, h))
    BY <2>1 DEF LogsWarn
  <2> QED BY <1>2, <2>2
<1> QED BY <1>1, <1>2

(* The empty tables of a new AppData agree. *)
LEMMA InitEstablishesIInv == Init => IInv
<1> SUFFICES ASSUME Init PROVE IInv
  OBVIOUS
<1>1. TypeOK
  BY DEF Init, TypeOK, NewVerifier, VerifierState, History
<1>2. TablesAgree /\ TokensAreFresh /\ CleanTimersAreTracked
  BY DEF Init, TablesAgree, TokensAreFresh, CleanTimersAreTracked, NewVerifier
<1>3. CleanAnswersAreBelieved /\ WarnIsLatched
  BY DEF Init, CleanAnswersAreBelieved, WarnIsLatched, NewVerifier
<1>4. AttemptsAreCounted
  BY FS_EmptySet DEF Init, AttemptsAreCounted, NewVerifier
<1> QED BY <1>1, <1>2, <1>3, <1>4 DEF IInv

(* An attempt without a timer only extends the sets of attempts. *)
LEMMA UntimedAttemptKeepsIInv ==
  ASSUME IInv, NEW h \in Handles, ActivateUnverified(h) \/ ActivateTimerRefused(h)
  PROVE  IInv'
<1> USE DEF IInv, TypeOK
<1>1. /\ verifier' = RecordAttempt(verifier, h, FALSE)
      /\ hist' = [hist EXCEPT !.attempted = @ \union {h}]
      /\ UNCHANGED <<verify_timeout, pending_tokens, timers, next_token>>
  BY DEF ActivateUnverified, ActivateTimerRefused
<1>2. TypeOK'
  <2>1. verifier' \in VerifierState
    BY <1>1, VerifierTypes
  <2>2. hist' \in History
    BY <1>1 DEF History
  <2> QED BY <1>1, <2>1, <2>2
<1>3. /\ verifier'.pending = verifier.pending
      /\ verifier'.ever_confirmed = verifier.ever_confirmed
      /\ verifier'.process_warn_fired = verifier.process_warn_fired
      /\ verifier'.attempted_distinct = verifier.attempted_distinct \union {h}
  BY <1>1 DEF RecordAttempt, VerifierState
<1>4. /\ hist'.attempted = hist.attempted \union {h}
      /\ hist'.warns = hist.warns
      /\ hist'.clean = hist.clean
      /\ hist'.answered = hist.answered
  BY <1>1 DEF History
<1>5. (TablesAgree /\ TokensAreFresh /\ CleanTimersAreTracked
         /\ CleanAnswersAreBelieved)'
  BY <1>1, <1>3, <1>4 DEF TablesAgree, TokensAreFresh, CleanTimersAreTracked,
                          CleanAnswersAreBelieved
<1>6. (AttemptsAreCounted /\ WarnIsLatched)'
  <2>1. /\ IsFiniteSet(hist'.attempted)
        /\ Cardinality(hist.attempted) \in Nat
        /\ Cardinality(hist'.attempted) \in Nat
        /\ Cardinality(hist'.attempted) >= Cardinality(hist.attempted)
    <3>1. IsFiniteSet(hist.attempted)
      BY DEF AttemptsAreCounted
    <3>2. hist'.attempted = hist.attempted \union {h}
      BY <1>4
    <3> HIDE DEF IInv, TypeOK
    <3> QED BY <3>1, <3>2, OneMoreAttempt
  <2>2. Cardinality(hist.attempted) >= WarnThreshold
          => Cardinality(hist'.attempted) >= WarnThreshold
    BY <2>1, WarnThresholdAssumption
  <2> QED BY <1>3, <1>4, <2>1, <2>2 DEF AttemptsAreCounted, WarnIsLatched
<1> QED BY <1>2, <1>5, <1>6

(* A timed attempt makes its new timer the tracked one; if the handle was
   pending, the history is no longer clean. *)
LEMMA TimedAttemptKeepsIInv ==
  ASSUME IInv, NEW h \in Handles, ActivateWithTimer(h)
  PROVE  IInv'
<1> USE DEF IInv, TypeOK
<1> DEFINE new == [token |-> next_token, handle |-> h]
<1>1. /\ timers' = timers \union {new}
      /\ next_token' = next_token + 1
      /\ verifier' = RecordAttempt(verifier, h, TRUE)
      /\ pending_tokens' = InsertToken(h, next_token)
      /\ hist' = [hist EXCEPT !.attempted = @ \union {h},
                              !.clean = @ /\ h \notin verifier.pending]
      /\ UNCHANGED verify_timeout
  BY DEF ActivateWithTimer
<1>2. new \in Timer /\ new.token = next_token /\ new.handle = h
  BY DEF Timer
<1>3. /\ DOMAIN pending_tokens' = DOMAIN pending_tokens \union {h}
      /\ pending_tokens'[h] = next_token
      /\ \A g \in DOMAIN pending_tokens :
           g # h => pending_tokens'[g] = pending_tokens[g]
      /\ pending_tokens' \in [DOMAIN pending_tokens' -> Nat]
  BY <1>1 DEF InsertToken
<1>4. /\ verifier'.pending = verifier.pending \union {h}
      /\ verifier'.ever_confirmed = verifier.ever_confirmed
      /\ verifier'.process_warn_fired = verifier.process_warn_fired
      /\ verifier'.attempted_distinct = verifier.attempted_distinct \union {h}
  BY <1>1 DEF RecordAttempt, VerifierState
<1>5. /\ hist'.attempted = hist.attempted \union {h}
      /\ hist'.warns = hist.warns
      /\ hist'.answered = hist.answered
      /\ hist'.clean = (hist.clean /\ h \notin verifier.pending)
  BY <1>1 DEF History
<1>6. TypeOK'
  <2>1. verifier' \in VerifierState
    BY <1>1, VerifierTypes
  <2>2. hist' \in History
    BY <1>1 DEF History
  <2>3. next_token' \in Nat
    BY <1>1
  <2> QED BY <1>1, <1>2, <1>3, <2>1, <2>2, <2>3
<1>7. TablesAgree'
  BY <1>1, <1>3, <1>4 DEF TablesAgree
<1>8. TokensAreFresh'
  <2>1. \A t \in timers : t.token \in Nat /\ t.token < next_token
    BY DEF TokensAreFresh, Timer
  <2> QED BY <1>1, <1>2, <2>1 DEF TokensAreFresh
<1>9. CleanTimersAreTracked'
  <2> SUFFICES ASSUME hist'.clean, NEW t \in timers'
               PROVE  /\ t.handle \in DOMAIN pending_tokens'
                      /\ pending_tokens'[t.handle] = t.token
    BY DEF CleanTimersAreTracked
  <2>1. hist.clean /\ h \notin DOMAIN pending_tokens
    BY <1>5 DEF TablesAgree
  <2>2. CASE t = new
    BY <1>2, <1>3, <2>2
  <2>3. CASE t \in timers
    <3>1. t.handle \in DOMAIN pending_tokens /\ pending_tokens[t.handle] = t.token
      BY <2>1, <2>3 DEF CleanTimersAreTracked
    <3> QED BY <1>3, <2>1, <3>1
  <2> QED BY <1>1, <2>2, <2>3
<1>10. CleanAnswersAreBelieved'
  BY <1>4, <1>5 DEF CleanAnswersAreBelieved
<1>11. (AttemptsAreCounted /\ WarnIsLatched)'
  <2>1. /\ IsFiniteSet(hist'.attempted)
        /\ Cardinality(hist.attempted) \in Nat
        /\ Cardinality(hist'.attempted) \in Nat
        /\ Cardinality(hist'.attempted) >= Cardinality(hist.attempted)
    <3>1. IsFiniteSet(hist.attempted)
      BY DEF AttemptsAreCounted
    <3>2. hist'.attempted = hist.attempted \union {h}
      BY <1>5
    <3> HIDE DEF IInv, TypeOK
    <3> QED BY <3>1, <3>2, OneMoreAttempt
  <2>2. Cardinality(hist.attempted) >= WarnThreshold
          => Cardinality(hist'.attempted) >= WarnThreshold
    BY <2>1, WarnThresholdAssumption
  <2> QED BY <1>4, <1>5, <2>1, <2>2 DEF AttemptsAreCounted, WarnIsLatched
<1> QED BY <1>6, <1>7, <1>8, <1>9, <1>10, <1>11

(* A timer that fires takes its handle out of both tables, whichever timer the
   token named; the WARN it may log is the latch's. *)
LEMMA TimerKeepsIInv ==
  ASSUME IInv, NEW t \in timers, TimerFires(t)
  PROVE  IInv'
<1> USE DEF IInv, TypeOK
<1>1. /\ timers' = timers \ {t}
      /\ verifier' = RecordTimeout(verifier, t.handle)
      /\ pending_tokens' = DropTokens({t.handle})
      /\ UNCHANGED <<verify_timeout, next_token>>
  BY DEF TimerFires
<1>2. t.handle \in Handles
  BY DEF Timer
<1>3. /\ DOMAIN pending_tokens' = DOMAIN pending_tokens \ {t.handle}
      /\ \A g \in DOMAIN pending_tokens' : pending_tokens'[g] = pending_tokens[g]
      /\ pending_tokens' \in [DOMAIN pending_tokens' -> Nat]
  BY <1>1 DEF DropTokens
<1>4. /\ verifier'.pending = verifier.pending \ {t.handle}
      /\ verifier'.ever_confirmed = verifier.ever_confirmed
      /\ verifier'.attempted_distinct = verifier.attempted_distinct
      /\ verifier'.process_warn_fired =
           (verifier.process_warn_fired \/ WarnFires(verifier))
  BY <1>1 DEF RecordTimeout, VerifierState
<1>5. /\ hist' \in History
      /\ hist'.attempted = hist.attempted
      /\ hist'.answered = hist.answered
      /\ hist'.clean = hist.clean
      /\ hist'.warns = IF WarnFires(verifier) THEN hist.warns + 1 ELSE hist.warns
  <2>1. LogsWarn(TimeoutEvent(verifier, t.handle)) <=> WarnFires(verifier)
    BY WarnIsInTheEvent
  <2>2. WarnFires(verifier) \in BOOLEAN
    BY DEF WarnFires
  <2>3. hist' = [hist EXCEPT !.warns = IF WarnFires(verifier) THEN hist.warns + 1
                                       ELSE hist.warns]
    BY <2>1 DEF TimerFires
  <2>4. hist'.warns = IF WarnFires(verifier) THEN hist.warns + 1 ELSE hist.warns
    BY <2>3 DEF History
  <2>5. hist'.warns \in Nat
    BY <2>4 DEF History
  <2> QED BY <2>3, <2>4, <2>5 DEF History
<1>6. TypeOK'
  BY <1>1, <1>2, <1>3, <1>5, VerifierTypes
<1>7. (TokensAreFresh /\ CleanTimersAreTracked /\ TablesAgree)'
  <2>1. TokensAreFresh'
    BY <1>1 DEF TokensAreFresh
  <2>2. TablesAgree'
    <3>1. verifier'.pending = DOMAIN pending_tokens'
      BY <1>3, <1>4 DEF TablesAgree
    <3>2. ASSUME NEW g \in DOMAIN pending_tokens'
          PROVE  [token |-> pending_tokens'[g], handle |-> g] \in timers'
      <4>1. g # t.handle /\ [token |-> pending_tokens[g], handle |-> g] \in timers
        BY <1>3, <3>2 DEF TablesAgree
      <4>2. [token |-> pending_tokens[g], handle |-> g] # t
        BY <4>1
      <4> QED BY <1>1, <1>3, <3>2, <4>1, <4>2
    <3> QED BY <3>1, <3>2 DEF TablesAgree
  <2>3. CleanTimersAreTracked'
    <3> SUFFICES ASSUME hist'.clean, NEW u \in timers'
                 PROVE  /\ u.handle \in DOMAIN pending_tokens'
                        /\ pending_tokens'[u.handle] = u.token
      BY DEF CleanTimersAreTracked
    <3>1. /\ u \in timers /\ u # t
          /\ u.handle \in DOMAIN pending_tokens
          /\ pending_tokens[u.handle] = u.token
          /\ pending_tokens[t.handle] = t.token
      BY <1>1, <1>5 DEF CleanTimersAreTracked
    <3>2. u.handle # t.handle
      BY <3>1 DEF TokensAreFresh
    <3> QED BY <1>3, <3>1, <3>2
  <2> QED BY <2>1, <2>2, <2>3
<1>8. (AttemptsAreCounted /\ CleanAnswersAreBelieved)'
  BY <1>4, <1>5 DEF AttemptsAreCounted, CleanAnswersAreBelieved
<1>9. WarnIsLatched'
  <2>1. CASE WarnFires(verifier)
    <3>1. /\ ~verifier.process_warn_fired
          /\ Cardinality(verifier.attempted_distinct) >= WarnThreshold
      BY <2>1 DEF WarnFires
    <3>2. /\ Cardinality(verifier.attempted_distinct) \in Nat
          /\ Cardinality(hist.attempted) \in Nat
          /\ Cardinality(verifier.attempted_distinct) <= Cardinality(hist.attempted)
      BY FS_Subset, FS_CardinalityType DEF AttemptsAreCounted
    <3>3. Cardinality(hist.attempted) >= WarnThreshold
      BY <3>1, <3>2, WarnThresholdAssumption
    <3>4. verifier'.process_warn_fired
      BY <1>4, <2>1
    <3>5. hist.warns = 0 /\ hist'.warns = hist.warns + 1
      BY <1>5, <2>1, <3>1 DEF WarnIsLatched
    <3> QED BY <1>5, <3>3, <3>4, <3>5 DEF WarnIsLatched
  <2>2. CASE ~WarnFires(verifier)
    <3>1. verifier'.process_warn_fired = verifier.process_warn_fired
      BY <1>4, <2>2 DEF VerifierState
    <3> QED BY <1>5, <2>2, <3>1 DEF WarnIsLatched
  <2> QED BY <2>1, <2>2
<1> QED BY <1>6, <1>7, <1>8, <1>9

(* done() confirms tracked handles only, and removes exactly their timers. *)
LEMMA DoneKeepsIInv ==
  ASSUME IInv, NEW active \in SUBSET Handles, Done(active)
  PROVE  IInv'
<1> USE DEF IInv, TypeOK
<1> DEFINE confirmed == DOMAIN pending_tokens \intersect active
           seen == \E t \in timers : t.handle \in active
<1>1. /\ verifier' = ConfirmAll(verifier, confirmed)
      /\ timers' = {t \in timers : \A h \in confirmed :
                                     t.token # pending_tokens[h]}
      /\ pending_tokens' = DropTokens(confirmed)
      /\ UNCHANGED <<verify_timeout, next_token>>
      /\ hist' = [hist EXCEPT !.answered = @ \/ seen]
  BY DEF Done, CancelTimers
<1>2. confirmed \in SUBSET Handles /\ timers' \subseteq timers
  BY <1>1
<1> HIDE DEF seen
<1>3. /\ DOMAIN pending_tokens' = DOMAIN pending_tokens \ confirmed
      /\ \A g \in DOMAIN pending_tokens' : pending_tokens'[g] = pending_tokens[g]
      /\ pending_tokens' \in [DOMAIN pending_tokens' -> Nat]
  BY <1>1 DEF DropTokens
<1>4. /\ verifier'.pending = verifier.pending \ confirmed
      /\ verifier'.process_warn_fired = verifier.process_warn_fired
      /\ verifier'.attempted_distinct \subseteq verifier.attempted_distinct
      /\ verifier'.ever_confirmed = (verifier.ever_confirmed \/ confirmed # {})
  BY <1>1, <1>2, ConfirmAllFields
<1>5. /\ hist' \in History
      /\ hist'.attempted = hist.attempted
      /\ hist'.warns = hist.warns
      /\ hist'.clean = hist.clean
      /\ hist'.answered = (hist.answered \/ seen)
  <2>1. seen \in BOOLEAN
    BY DEF seen
  <2> QED BY <1>1, <2>1 DEF History
<1>6. TypeOK'
  <2>1. verifier' \in VerifierState
    <3>1. verifier \in VerifierState /\ verifier' = ConfirmAll(verifier, confirmed)
      BY <1>1
    <3> HIDE DEF confirmed, IInv, TypeOK
    <3> QED BY <1>2, <3>1, ConfirmAllType
  <2>2. timers' \subseteq Timer /\ next_token' \in Nat /\ verify_timeout' \in BOOLEAN
    BY <1>1, <1>2
  <2>3. DOMAIN pending_tokens' \subseteq Handles
    BY <1>3
  <2> QED BY <1>3, <1>5, <2>1, <2>2, <2>3
<1>7. TablesAgree'
  <2>1. verifier'.pending = DOMAIN pending_tokens'
    BY <1>3, <1>4 DEF TablesAgree
  <2>2. ASSUME NEW g \in DOMAIN pending_tokens'
        PROVE  [token |-> pending_tokens'[g], handle |-> g] \in timers'
    <3> DEFINE tg == [token |-> pending_tokens[g], handle |-> g]
    <3>1. g \notin confirmed /\ tg \in timers
      BY <1>3, <2>2 DEF TablesAgree
    <3>2. ASSUME NEW h \in confirmed PROVE tg.token # pending_tokens[h]
      <4>1. [token |-> pending_tokens[h], handle |-> h] \in timers
        BY <3>2 DEF TablesAgree
      <4>2. tg # [token |-> pending_tokens[h], handle |-> h]
        BY <3>1, <3>2
      <4> QED BY <3>1, <4>1, <4>2 DEF TokensAreFresh
    <3> QED BY <1>1, <1>3, <2>2, <3>1, <3>2
  <2> QED BY <2>1, <2>2 DEF TablesAgree
<1>8. TokensAreFresh'
  BY <1>1, <1>2 DEF TokensAreFresh
<1>9. CleanTimersAreTracked'
  <2> SUFFICES ASSUME hist'.clean, NEW u \in timers'
               PROVE  /\ u.handle \in DOMAIN pending_tokens'
                      /\ pending_tokens'[u.handle] = u.token
    BY DEF CleanTimersAreTracked
  <2>1. u \in timers /\ \A h \in confirmed : u.token # pending_tokens[h]
    BY <1>1
  <2>2. u.handle \in DOMAIN pending_tokens /\ pending_tokens[u.handle] = u.token
    BY <1>5, <2>1 DEF CleanTimersAreTracked
  <2> QED BY <1>3, <2>1, <2>2
<1>10. CleanAnswersAreBelieved'
  <2> SUFFICES ASSUME hist.clean, hist.answered \/ seen
               PROVE  verifier.ever_confirmed \/ confirmed # {}
    BY <1>4, <1>5 DEF CleanAnswersAreBelieved
  <2>1. CASE hist.answered
    BY <2>1 DEF CleanAnswersAreBelieved
  <2>2. CASE seen
    <3>1. PICK t \in timers : t.handle \in active
      BY <2>2 DEF seen
    <3>2. t.handle \in confirmed
      BY <3>1 DEF CleanTimersAreTracked
    <3> QED BY <3>2
  <2> QED BY <2>1, <2>2
<1>11. (AttemptsAreCounted /\ WarnIsLatched)'
  BY <1>4, <1>5 DEF AttemptsAreCounted, WarnIsLatched
<1> QED BY <1>6, <1>7, <1>8, <1>9, <1>10, <1>11

LEMMA StepKeepsIInv == IInv /\ [Next]_vars => IInv'
<1> SUFFICES ASSUME IInv, [Next]_vars PROVE IInv'
  OBVIOUS
<1>1. ASSUME NEW h \in Handles, ActivateUnverified(h) PROVE IInv'
  BY <1>1, UntimedAttemptKeepsIInv
<1>2. ASSUME NEW h \in Handles, ActivateWithTimer(h) PROVE IInv'
  BY <1>2, TimedAttemptKeepsIInv
<1>3. ASSUME NEW h \in Handles, ActivateTimerRefused(h) PROVE IInv'
  BY <1>3, UntimedAttemptKeepsIInv
<1>4. ASSUME NEW t \in timers, TimerFires(t) PROVE IInv'
  BY <1>4, TimerKeepsIInv
<1>5. ASSUME NEW active \in SUBSET Handles, Done(active) PROVE IInv'
  BY <1>5, DoneKeepsIInv
<1>6. CASE UNCHANGED vars
  BY <1>6 DEF vars, IInv, TypeOK, TablesAgree, TokensAreFresh,
              CleanTimersAreTracked, CleanAnswersAreBelieved,
              AttemptsAreCounted, WarnIsLatched
<1> QED BY <1>1, <1>2, <1>3, <1>4, <1>5, <1>6 DEF Next

(* The inductive invariant holds of every reachable state. *)
THEOREM Invariance == Spec => []IInv
BY InitEstablishesIInv, StepKeepsIInv, PTL DEF Spec

(* Every variable keeps its type: the tables are maps over workspace handles,
   and the event loop's sources are timers of such handles. *)
THEOREM TypeCorrect == Spec => []TypeOK
<1>1. IInv => TypeOK
  BY DEF IInv
<1> QED BY <1>1, Invariance, PTL

(* The verifier's pending map, AppData.pending_tokens and the event loop's
   timers agree, for every order of re-activations, confirmations and stale
   timers. *)
THEOREM TablesStayInAgreement == Spec => []TablesAgree
<1>1. IInv => TablesAgree
  BY DEF IInv
<1> QED BY <1>1, Invariance, PTL

(* At most one WARN a session, and only after N distinct attempts. *)
THEOREM WarnStaysRare == Spec => []WarnIsRare
<1>1. IInv => WarnIsRare
  BY DEF IInv, WarnIsLatched, WarnIsRare
<1> QED BY <1>1, Invariance, PTL

(* Callers that cancel before they re-activate leave no stale timer behind. *)
THEOREM CleanCallersTrackTheirTimers == Spec => []CleanTimersAreTracked
<1>1. IInv => CleanTimersAreTracked
  BY DEF IInv
<1> QED BY <1>1, Invariance, PTL

(* For such callers, an answer that came in time is a confirmation. *)
THEOREM CleanCallersBelieveAnswers == Spec => []CleanAnswersAreBelieved
<1>1. IInv => CleanAnswersAreBelieved
  BY DEF IInv
<1> QED BY <1>1, Invariance, PTL

(* After a confirmation no step logs the WARN. *)
THEOREM ConfirmationSilencesTheWarn == Spec => NoWarnOnceConfirmed
<1>1. IInv /\ [Next]_vars => [verifier.ever_confirmed => hist'.warns = hist.warns]_vars
  <2> SUFFICES ASSUME IInv, Next, verifier.ever_confirmed
               PROVE  hist'.warns = hist.warns
    BY DEF vars
  <2> USE DEF IInv, TypeOK, History
  <2>1. ASSUME NEW h \in Handles,
               ActivateUnverified(h) \/ ActivateWithTimer(h) \/ ActivateTimerRefused(h)
        PROVE  hist'.warns = hist.warns
    BY <2>1 DEF ActivateUnverified, ActivateWithTimer, ActivateTimerRefused
  <2>2. ASSUME NEW t \in timers, TimerFires(t) PROVE hist'.warns = hist.warns
    <3>1. ~LogsWarn(TimeoutEvent(verifier, t.handle))
      BY DEF LogsWarn, TimeoutEvent, WarnFires
    <3> QED BY <2>2, <3>1 DEF TimerFires
  <2>3. ASSUME NEW active \in SUBSET Handles, Done(active)
        PROVE  hist'.warns = hist.warns
    BY <2>3 DEF Done
  <2> QED BY <2>1, <2>2, <2>3 DEF Next
<1> QED BY <1>1, Invariance, PTL DEF Spec, NoWarnOnceConfirmed
=============================================================================
