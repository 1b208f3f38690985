-------------------------- MODULE LifecycleProofs ---------------------------
(***************************************************************************)
(* Supervisor implements Lifecycle, for every ladder of delays and every   *)
(* set of shutdown signals.  One step per action of the supervisor says    *)
(* which step of the abstract process it is; the steps that no action of   *)
(* Lifecycle stands for leave the five abstract variables alone.           *)
(***************************************************************************)
EXTENDS SupervisorProofs

(* The process starts as a new one, on the first delay, unasked. *)
LEMMA InitIsNew == Init => Life!Init
BY DEF Init, Life!Init, Stage, Connecting, Backoff

(* Every place the process may be at is of one stage only. *)
LEMMA StageByPlace ==
  ASSUME TypeOK
  PROVE  /\ pc = "start" => Stage = "new"
         /\ pc \in {"check", "poll", "sleep"} => Stage = "idle"
         /\ pc \in {"connect", "handshake", "wire"} => Stage = "trying"
         /\ pc = "running" => Stage = "serving"
         /\ pc = "exited" => Stage = IF exit_code = 0 THEN "succeeded" ELSE "failed"
         /\ pc = "killed" => Stage = "killed"
BY DEF Stage, Connecting, Backoff

(* The same of the state after a step. *)
LEMMA StageByPlaceAfter ==
  ASSUME TypeOK'
  PROVE  /\ pc' \in {"check", "poll", "sleep"} => Stage' = "idle"
         /\ pc' \in {"connect", "handshake", "wire"} => Stage' = "trying"
         /\ pc' = "running" => Stage' = "serving"
         /\ pc' = "exited" =>
              Stage' = IF exit_code' = 0 THEN "succeeded" ELSE "failed"
         /\ pc' = "killed" => Stage' = "killed"
BY DEF Stage, Connecting, Backoff

(* The next delay of the ladder is the abstract one. *)
LEMMA DisconnectIsLose ==
  ASSUME TypeOK, TypeOK', BackendDisconnect,
         pc \in {"connect", "handshake", "wire", "running"},
         flag' \in {flag, flag \/ (pc = "running" /\ hist.signalled # {})}
  PROVE  Life!Lose
<1>1. NumSteps \in Nat /\ NumSteps > 0 /\ cursor \in 0 .. NumSteps - 1
  BY StepsArePositive DEF TypeOK
<1>2. Stage \in {"trying", "serving"} /\ (pc = "running" <=> Stage = "serving")
  BY StageByPlace
<1>3. pc' = "poll" /\ remaining' = BackoffSteps[cursor + 1]
  BY DEF BackendDisconnect, NextDelay
<1>4. cursor' = IF cursor + 1 < NumSteps THEN cursor + 1 ELSE cursor
  BY DEF BackendDisconnect, NextCursor
<1>5. cursor' + 1 = IF cursor + 1 < Len(BackoffSteps) THEN (cursor + 1) + 1
                    ELSE cursor + 1
  BY <1>1, <1>4 DEF NumSteps
<1>6. Stage' = "idle"
  BY <1>3, StageByPlaceAfter
<1>7. hist'.signalled = hist.signalled
  BY DisconnectIsQuiet
<1>8. flag' \in {flag, flag \/ (Stage = "serving" /\ hist.signalled # {})}
  BY <1>2
<1> QED BY <1>2, <1>3, <1>5, <1>6, <1>7, <1>8 DEF Life!Lose, Life!MayHear

(* A fatal error is the abstract failure. *)
LEMMA FatalIsFail ==
  ASSUME TypeOK, TypeOK', Fatal,
         pc \in {"start", "connect", "handshake", "wire", "running"},
         flag' \in {flag, flag \/ (pc = "running" /\ hist.signalled # {})}
  PROVE  Life!Fail
<1>1. Stage \in {"new", "trying", "serving"}
      /\ (pc = "running" <=> Stage = "serving")
  BY StageByPlace
<1>2. /\ pc' = "exited" /\ exit_code' = 1 /\ UNCHANGED <<cursor, remaining>>
      /\ hist'.signalled = hist.signalled
  BY FatalIsQuiet
<1>3. Stage' = "failed"
  BY <1>2, StageByPlaceAfter
<1> QED BY <1>1, <1>2, <1>3 DEF Life!Fail, Life!MayHear

(* Every step of the supervisor is a step of the abstract process, or none. *)
LEMMA StepsAreImplemented ==
  ASSUME IInv, TypeOK', [Next]_vars
  PROVE  [Life!Next]_(Life!vars)
<1> USE DEF kernel, backoff, Exit, Connecting, Backoff, Ended
<1>0. TypeOK /\ cursor \in Nat /\ remaining \in Nat
  BY DEF IInv, TypeOK
<1> DEFINE Step == [Life!Next]_(Life!vars)
<1>1. ASSUME Stage' = Stage, UNCHANGED <<cursor, remaining, flag>>,
             hist'.signalled = hist.signalled
      PROVE  Step
  BY <1>1 DEF Life!vars
<1>2. CASE ConfigError \/ NoWaylandSession \/ WiringFails
  <2>1. Life!Fail
    BY <1>0, <1>2, FatalIsFail DEF ConfigError, NoWaylandSession, WiringFails
  <2> QED BY <2>1 DEF Life!Next
<1>3. CASE InstallHandlers
  <2>1. Life!Begin
    BY <1>0, <1>3, StageByPlace, StageByPlaceAfter
       DEF InstallHandlers, Life!Begin
  <2> QED BY <2>1 DEF Life!Next
<1>4. CASE ExitBeforeConnect \/ ExitFromBackoff
  <2>1. exit_code' = 0 /\ pc' = "exited" /\ pc \in {"check", "poll"} /\ flag
    BY <1>4 DEF ExitBeforeConnect, ExitFromBackoff
  <2>2. Stage = "idle" /\ Stage' = "succeeded"
    BY <1>0, <2>1, StageByPlace, StageByPlaceAfter
  <2>3. Life!Succeed
    BY <1>4, <2>1, <2>2 DEF ExitBeforeConnect, ExitFromBackoff, Life!Succeed
  <2> QED BY <2>3 DEF Life!Next
<1>5. CASE StartConnect
  <2>1. Stage = "idle" /\ Stage' = "trying"
    BY <1>0, <1>5, StageByPlace, StageByPlaceAfter DEF StartConnect
  <2>2. remaining = 0
    BY <1>5 DEF IInv, DelayIsAccountedFor, StartConnect
  <2>3. Life!Try
    BY <1>5, <2>1, <2>2 DEF StartConnect, Life!Try
  <2> QED BY <2>3 DEF Life!Next
<1>6. CASE ConnectSocket \/ ConnectDisplay \/ Handshake
  <2>1. Stage = "trying" /\ Stage' = "trying"
    BY <1>0, <1>6, StageByPlace, StageByPlaceAfter
       DEF ConnectSocket, ConnectDisplay, Handshake
  <2> QED BY <1>1, <1>6, <2>1 DEF ConnectSocket, ConnectDisplay, Handshake
<1>7. CASE SocketRefused \/ ConnectFails \/ HandshakeFails
  <2>1. Life!Lose
    BY <1>0, <1>7, DisconnectIsLose
       DEF SocketRefused, ConnectFails, HandshakeFails
  <2> QED BY <2>1 DEF Life!Next
<1>8. CASE WireSources
  <2>1. Stage = "trying" /\ Stage' = "serving" /\ hist'.signalled = hist.signalled
    BY <1>0, <1>8, StageByPlace, StageByPlaceAfter DEF WireSources, TypeOK, History
  <2>2. Life!Serve
    BY <1>8, <2>1 DEF WireSources, Life!Serve
  <2> QED BY <2>2 DEF Life!Next
<1>9. CASE StopOnSignal
  <2>1. /\ pc = "running" /\ pc' = "exited" /\ exit_code' = 0
        /\ hist' = hist /\ pending # {} /\ UNCHANGED <<cursor, remaining>>
    BY <1>9 DEF StopOnSignal
  <2>2. hist.signalled # {}
    BY <2>1 DEF IInv, SignalsWereSent
  <2>3. flag' = flag
    BY <1>0, <1>9 DEF StopOnSignal, Unblock, TypeOK
  <2>4. Stage = "serving" /\ Stage' = "succeeded"
    BY <1>0, <2>1, StageByPlace, StageByPlaceAfter
  <2>5. Life!Succeed
    BY <2>1, <2>2, <2>3, <2>4 DEF Life!Succeed
  <2> QED BY <2>5 DEF Life!Next
<1>10. ASSUME NEW chain \in Chains, NEW read \in BOOLEAN,
              SessionFails(chain, read)
       PROVE  Step
  <2> DEFINE undelivered == IF read THEN {} ELSE pending
  <2>1. pc = "running" /\ Unblock(undelivered)
    BY <1>10 DEF SessionFails
  <2>2. undelivered \subseteq hist.signalled
    BY DEF IInv, SignalsWereSent
  <2>3. flag' \in {flag, flag \/ (pc = "running" /\ hist.signalled # {})}
    BY <1>0, <2>1, <2>2 DEF Unblock, TypeOK
  <2>4. CASE KillsOnDelivery(undelivered) /\ pc' = "killed"
               /\ UNCHANGED <<backoff, hist>>
    <3>1. hist.signalled # {}
      BY <2>2, <2>4 DEF KillsOnDelivery
    <3>2. Stage = "serving" /\ Stage' = "killed"
      BY <1>0, <2>1, <2>4, StageByPlace, StageByPlaceAfter
    <3>3. Life!Die
      BY <2>1, <2>3, <2>4, <3>1, <3>2 DEF Life!Die, Life!MayHear, Life!Over
    <3> QED BY <3>3 DEF Life!Next
  <2>5. CASE BackendDisconnect
    <3>1. Life!Lose
      BY <1>0, <2>1, <2>3, <2>5, DisconnectIsLose
    <3> QED BY <3>1 DEF Life!Next
  <2>6. CASE Fatal
    <3>1. Life!Fail
      BY <1>0, <2>1, <2>3, <2>6, FatalIsFail
    <3> QED BY <3>1 DEF Life!Next
  <2> QED BY <1>10, <2>4, <2>5, <2>6 DEF SessionFails, Outcome
<1>11. CASE BeginSleep \/ Retry
  <2>1. Stage = "idle" /\ Stage' = "idle"
    BY <1>0, <1>11, StageByPlace, StageByPlaceAfter DEF BeginSleep, Retry
  <2> QED BY <1>1, <1>11, <2>1 DEF BeginSleep, Retry
<1>12. CASE EndSleep
  <2>1. Stage = "idle" /\ Stage' = "idle"
    BY <1>0, <1>12, StageByPlace, StageByPlaceAfter DEF EndSleep
  <2>2. remaining > 0
    BY <1>12 DEF EndSleep, IInv, DelayIsAccountedFor
  <2>3. hist'.signalled = hist.signalled
    BY <1>0, <1>12 DEF EndSleep, TypeOK, History
  <2>4. Life!Rest
    BY <1>12, <2>1, <2>2, <2>3 DEF EndSleep, Life!Rest
  <2> QED BY <2>4 DEF Life!Next
<1>13. ASSUME NEW s \in Signals, SendSignal(s) PROVE Step
  <2>1. /\ hist'.signalled # {} /\ UNCHANGED <<cursor, remaining>>
        /\ pc \notin Ended /\ exit_code' = exit_code
    BY <1>0, <1>13 DEF SendSignal, TypeOK, History
  <2>2. Stage \notin Life!Over
    BY <1>0, <2>1, StageByPlace DEF TypeOK, Life!Over
  <2>3. CASE pc' = "killed" /\ flag' = flag
    <3>1. Stage' = "killed"
      BY <2>3, StageByPlaceAfter
    <3>2. Life!Die
      BY <2>1, <2>2, <2>3, <3>1 DEF Life!Die, Life!MayHear
    <3> QED BY <3>2 DEF Life!Next
  <2>4. CASE pc' = pc /\ flag' \in {flag, TRUE}
    <3>1. Stage' = Stage
      BY <2>1, <2>4 DEF Stage
    <3>2. Life!Ask
      BY <2>1, <2>2, <2>4, <3>1 DEF Life!Ask
    <3> QED BY <3>2 DEF Life!Next
  <2> QED BY <1>13, <2>3, <2>4 DEF SendSignal
<1>14. CASE CompositorDies \/ CompositorStarts \/ UNCHANGED vars
  <2>1. Stage' = Stage
    BY <1>14 DEF CompositorDies, CompositorStarts, vars, Stage
  <2> QED BY <1>1, <1>14, <2>1 DEF CompositorDies, CompositorStarts, vars
<1> QED BY <1>2, <1>3, <1>4, <1>5, <1>6, <1>7, <1>8, <1>9, <1>10, <1>11, <1>12,
           <1>13, <1>14 DEF Next, Daemon, Fault, Environment

(* The supervisor and one session's outline, with polls, masks, handshakes and
   error chains, keep the promise that Lifecycle makes. *)
THEOREM SupervisorImplementsLifecycle == Spec => LifecycleIsImplemented
<1>1. Init => Life!Init
  BY InitIsNew
<1>2. IInv /\ TypeOK' /\ [Next]_vars => [Life!Next]_(Life!vars)
  BY StepsAreImplemented
<1> QED BY <1>1, <1>2, Invariance, TypeCorrect, PTL
        DEF Spec, LifecycleIsImplemented, Life!Spec
=============================================================================
