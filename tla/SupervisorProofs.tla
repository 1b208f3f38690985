------------------------- MODULE SupervisorProofs ---------------------------
(***************************************************************************)
(* Proofs about Supervisor, for every ladder of delays and every set of    *)
(* shutdown signals.  IInv is preserved conjunct by conjunct: one lemma    *)
(* for each, with one step per action that can disturb it.                 *)
(***************************************************************************)
EXTENDS Supervisor, TLAPS

(* The ladder has a step, and every step is a delay of at least one poll. *)
LEMMA StepsArePositive ==
  /\ NumSteps \in Nat /\ NumSteps > 0
  /\ \A i \in 1 .. NumSteps : BackoffSteps[i] \in Nat \ {0}
BY BackoffStepsAssumption DEF NumSteps

(* The supervisor starts on the first step of the ladder, with no signal. *)
LEMMA InitEstablishesIInv == Init => IInv
<1> SUFFICES ASSUME Init PROVE IInv
  OBVIOUS
<1>1. NumSteps \in Nat /\ NumSteps > 0
  BY StepsArePositive
<1>2. TypeOK
  <2>1. hist \in History
    BY <1>1 DEF Init, History
  <2>2. cursor \in 0 .. NumSteps - 1
    BY <1>1 DEF Init
  <2> QED BY <2>1, <2>2 DEF Init, TypeOK, Link
<1>3. CursorCountsFailures /\ DelayIsAccountedFor /\ LatePollIsTheLast
  BY <1>1 DEF Init, CursorCountsFailures, DelayIsAccountedFor,
              LatePollIsTheLast, Least, Backoff
<1>4. SignalsWereSent /\ EndIsJustified
  BY DEF Init, SignalsWereSent, EndIsJustified
<1> QED BY <1>2, <1>3, <1>4 DEF IInv

(* BackoffState::next_delay stays on the ladder, and history with it. *)
LEMMA DisconnectStaysOnTheLadder ==
  ASSUME TypeOK, BackendDisconnect
  PROVE  /\ cursor' \in 0 .. NumSteps - 1
         /\ remaining' \in Nat \ {0}
         /\ hist' \in History
<1>1. NumSteps \in Nat /\ NumSteps > 0
  BY StepsArePositive
<1>2. cursor + 1 \in 1 .. NumSteps
  BY <1>1 DEF TypeOK
<1>3. BackoffSteps[cursor + 1] \in Nat \ {0}
  BY <1>2, StepsArePositive
<1>4. cursor' \in 0 .. NumSteps - 1
  BY <1>1 DEF BackendDisconnect, NextCursor, NextDelay, TypeOK
<1>5. hist' \in History
  <2>1. /\ hist.failures \in 0 .. NumSteps
        /\ hist.late \in Nat /\ hist.signalled \in SUBSET Signals
        /\ hist.fatal \in BOOLEAN
    BY DEF TypeOK, History
  <2>2. (IF hist.failures < NumSteps THEN hist.failures + 1 ELSE hist.failures)
           \in 0 .. NumSteps
    BY <1>1, <2>1
  <2>3. hist \in History
    BY DEF TypeOK
  <2> QED BY <2>1, <2>2, <2>3 DEF BackendDisconnect, NextCursor, NextDelay, History
<1> QED BY <1>3, <1>4, <1>5 DEF BackendDisconnect, NextCursor, NextDelay

(* Every step keeps every variable within its type. *)
LEMMA TypeIsInductive ==
  TypeOK /\ DelayIsAccountedFor /\ [Next]_vars => TypeOK'
<1> SUFFICES ASSUME TypeOK, DelayIsAccountedFor, [Next]_vars PROVE TypeOK'
  OBVIOUS
<1> USE DEF kernel, backoff, Connecting, Backoff, Ended, Link, Socket, Exit
<1>0. NumSteps \in Nat /\ NumSteps > 0
  BY StepsArePositive
<1>1. ASSUME Fatal
      PROVE  /\ pc' = "exited" /\ exit_code' \in {0, 1} /\ hist' \in History
             /\ UNCHANGED <<cursor, remaining>>
  BY <1>1 DEF Fatal, TypeOK, History
<1>2. CASE ConfigError \/ NoWaylandSession \/ WiringFails
  BY <1>1, <1>2 DEF ConfigError, NoWaylandSession, WiringFails, TypeOK
<1>3. CASE InstallHandlers \/ ExitBeforeConnect \/ StartConnect
  BY <1>3 DEF InstallHandlers, ExitBeforeConnect, StartConnect, TypeOK
<1>4. CASE ConnectSocket \/ ConnectDisplay \/ Handshake
  BY <1>4 DEF ConnectSocket, ConnectDisplay, Handshake, TypeOK
<1>5. CASE SocketRefused \/ ConnectFails \/ HandshakeFails
  <2>1. BackendDisconnect
    BY <1>5 DEF SocketRefused, ConnectFails, HandshakeFails
  <2>2. pc' = "poll" /\ exit_code' = exit_code
    BY <2>1 DEF BackendDisconnect, NextCursor, NextDelay
  <2> QED BY <1>5, <2>1, <2>2, DisconnectStaysOnTheLadder
          DEF SocketRefused, ConnectFails, HandshakeFails, TypeOK
<1>6. CASE WireSources
  BY <1>0, <1>6 DEF WireSources, TypeOK, History
<1>7. CASE StopOnSignal
  BY <1>7 DEF StopOnSignal, Unblock, TypeOK
<1>8. ASSUME NEW chain \in Chains, NEW read \in BOOLEAN,
             SessionFails(chain, read)
      PROVE  TypeOK'
  <2> DEFINE undelivered == IF read THEN {} ELSE pending
  <2>1. Unblock(undelivered) /\ link' = "none"
        /\ UNCHANGED <<display, socket, compositor, complete>>
    BY <1>8 DEF SessionFails
  <2>2. /\ flag' \in BOOLEAN /\ handlers' \in SUBSET Signals
        /\ blocked' \in BOOLEAN /\ pending' \in SUBSET Signals
    BY <2>1 DEF Unblock, TypeOK
  <2>3. CASE KillsOnDelivery(undelivered)
    BY <1>8, <2>1, <2>2, <2>3 DEF SessionFails, TypeOK
  <2>4. CASE ~KillsOnDelivery(undelivered) /\ BackendDisconnect
    <3>1. pc' = "poll" /\ exit_code' = exit_code
      BY <2>4 DEF BackendDisconnect, NextCursor, NextDelay
    <3> QED BY <2>1, <2>2, <2>4, <3>1, DisconnectStaysOnTheLadder DEF TypeOK
  <2>5. CASE ~KillsOnDelivery(undelivered) /\ Fatal
    BY <1>1, <2>1, <2>2, <2>5 DEF TypeOK
  <2> QED BY <1>8, <2>3, <2>4, <2>5 DEF SessionFails, Outcome
<1>9. CASE ExitFromBackoff \/ BeginSleep \/ Retry
  BY <1>9 DEF ExitFromBackoff, BeginSleep, Retry, TypeOK
<1>10. CASE EndSleep
  <2>1. remaining' \in Nat
    BY <1>10 DEF EndSleep, TypeOK, DelayIsAccountedFor
  <2>2. hist' \in History
    <3>1. (IF flag THEN hist.late + 1 ELSE hist.late) \in Nat
      BY DEF TypeOK, History
    <3>2. hist' = [hist EXCEPT
                     !.waited = hist.waited + 1,
                     !.late = IF flag THEN hist.late + 1 ELSE hist.late]
      BY <1>10 DEF EndSleep
    <3>3. hist \in History /\ hist.waited + 1 \in Nat
      BY DEF TypeOK, History
    <3> QED BY <3>1, <3>2, <3>3 DEF History
  <2> QED BY <1>10, <2>1, <2>2 DEF EndSleep, TypeOK
<1>11. ASSUME NEW s \in Signals, SendSignal(s) PROVE TypeOK'
  <2>1. hist' \in History
    BY <1>11 DEF SendSignal, TypeOK, History
  <2>2. CASE blocked
    BY <1>11, <2>1, <2>2 DEF SendSignal, TypeOK
  <2>3. CASE ~blocked /\ s \in handlers
    BY <1>11, <2>1, <2>3 DEF SendSignal, TypeOK
  <2>4. CASE ~blocked /\ s \notin handlers
    BY <1>11, <2>1, <2>4 DEF SendSignal, TypeOK
  <2> QED BY <2>2, <2>3, <2>4 DEF TypeOK
<1>12. CASE CompositorDies \/ CompositorStarts
  BY <1>12 DEF CompositorDies, CompositorStarts, Dead, TypeOK
<1>13. CASE UNCHANGED vars
  BY <1>13 DEF vars, TypeOK
<1> QED BY <1>2, <1>3, <1>4, <1>5, <1>6, <1>7, <1>8, <1>9, <1>10, <1>11, <1>12,
           <1>13 DEF Next, Daemon, Fault, Environment

(* Actions that leave the ladder, and what history says of it, alone. *)
LEMMA QuietActions ==
  ASSUME \/ InstallHandlers \/ ExitBeforeConnect \/ StartConnect
         \/ ConnectSocket \/ ConnectDisplay \/ Handshake
         \/ StopOnSignal \/ ExitFromBackoff
         \/ CompositorDies \/ CompositorStarts
  PROVE  /\ UNCHANGED <<cursor, remaining, hist>>
         /\ \/ pc' = pc \/ pc' \in Ended
            \/ pc \notin Backoff \union Ended /\ pc' \notin Backoff
BY DEF InstallHandlers, ExitBeforeConnect, StartConnect, ConnectSocket,
       ConnectDisplay, Handshake, StopOnSignal, ExitFromBackoff,
       CompositorDies, CompositorStarts, backoff, Exit, Backoff, Ended

(* A fatal error ends the process and leaves the ladder alone. *)
LEMMA FatalIsQuiet ==
  ASSUME TypeOK, Fatal
  PROVE  /\ pc' = "exited" /\ exit_code' = 1 /\ UNCHANGED <<cursor, remaining>>
         /\ hist'.fatal /\ hist'.failures = hist.failures
         /\ hist'.waited = hist.waited /\ hist'.late = hist.late
         /\ hist'.signalled = hist.signalled
BY DEF Fatal, Exit, backoff, TypeOK, History

(* The ladder moves by one at every lost session: cursor, history and the delay
   in force stay together. *)
LEMMA DisconnectKeepsTheLadder ==
  ASSUME TypeOK, CursorCountsFailures, BackendDisconnect
  PROVE  CursorCountsFailures' /\ DelayIsAccountedFor'
<1>1. NumSteps \in Nat /\ NumSteps > 0
  BY StepsArePositive
<1>2. hist.failures \in 0 .. NumSteps /\ cursor \in 0 .. NumSteps - 1
  BY DEF TypeOK, History
<1>3. /\ hist'.failures = IF hist.failures < NumSteps THEN hist.failures + 1
                          ELSE hist.failures
      /\ hist'.waited = 0
  BY DEF BackendDisconnect, NextCursor, NextDelay, TypeOK, History
<1>4. hist'.failures = cursor + 1
  BY <1>1, <1>2, <1>3 DEF CursorCountsFailures, Least
<1>5. CursorCountsFailures'
  BY <1>1, <1>2, <1>4 DEF CursorCountsFailures, Least, BackendDisconnect, NextCursor, NextDelay
<1>6. BackoffSteps[cursor + 1] \in Nat
  BY <1>1, <1>2, StepsArePositive
<1>7. DelayIsAccountedFor'
  BY <1>2, <1>3, <1>4, <1>6 DEF DelayIsAccountedFor, BackendDisconnect, NextCursor, NextDelay,
              Backoff
<1> QED BY <1>5, <1>7

(* Every step keeps cursor, failures and the delay in force together. *)
LEMMA LadderIsInductive ==
  TypeOK /\ CursorCountsFailures /\ DelayIsAccountedFor /\ [Next]_vars
    => CursorCountsFailures' /\ DelayIsAccountedFor'
<1> SUFFICES ASSUME TypeOK, CursorCountsFailures, DelayIsAccountedFor, [Next]_vars
             PROVE  CursorCountsFailures' /\ DelayIsAccountedFor'
  OBVIOUS
<1> DEFINE Ladder == CursorCountsFailures' /\ DelayIsAccountedFor'
<1>0. ASSUME UNCHANGED cursor, hist'.failures = hist.failures,
             \/ pc' \in Ended
             \/ /\ UNCHANGED remaining
                /\ \/ pc' = pc /\ hist'.waited = hist.waited
                   \/ pc' \notin Backoff /\ remaining = 0
      PROVE  Ladder
  BY <1>0 DEF CursorCountsFailures, DelayIsAccountedFor, Backoff, Ended
<1>1. CASE \/ InstallHandlers \/ ExitBeforeConnect \/ StartConnect
           \/ ConnectSocket \/ ConnectDisplay \/ Handshake
           \/ StopOnSignal \/ ExitFromBackoff
           \/ CompositorDies \/ CompositorStarts
  <2>1. pc \notin Backoff \union Ended => remaining = 0
    BY DEF DelayIsAccountedFor
  <2> QED BY <1>0, <1>1, <2>1, QuietActions
<1>2. CASE ConfigError \/ NoWaylandSession \/ WiringFails
  <2>1. Fatal
    BY <1>2 DEF ConfigError, NoWaylandSession, WiringFails
  <2> QED BY <1>0, <2>1, FatalIsQuiet DEF Ended
<1>3. CASE SocketRefused \/ ConnectFails \/ HandshakeFails
  BY <1>3, DisconnectKeepsTheLadder
     DEF SocketRefused, ConnectFails, HandshakeFails
<1>4. CASE WireSources
  <2>1. hist'.failures = 0 /\ cursor' = 0 /\ pc' = "running"
    BY <1>4 DEF WireSources, TypeOK, History
  <2>2. 0 = Least(0, NumSteps - 1)
    BY StepsArePositive DEF Least
  <2>3. remaining' = 0
    BY <1>4 DEF WireSources, DelayIsAccountedFor, Backoff, Ended
  <2> QED BY <2>1, <2>2, <2>3 DEF CursorCountsFailures, DelayIsAccountedFor, Backoff
<1>5. ASSUME NEW chain \in Chains, NEW read \in BOOLEAN,
             SessionFails(chain, read)
      PROVE  Ladder
  <2>1. CASE pc' = "killed" /\ UNCHANGED <<backoff, exit_code, hist>>
    BY <1>0, <2>1 DEF backoff, Ended
  <2>2. CASE BackendDisconnect
    BY <2>2, DisconnectKeepsTheLadder
  <2>3. CASE Fatal
    BY <1>0, <2>3, FatalIsQuiet DEF Ended
  <2> QED BY <1>5, <2>1, <2>2, <2>3 DEF SessionFails, Outcome
<1>6. CASE BeginSleep
  BY <1>6 DEF BeginSleep, backoff, CursorCountsFailures, DelayIsAccountedFor,
              Backoff, TypeOK
<1>7. CASE EndSleep
  <2>1. /\ hist'.failures = hist.failures /\ hist'.waited = hist.waited + 1
        /\ remaining' = remaining - 1 /\ pc' = "poll" /\ cursor' = cursor
    BY <1>7 DEF EndSleep, TypeOK, History
  <2>2. /\ hist.failures > 0 /\ hist.waited \in Nat /\ remaining \in Nat
        /\ hist.waited + remaining = BackoffSteps[hist.failures]
    BY <1>7 DEF EndSleep, DelayIsAccountedFor, Backoff, TypeOK, History
  <2>3. hist'.waited + remaining' = hist.waited + remaining
    BY <2>1, <2>2
  <2> QED BY <2>1, <2>2, <2>3 DEF CursorCountsFailures, DelayIsAccountedFor, Backoff
<1>8. CASE Retry
  BY <1>0, <1>8 DEF Retry, backoff, Backoff
<1>9. ASSUME NEW s \in Signals, SendSignal(s) PROVE Ladder
  <2>1. /\ hist'.failures = hist.failures /\ hist'.waited = hist.waited
        /\ UNCHANGED <<cursor, remaining>> /\ pc' \in {pc, "killed"}
    BY <1>9 DEF SendSignal, backoff, TypeOK, History
  <2> QED BY <1>0, <2>1 DEF Ended
<1>10. CASE UNCHANGED vars
  BY <1>0, <1>10 DEF vars, backoff
<1> QED BY <1>1, <1>2, <1>3, <1>4, <1>5, <1>6, <1>7, <1>8, <1>9, <1>10
        DEF Next, Daemon, Fault, Environment

(* Losing a session touches neither the late polls nor the signals sent. *)
LEMMA DisconnectIsQuiet ==
  ASSUME TypeOK, BackendDisconnect
  PROVE  /\ pc' = "poll" /\ exit_code' = exit_code
         /\ hist'.late = hist.late /\ hist'.signalled = hist.signalled
         /\ hist'.fatal = hist.fatal
BY DEF BackendDisconnect, NextCursor, NextDelay, TypeOK, History

(* A poll slept out after the flag was set is never followed by another. *)
LEMMA LatePollIsInductive ==
  TypeOK /\ LatePollIsTheLast /\ [Next]_vars => LatePollIsTheLast'
<1> SUFFICES ASSUME TypeOK, LatePollIsTheLast, [Next]_vars
             PROVE  LatePollIsTheLast'
  OBVIOUS
<1>0. ASSUME hist'.late = hist.late, flag => flag',
             hist.late = 0 \/ pc' \in {"poll", "check"} \union Ended
      PROVE  LatePollIsTheLast'
  BY <1>0 DEF LatePollIsTheLast
<1>1. CASE InstallHandlers \/ ConnectSocket \/ ConnectDisplay \/ Handshake
             \/ StartConnect \/ BeginSleep \/ WireSources \/ ConfigError
             \/ NoWaylandSession \/ WiringFails
             \/ SocketRefused \/ ConnectFails \/ HandshakeFails
  <2>1. hist.late = 0
    BY <1>1 DEF InstallHandlers, ConnectSocket, ConnectDisplay, Handshake,
         StartConnect, BeginSleep, WireSources, ConfigError, NoWaylandSession,
         WiringFails, SocketRefused, ConnectFails, HandshakeFails,
         LatePollIsTheLast, Ended
  <2>2. hist'.late = hist.late
    BY <1>1, FatalIsQuiet, DisconnectIsQuiet
       DEF InstallHandlers, ConnectSocket, ConnectDisplay, Handshake,
         StartConnect, BeginSleep, WireSources, ConfigError, NoWaylandSession,
         WiringFails, SocketRefused, ConnectFails, HandshakeFails, TypeOK, History
  <2> QED BY <2>1, <2>2 DEF LatePollIsTheLast
<1>2. CASE ExitBeforeConnect \/ ExitFromBackoff \/ Retry
  BY <1>0, <1>2 DEF ExitBeforeConnect, ExitFromBackoff, Retry, Exit, Ended
<1>3. CASE StopOnSignal
  BY <1>0, <1>3 DEF StopOnSignal, Exit, Ended, Unblock
<1>4. ASSUME NEW chain \in Chains, NEW read \in BOOLEAN,
             SessionFails(chain, read)
      PROVE  LatePollIsTheLast'
  <2>1. hist.late = 0
    BY <1>4 DEF SessionFails, LatePollIsTheLast, Ended
  <2>2. CASE pc' = "killed" /\ UNCHANGED <<backoff, exit_code, hist>>
    BY <2>1, <2>2 DEF LatePollIsTheLast
  <2>3. CASE BackendDisconnect \/ Fatal
    BY <2>1, <2>3, FatalIsQuiet, DisconnectIsQuiet DEF LatePollIsTheLast
  <2> QED BY <1>4, <2>2, <2>3 DEF SessionFails, Outcome
<1>5. CASE EndSleep
  <2>1. hist.late = 0
    BY <1>5 DEF EndSleep, LatePollIsTheLast, Ended
  <2>2. hist'.late = IF flag THEN hist.late + 1 ELSE hist.late
    BY <1>5 DEF EndSleep, TypeOK, History
  <2> QED BY <1>5, <2>1, <2>2 DEF EndSleep, LatePollIsTheLast
<1>6. ASSUME NEW s \in Signals, SendSignal(s) PROVE LatePollIsTheLast'
  <2>1. hist'.late = hist.late /\ pc' \in {pc, "killed"}
    BY <1>6 DEF SendSignal, TypeOK, History
  <2>2. flag => flag'
    BY <1>6 DEF SendSignal
  <2> QED BY <1>0, <2>1, <2>2 DEF LatePollIsTheLast, Ended
<1>7. CASE CompositorDies \/ CompositorStarts \/ UNCHANGED vars
  BY <1>7 DEF CompositorDies, CompositorStarts, vars, LatePollIsTheLast
<1> QED BY <1>1, <1>2, <1>3, <1>4, <1>5, <1>6, <1>7
        DEF Next, Daemon, Fault, Environment

(* Flag and pending signals are the traces of signals that were sent, and every
   way to end leaves its reason behind. *)
LEMMA EndIsInductive ==
  TypeOK /\ SignalsWereSent /\ EndIsJustified /\ [Next]_vars
    => SignalsWereSent' /\ EndIsJustified'
<1> SUFFICES ASSUME TypeOK, SignalsWereSent, EndIsJustified, [Next]_vars
             PROVE  SignalsWereSent' /\ EndIsJustified'
  OBVIOUS
<1> DEFINE Traces == SignalsWereSent' /\ EndIsJustified'
<1> USE DEF Exit, kernel, Connecting, Backoff, Ended
<1>1. CASE Fatal /\ UNCHANGED <<flag, pending>>
  BY <1>1, FatalIsQuiet DEF SignalsWereSent, EndIsJustified
<1>2. CASE BackendDisconnect /\ UNCHANGED <<flag, pending>>
  BY <1>2, DisconnectIsQuiet DEF SignalsWereSent, EndIsJustified
<1>3. CASE ConfigError \/ NoWaylandSession \/ WiringFails
  BY <1>1, <1>3 DEF ConfigError, NoWaylandSession, WiringFails
<1>4. CASE SocketRefused \/ ConnectFails \/ HandshakeFails
  BY <1>2, <1>4 DEF SocketRefused, ConnectFails, HandshakeFails
<1>5. CASE \/ InstallHandlers \/ StartConnect \/ ConnectSocket \/ ConnectDisplay
           \/ Handshake \/ BeginSleep \/ Retry
  BY <1>5 DEF InstallHandlers, StartConnect, ConnectSocket, ConnectDisplay,
              Handshake, BeginSleep, Retry, SignalsWereSent, EndIsJustified
<1>6. CASE WireSources \/ EndSleep
  <2>1. /\ hist'.signalled = hist.signalled /\ UNCHANGED <<flag, pending>>
        /\ pc' \in {"running", "poll"}
    BY <1>6 DEF WireSources, EndSleep, TypeOK, History
  <2> QED BY <2>1 DEF SignalsWereSent, EndIsJustified
<1>7. CASE ExitBeforeConnect \/ ExitFromBackoff
  BY <1>7 DEF ExitBeforeConnect, ExitFromBackoff, SignalsWereSent, EndIsJustified
<1>8. CASE StopOnSignal
  BY <1>8 DEF StopOnSignal, Unblock, SignalsWereSent, EndIsJustified
<1>9. ASSUME NEW chain \in Chains, NEW read \in BOOLEAN,
             SessionFails(chain, read)
      PROVE  Traces
  <2> DEFINE undelivered == IF read THEN {} ELSE pending
  <2>1. Unblock(undelivered) /\ pc = "running"
    BY <1>9 DEF SessionFails
  <2>2. undelivered \subseteq hist.signalled
    BY DEF SignalsWereSent
  <2>3. /\ flag' => hist.signalled # {}
        /\ pending' = {} /\ handlers' = handlers
    BY <2>1, <2>2 DEF Unblock, SignalsWereSent
  <2>4. CASE KillsOnDelivery(undelivered) /\ pc' = "killed" /\ hist' = hist
    BY <2>2, <2>3, <2>4 DEF KillsOnDelivery, SignalsWereSent, EndIsJustified
  <2>5. CASE BackendDisconnect
    BY <2>3, <2>5, DisconnectIsQuiet DEF SignalsWereSent, EndIsJustified
  <2>6. CASE Fatal
    BY <2>3, <2>6, FatalIsQuiet DEF SignalsWereSent, EndIsJustified
  <2> QED BY <1>9, <2>4, <2>5, <2>6 DEF SessionFails, Outcome
<1>10. ASSUME NEW s \in Signals, SendSignal(s) PROVE Traces
  <2>1. /\ hist'.signalled = hist.signalled \union {s}
        /\ hist'.fatal = hist.fatal
    BY <1>10 DEF SendSignal, TypeOK, History
  <2>2. pc \notin Ended /\ handlers' = handlers
    BY <1>10 DEF SendSignal
  <2>3. CASE blocked
    BY <1>10, <2>1, <2>2, <2>3 DEF SendSignal, SignalsWereSent, EndIsJustified
  <2>4. CASE ~blocked /\ s \in handlers
    BY <1>10, <2>1, <2>2, <2>4 DEF SendSignal, SignalsWereSent, EndIsJustified
  <2>5. CASE ~blocked /\ s \notin handlers
    BY <1>10, <2>1, <2>2, <2>5 DEF SendSignal, SignalsWereSent, EndIsJustified
  <2> QED BY <2>3, <2>4, <2>5
<1>11. CASE CompositorDies \/ CompositorStarts \/ UNCHANGED vars
  BY <1>11 DEF CompositorDies, CompositorStarts, vars, SignalsWereSent,
               EndIsJustified
<1> QED BY <1>3, <1>4, <1>5, <1>6, <1>7, <1>8, <1>9, <1>10, <1>11
        DEF Next, Daemon, Fault, Environment

(* The inductive invariant holds of every reachable state. *)
THEOREM Invariance == Spec => []IInv
<1>1. IInv /\ [Next]_vars => IInv'
  BY TypeIsInductive, LadderIsInductive, LatePollIsInductive, EndIsInductive
     DEF IInv
<1> QED BY <1>1, InitEstablishesIInv, PTL DEF Spec

(* Every variable keeps its type; in particular the cursor never leaves the
   ladder and the remaining delay never underflows. *)
THEOREM TypeCorrect == Spec => []TypeOK
<1>1. IInv => TypeOK
  BY DEF IInv
<1> QED BY <1>1, Invariance, PTL

(* The cursor counts the sessions lost since one was fully wired. *)
THEOREM CursorIsTheFailureCount == Spec => []CursorCountsFailures
<1>1. IInv => CursorCountsFailures
  BY DEF IInv
<1> QED BY <1>1, Invariance, PTL

(* Whatever the ladder, a set flag costs the backoff at most one more poll. *)
THEOREM BackoffIsPrompt == Spec => []BackoffEndsWithinOnePoll
<1>1. IInv => BackoffEndsWithinOnePoll
  BY DEF IInv, LatePollIsTheLast, BackoffEndsWithinOnePoll
<1> QED BY <1>1, Invariance, PTL

(* Exit status and kill are justified by what happened before. *)
THEOREM EndsAreJustified == Spec => []EndIsJustified
<1>1. IInv => EndIsJustified
  BY DEF IInv
<1> QED BY <1>1, Invariance, PTL

(* A new attempt comes only after the whole delay this many failures call for. *)
THEOREM TheLadderIsFollowed == Spec => LadderIsFollowed
<1>1. IInv /\ [Next]_vars
        => [Retry => hist.waited = BackoffSteps[hist.failures]]_vars
  <2> SUFFICES ASSUME IInv, Retry
               PROVE  hist.waited = BackoffSteps[hist.failures]
    OBVIOUS
  <2>1. hist.waited + 0 = BackoffSteps[hist.failures]
    BY DEF IInv, DelayIsAccountedFor, Retry, Backoff
  <2>2. hist.waited \in Nat
    BY DEF IInv, TypeOK, History
  <2> QED BY <2>1, <2>2
<1> QED BY <1>1, Invariance, PTL DEF Spec, LadderIsFollowed

(* The walk over the chain of a dead connection's error finds its errno. *)
LEMMA LostErrnoIsFound ==
  ASSUME NEW chain \in Lost
  PROVE  WalkForIoErrno(chain) = "errno"
<1>1. CASE chain = <<"other">>
  BY <1>1 DEF Lost
<1>2. ASSUME NEW cause \in Causes, chain = <<"other", cause>>
      PROVE  WalkForIoErrno(chain) = "errno"
  <2>1. chain[1] = "other" /\ chain[2] = "errno" /\ DOMAIN chain = 1 .. 2
    BY <1>2 DEF Lost
  <2>2. IoErrors(chain) = {2}
    BY <2>1 DEF IoErrors
  <2> QED BY <2>1, <2>2 DEF WalkForIoErrno
<1>3. ASSUME NEW cause \in Causes, chain = <<"other", "other", cause>>
      PROVE  WalkForIoErrno(chain) = "errno"
  <2>1. /\ chain[1] = "other" /\ chain[2] = "other" /\ chain[3] = "errno"
        /\ DOMAIN chain = 1 .. 3
    BY <1>3 DEF Lost
  <2>2. IoErrors(chain) = {3}
    BY <2>1 DEF IoErrors
  <2> QED BY <2>1, <2>2 DEF WalkForIoErrno
<1> QED BY <1>1, <1>2, <1>3 DEF Lost, Chains

(* No step of a session whose compositor has died ends the process with an
   error, however the I/O error is wrapped. *)
THEOREM CrashesNeverEndInFailure == Spec => CrashesAreSurvived
<1> DEFINE Crashed == pc = "running" /\ link = "dead"
           GivesUp == pc' = "exited" /\ exit_code' = 1
<1>1. TypeOK /\ [Next]_vars => [Crashed => ~GivesUp]_vars
  <2> SUFFICES ASSUME TypeOK, Next, Crashed PROVE ~GivesUp
    OBVIOUS
  <2> USE DEF Exit, Connecting, Backoff, Ended
  <2>1. CASE StopOnSignal
    BY <2>1 DEF StopOnSignal
  <2>2. ASSUME NEW chain \in Chains, NEW read \in BOOLEAN,
               SessionFails(chain, read)
        PROVE  ~GivesUp
    <3>1. chain \in Lost
      BY <2>2 DEF SessionFails
    <3>2. Outcome(chain) => BackendDisconnect
      BY <3>1, LostErrnoIsFound DEF Outcome
    <3>3. BackendDisconnect => pc' = "poll"
      BY DEF BackendDisconnect
    <3> QED BY <2>2, <3>2, <3>3 DEF SessionFails
  <2>3. ASSUME NEW s \in Signals, SendSignal(s) PROVE ~GivesUp
    BY <2>3 DEF SendSignal
  <2>4. CASE CompositorDies \/ CompositorStarts
    BY <2>4 DEF CompositorDies, CompositorStarts
  <2> QED BY <2>1, <2>2, <2>3, <2>4 DEF Next, Daemon, Fault, Environment,
         ConfigError, InstallHandlers, ExitBeforeConnect, StartConnect,
         NoWaylandSession, ConnectSocket, SocketRefused, ConnectDisplay,
         ConnectFails, Handshake, HandshakeFails, WiringFails, WireSources,
         ExitFromBackoff, BeginSleep, EndSleep, Retry
<1> QED BY <1>1, TypeCorrect, PTL DEF Spec, CrashesAreSurvived

(* A flag set during the backoff is final: no connection is tried again. *)
THEOREM FlagStopsReconnecting == Spec => NoConnectAfterFlag
<1> DEFINE Final == pc \in Ended \/ FlaggedInBackoff
<1> USE DEF Ended, Backoff, Connecting, FlaggedInBackoff
<1>1. IInv /\ Final /\ [Next]_vars => Final'
  <2> SUFFICES ASSUME Final, [Next]_vars PROVE Final'
    OBVIOUS
  <2>1. CASE pc \in Ended
    <3>1. pc' = pc
      BY <2>1 DEF Next, Daemon, Fault, Environment, vars,
         ConfigError, InstallHandlers, ExitBeforeConnect, StartConnect,
         NoWaylandSession, ConnectSocket, SocketRefused, ConnectDisplay,
         ConnectFails, Handshake, HandshakeFails, WiringFails, WireSources, StopOnSignal,
         SessionFails, ExitFromBackoff, BeginSleep, EndSleep, Retry,
         SendSignal, CompositorDies, CompositorStarts
    <3> QED BY <2>1, <3>1
  <2>2. CASE FlaggedInBackoff
    <3>1. CASE ExitBeforeConnect \/ ExitFromBackoff \/ EndSleep \/ Retry
      BY <2>2, <3>1 DEF ExitBeforeConnect, ExitFromBackoff, EndSleep, Retry, Exit
    <3>2. ASSUME NEW s \in Signals, SendSignal(s) PROVE Final'
      BY <2>2, <3>2 DEF SendSignal
    <3>3. CASE CompositorDies \/ CompositorStarts \/ UNCHANGED vars
      BY <2>2, <3>3 DEF CompositorDies, CompositorStarts, vars
    <3> QED BY <2>2, <3>1, <3>2, <3>3 DEF Next, Daemon, Fault, Environment,
         ConfigError, InstallHandlers, StartConnect,
         NoWaylandSession, ConnectSocket, SocketRefused, ConnectDisplay,
         ConnectFails, Handshake, HandshakeFails, WiringFails, WireSources, StopOnSignal,
         SessionFails, BeginSleep
  <2> QED BY <2>1, <2>2
<1>2. FlaggedInBackoff => Final
  OBVIOUS
<1>3. Final => pc \notin Connecting \union {"running"}
  OBVIOUS
<1> HIDE DEF Final, FlaggedInBackoff
<1> QED BY <1>1, <1>2, <1>3, Invariance, PTL DEF Spec, NoConnectAfterFlag
=============================================================================
