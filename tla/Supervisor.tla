---------------------------- MODULE Supervisor ------------------------------
(***************************************************************************)
(* The daemon's process: main.rs, the reconnect supervisor of reconnect.rs *)
(* and the outline of one session in app.rs (connect_and_run), with the    *)
(* two ways a shutdown signal reaches it.                                  *)
(*                                                                         *)
(* Outside a session a signal runs the process-level handler, which sets a *)
(* flag; inside one, calloop's Signals source keeps the signals blocked    *)
(* and the event loop reads them from a signalfd.  The compositor may die  *)
(* and come back at any time.                                              *)
(***************************************************************************)
EXTENDS Naturals, Sequences

CONSTANTS
  Signals,        \* the shutdown signals, SIGTERM and SIGINT
  BackoffSteps    \* BACKOFF_STEPS, each delay in polls of SLEEP_POLL_INTERVAL

ASSUME BackoffStepsAssumption ==
  /\ BackoffSteps \in Seq(Nat \ {0})
  /\ Len(BackoffSteps) > 0

NumSteps == Len(BackoffSteps)

VARIABLES
  pc,             \* where the process is
  cursor,         \* BackoffState.cursor
  remaining,      \* the rest of the current delay, in polls
  flag,           \* PROCESS_SHUTDOWN_FLAG
  handlers,       \* kernel: the signals handle_process_shutdown is set for
  blocked,        \* kernel: are the signals blocked
  pending,        \* kernel: the signals that arrived while blocked
  display,        \* is WAYLAND_DISPLAY set, and not empty
  socket,         \* WAYLAND_SOCKET: what it holds
  compositor,     \* the compositor, and which globals it advertises
  link,           \* the connection of the current session
  complete,       \* did the registry snapshot hold all required globals
  exit_code,      \* of an exited process
  hist            \* history, read by no action

kernel == <<handlers, blocked, pending>>
backoff == <<cursor, remaining>>
vars == <<pc, backoff, flag, kernel, display, socket, compositor, link,
          complete, exit_code, hist>>

(* start: before Supervisor::run; check: the top of its loop; connect,
   handshake, wire, running: within connect_and_run; poll, sleep: the backoff
   loop before and during a sleep_fn call. *)
Connecting == {"connect", "handshake", "wire"}
Backoff == {"poll", "sleep"}
Ended == {"exited", "killed"}

Link == {"none", "live", "dead"}

(* What WAYLAND_SOCKET may hold besides the number of an open descriptor, live
   or dead: nothing, the number of none (closed), a text that is no number, the
   empty text, or bytes that are not Unicode (opaque). *)
Socket == Link \union {"closed", "malformed", "empty", "opaque"}

(* What an observer of the process has seen:
     failures   sessions lost since one was last fully wired, saturating at
                the length of the ladder
     waited     polls slept since the last session was lost
     late       polls slept out although the flag was already set
     signalled  the signals sent
     fatal      an error that is not retried occurred *)
History ==
  [ failures : 0 .. NumSteps,
    waited : Nat, late : Nat, signalled : SUBSET Signals, fatal : BOOLEAN ]

TypeOK ==
  /\ pc \in {"start", "check", "running"} \union Connecting \union Backoff
              \union Ended
  /\ cursor \in 0 .. NumSteps - 1
  /\ remaining \in Nat
  /\ flag \in BOOLEAN
  /\ handlers \in SUBSET Signals
  /\ blocked \in BOOLEAN
  /\ pending \in SUBSET Signals
  /\ display \in BOOLEAN
  /\ socket \in Socket
  /\ compositor \in {"down", "up", "lacking"}
  /\ link \in Link
  /\ complete \in BOOLEAN
  /\ exit_code \in {0, 1}
  /\ hist \in History

Init ==
  /\ pc = "start"
  /\ cursor = 0
  /\ remaining = 0
  /\ flag = FALSE
  /\ handlers = {}
  /\ blocked = FALSE
  /\ pending = {}
  /\ display \in BOOLEAN
  /\ socket \in Socket
  /\ compositor \in {"down", "up", "lacking"}
  /\ socket = "live" => compositor # "down"
  /\ link = "none"
  /\ complete = FALSE
  /\ exit_code = 0
  /\ hist = [failures |-> 0, waited |-> 0, late |-> 0, signalled |-> {},
             fatal |-> FALSE]

-----------------------------------------------------------------------------
(* How an iteration of the supervisor's loop ends. *)

Exit(code) == pc' = "exited" /\ exit_code' = code

(* StartupFailure or InternalError: run returns it, main exits 1. *)
(* Mutant: a fatal error exits 0. *)
FatalSucceeds ==
  /\ Exit(0)
  /\ hist' = [hist EXCEPT !.fatal = TRUE]
  /\ UNCHANGED backoff

Fatal ==
  /\ Exit(1)
  /\ hist' = [hist EXCEPT !.fatal = TRUE]
  /\ UNCHANGED backoff

(* BackendDisconnect: BackoffState::next_delay, then the backoff loop. *)
(* Mutants: the cursor runs past the ladder, or never moves; the delay is
   read after the cursor has moved. *)
NextCursorUncapped == cursor + 1
NextCursorStuck == cursor

NextCursor == IF cursor + 1 < NumSteps THEN cursor + 1 ELSE cursor

NextDelayAdvanced == BackoffSteps[NextCursor + 1]

NextDelay == BackoffSteps[cursor + 1]

BackendDisconnect ==
  /\ pc' = "poll"
  /\ remaining' = NextDelay
  /\ cursor' = NextCursor
  /\ hist' = [hist EXCEPT
       !.failures = IF @ < NumSteps THEN @ + 1 ELSE @,
       !.waited = 0]
  /\ UNCHANGED exit_code

-----------------------------------------------------------------------------
(* main and Supervisor::run. *)

ConfigError ==                  \* config::from_env fails, main exits 1
  /\ pc = "start"
  /\ Fatal
  /\ UNCHANGED <<flag, kernel, display, socket, compositor, link, complete>>

(* sigaction may be refused for either signal: a warning, and the default
   disposition stays. *)
InstallHandlers ==
  /\ pc = "start"
  /\ pc' = "check"
  /\ handlers' \in SUBSET Signals
  /\ UNCHANGED <<backoff, flag, blocked, pending, display, socket, compositor,
                 link, complete, exit_code, hist>>

ExitBeforeConnect ==
  /\ pc = "check"
  /\ flag
  /\ Exit(0)
  /\ UNCHANGED <<backoff, flag, kernel, display, socket, compositor, link,
                 complete, hist>>

(* Mutant: the flag is not checked at the top of the loop. *)
StartConnectUnchecked ==
  /\ pc = "check"
  /\ pc' = "connect"
  /\ UNCHANGED <<backoff, flag, kernel, display, socket, compositor, link,
                 complete, exit_code, hist>>

StartConnect ==
  /\ pc = "check"
  /\ ~flag
  /\ pc' = "connect"
  /\ UNCHANGED <<backoff, flag, kernel, display, socket, compositor, link,
                 complete, exit_code, hist>>

-----------------------------------------------------------------------------
(* connect_and_run up to event_loop.run. *)

(* connect_and_run's own guard: var_os, so bytes that are not Unicode count. *)
HasWaylandSession == display \/ socket \notin {"none", "empty"}

NoWaylandSession ==             \* neither variable set: StartupFailure
  /\ pc = "connect"
  /\ ~HasWaylandSession
  /\ Fatal
  /\ UNCHANGED <<flag, kernel, display, socket, compositor, link, complete>>

(* connect_to_env reads WAYLAND_SOCKET first, as Unicode.  Only a number makes
   it remove the variable. *)
(* Mutant: the variable stays when its descriptor is taken. *)
ConnectSocketKeeps ==
  /\ pc = "connect"
  /\ socket \in {"live", "dead"}
  /\ pc' = "handshake"
  /\ link' = socket
  /\ UNCHANGED <<backoff, flag, kernel, display, socket, compositor, complete,
                 exit_code, hist>>

ConnectSocket ==
  /\ pc = "connect"
  /\ socket \in {"live", "dead"}
  /\ pc' = "handshake"
  /\ link' = socket
  /\ socket' = "none"
  /\ UNCHANGED <<backoff, flag, kernel, display, compositor, complete,
                 exit_code, hist>>

(* ConnectError::InvalidFd: a text that does not parse fails before the variable
   is removed, a number of no descriptor after.  WAYLAND_DISPLAY is not tried,
   and every such error counts as a lost connection. *)
SocketRefused ==
  /\ pc = "connect"
  /\ HasWaylandSession
  /\ socket \in {"closed", "malformed", "empty"}
  /\ BackendDisconnect
  /\ socket' = IF socket = "closed" THEN "none" ELSE socket
  /\ UNCHANGED <<flag, kernel, display, compositor, link, complete>>

SocketPassedOver == socket \in {"none", "opaque"}

ConnectDisplay ==
  /\ pc = "connect"
  /\ SocketPassedOver
  /\ display
  /\ compositor # "down"
  /\ pc' = "handshake"
  /\ link' = "live"
  /\ UNCHANGED <<backoff, flag, kernel, display, socket, compositor, complete,
                 exit_code, hist>>

ConnectFails ==                 \* ConnectError::NoCompositor
  /\ pc = "connect"
  /\ HasWaylandSession
  /\ SocketPassedOver
  /\ ~display \/ compositor = "down"
  /\ BackendDisconnect
  /\ UNCHANGED <<flag, kernel, display, socket, compositor, link, complete>>

(* Mutant: a connection alone takes the backoff to its first step. *)
HandshakeResets ==
  /\ pc = "handshake"
  /\ link = "live"
  /\ pc' = "wire"
  /\ complete' = (compositor = "up")
  /\ cursor' = 0
  /\ UNCHANGED <<remaining, flag, kernel, display, socket, compositor, link,
                 exit_code, hist>>

Handshake ==                    \* registry_queue_init
  /\ pc = "handshake"
  /\ link = "live"
  /\ pc' = "wire"
  /\ complete' = (compositor = "up")
  /\ UNCHANGED <<backoff, flag, kernel, display, socket, compositor, link,
                 exit_code, hist>>

HandshakeFails ==
  /\ pc = "handshake"
  /\ link = "dead"
  /\ BackendDisconnect
  /\ link' = "none"
  /\ UNCHANGED <<flag, kernel, display, socket, compositor, complete>>

(* A required global is missing, or the event loop or one of its sources
   cannot be set up; the backoff ladder is left where it was. *)
WiringFails ==
  /\ pc = "wire"
  /\ Fatal
  /\ link' = "none"
  /\ UNCHANGED <<flag, kernel, display, socket, compositor, complete>>

(* All sources are in the loop: Signals::new has blocked the signals, and
   backoff.reset() follows. *)
WireSources ==
  /\ pc = "wire"
  /\ complete
  /\ pc' = "running"
  /\ blocked' = TRUE
  /\ cursor' = 0
  /\ hist' = [hist EXCEPT !.failures = 0]
  /\ UNCHANGED <<remaining, flag, handlers, pending, display, socket,
                 compositor, link, complete, exit_code>>

-----------------------------------------------------------------------------
(* event_loop.run and what dropping the loop does. *)

(* The Signals source is dropped and unblocks the signals: those still
   pending reach the process-level handler, or the default disposition. *)
Unblock(undelivered) ==
  /\ blocked' = FALSE
  /\ pending' = {}
  /\ flag' = (flag \/ undelivered \intersect handlers # {})
  /\ UNCHANGED handlers

KillsOnDelivery(undelivered) == ~(undelivered \subseteq handlers)

(* Mutant: the signal is read, the loop goes on. *)
StopOnSignalIgnored ==
  /\ pc = "running"
  /\ pending # {}
  /\ pending' = {}
  /\ UNCHANGED <<pc, backoff, flag, handlers, blocked, display, socket,
                 compositor, link, complete, exit_code, hist>>

StopOnSignal ==                 \* LoopSignal::stop, ExitReason::Signal
  /\ pc = "running"
  /\ pending # {}
  /\ Exit(0)
  /\ Unblock({})
  /\ link' = "none"
  /\ UNCHANGED <<backoff, display, socket, compositor, complete, hist>>

(* A calloop::Error with its chain of sources, from the outside in: an
   io::Error with an errno, one with EPROTO or EBADMSG ("violation"), one
   without any ("bare"), or an error of another type. *)
Causes == {"errno", "violation", "bare"}
Chains ==
  {<<"other">>} \union {<<"other", cause>> : cause \in Causes}
    \union {<<"other", "other", cause>> : cause \in Causes}

(* walk_for_io_errno: the first io::Error decides. *)
IoErrors(chain) == {i \in DOMAIN chain : chain[i] # "other"}

(* Mutant: only the source of the outermost error is looked at. *)
WalkShallow(chain) ==
  IF 2 \in IoErrors(chain) /\ chain[2] # "bare" THEN chain[2] ELSE "none"

WalkForIoErrno(chain) ==
  LET first == CHOOSE i \in IoErrors(chain) :
                 \A j \in IoErrors(chain) : i <= j
  IN IF IoErrors(chain) = {} \/ chain[first] = "bare" THEN "none"
     ELSE chain[first]

(* map_calloop_error: whatever carries an errno counts as a lost connection; a
   protocol violation and an error without an errno are not retried. *)
Outcome(chain) ==
  IF WalkForIoErrno(chain) = "errno" THEN BackendDisconnect ELSE Fatal

(* What reading from, or writing to, a dead connection returns. *)
Lost == {chain \in Chains : chain[Len(chain)] = "errno"}

(* run stops at the first source that returns an error.  In the batch that
   reports it, the signalfd may have been read before (read): stop() is then
   without effect and the signals are gone. *)
SessionFails(chain, read) ==
  LET undelivered == IF read THEN {} ELSE pending IN
  /\ pc = "running"
  /\ link = "dead" => chain \in Lost
  /\ read => pending # {}
  /\ Unblock(undelivered)
  /\ IF KillsOnDelivery(undelivered)
       THEN pc' = "killed" /\ UNCHANGED <<backoff, exit_code, hist>>
       ELSE Outcome(chain)
  /\ link' = "none"
  /\ UNCHANGED <<display, socket, compositor, complete>>

-----------------------------------------------------------------------------
(* The backoff loop of run_with_sleep. *)

ExitFromBackoff ==
  /\ pc = "poll"
  /\ remaining > 0
  /\ flag
  /\ Exit(0)
  /\ UNCHANGED <<backoff, flag, kernel, display, socket, compositor, link,
                 complete, hist>>

(* Mutant: the flag is not looked at between two polls. *)
BeginSleepUnchecked ==
  /\ pc = "poll"
  /\ remaining > 0
  /\ pc' = "sleep"
  /\ UNCHANGED <<backoff, flag, kernel, display, socket, compositor, link,
                 complete, exit_code, hist>>

BeginSleep ==
  /\ pc = "poll"
  /\ remaining > 0
  /\ ~flag
  /\ pc' = "sleep"
  /\ UNCHANGED <<backoff, flag, kernel, display, socket, compositor, link,
                 complete, exit_code, hist>>

EndSleep ==                     \* a signal does not cut sleep_fn short
  /\ pc = "sleep"
  /\ pc' = "poll"
  /\ remaining' = remaining - 1
  /\ hist' = [hist EXCEPT !.waited = @ + 1,
                          !.late = IF flag THEN @ + 1 ELSE @]
  /\ UNCHANGED <<cursor, flag, kernel, display, socket, compositor, link,
                 complete, exit_code>>

(* Mutant: the delay starts over instead of ending. *)
RetrySleepsAgain ==
  /\ pc = "poll"
  /\ remaining = 0
  /\ remaining' = BackoffSteps[cursor + 1]
  /\ hist' = [hist EXCEPT !.waited = 0]
  /\ UNCHANGED <<pc, cursor, flag, kernel, display, socket, compositor, link,
                 complete, exit_code>>

Retry ==
  /\ pc = "poll"
  /\ remaining = 0
  /\ pc' = "check"
  /\ UNCHANGED <<backoff, flag, kernel, display, socket, compositor, link,
                 complete, exit_code, hist>>

-----------------------------------------------------------------------------
(* The environment. *)

SendSignal(s) ==
  /\ pc \notin Ended
  /\ hist' = [hist EXCEPT !.signalled = @ \union {s}]
  /\ IF blocked
       THEN pending' = pending \union {s} /\ UNCHANGED <<pc, flag>>
       ELSE IF s \in handlers
              THEN flag' = TRUE /\ UNCHANGED <<pc, pending>>
              ELSE pc' = "killed" /\ UNCHANGED <<flag, pending>>
  /\ UNCHANGED <<backoff, handlers, blocked, display, socket, compositor, link,
                 complete, exit_code>>

Dead(connection) == IF connection = "live" THEN "dead" ELSE connection

CompositorDies ==
  /\ compositor # "down"
  /\ compositor' = "down"
  /\ link' = Dead(link)
  /\ socket' = Dead(socket)
  /\ UNCHANGED <<pc, backoff, flag, kernel, display, complete, exit_code, hist>>

CompositorStarts ==
  /\ compositor = "down"
  /\ compositor' \in {"up", "lacking"}
  /\ UNCHANGED <<pc, backoff, flag, kernel, display, socket, link, complete,
                 exit_code, hist>>

-----------------------------------------------------------------------------
(* The steps the process takes by itself. *)
Daemon ==
  \/ InstallHandlers
  \/ ExitBeforeConnect
  \/ StartConnect
  \/ NoWaylandSession
  \/ ConnectSocket
  \/ SocketRefused
  \/ ConnectDisplay
  \/ ConnectFails
  \/ Handshake
  \/ HandshakeFails
  \/ (~complete /\ WiringFails)
  \/ WireSources
  \/ StopOnSignal
  \/ (link = "dead" /\
        \E chain \in Chains, read \in BOOLEAN : SessionFails(chain, read))
  \/ ExitFromBackoff
  \/ BeginSleep
  \/ EndSleep
  \/ Retry

(* What may befall it: a refused resource, a bad variable, an error of the
   event loop or of one of its sources on a live connection. *)
Fault ==
  \/ ConfigError
  \/ (complete /\ WiringFails)
  \/ (link = "live" /\
        \E chain \in Chains, read \in BOOLEAN : SessionFails(chain, read))

Environment ==
  \/ \E s \in Signals : SendSignal(s)
  \/ CompositorDies
  \/ CompositorStarts

Next == Daemon \/ Fault \/ Environment

Spec == Init /\ [][Next]_vars

(* The thread keeps running: sleeps end, the event loop dispatches what is
   ready.  Nothing is assumed of signals, faults or the compositor. *)
FairSpec == Spec /\ WF_vars(Daemon)
-----------------------------------------------------------------------------
(* Safety. *)

Least(a, b) == IF a < b THEN a ELSE b

(* The cursor counts the sessions lost in a row: it moves on at every lost or
   refused connection, stops at the last step, and only a session with all its
   sources wired takes it back; one that fails half way does not. *)
CursorCountsFailures ==
  cursor = Least(hist.failures, NumSteps - 1)

(* The supervisor connects again only after it has slept the whole delay of
   the ladder that this many failures in a row call for. *)
LadderIsFollowed ==
  [][Retry => hist.waited = BackoffSteps[hist.failures]]_vars

(* Once the flag is set, at most one poll interval of backoff is slept out,
   however long the delay and whenever in the loop the signal came. *)
BackoffEndsWithinOnePoll == hist.late <= 1

(* A process that has its flag set while it backs off never connects again,
   not even when the signal came during the last poll of the delay. *)
FlaggedInBackoff == flag /\ pc \in Backoff \union {"check"}
NoConnectAfterFlag ==
  [](FlaggedInBackoff => [](pc \notin Connecting \union {"running"}))

(* The exit status tells the truth: 0 only for a daemon that was sent a
   signal, 1 only for one that met an error it does not retry; and a signal
   kills the process only if its handler could not be installed, or it came
   before that. *)
EndIsJustified ==
  /\ pc = "exited" /\ exit_code = 0 => hist.signalled # {}
  /\ pc = "exited" /\ exit_code = 1 => hist.fatal
  /\ pc = "killed" => ~(hist.signalled \subseteq handlers)

(* A compositor that dies under a session never makes the daemon give up:
   however deep the I/O error is wrapped, it is found, and the session is
   retried, or a signal ends the process with success. *)
CrashesAreSurvived ==
  [][(pc = "running" /\ link = "dead") =>
       ~(pc' = "exited" /\ exit_code' = 1)]_vars

(* What all of this comes to: polls, masks, handshakes and error chains put
   aside, the process is idle between attempts for exactly the delays of the
   ladder, tries again unless it has heard a signal, and never gives up while
   it waits. *)
Stage ==
  IF pc \in Connecting THEN "trying"
  ELSE IF pc \in Backoff \union {"check"} THEN "idle"
  ELSE LET verdict == IF exit_code = 0 THEN "succeeded" ELSE "failed"
       IN [start |-> "new", running |-> "serving", exited |-> verdict,
           killed |-> "killed"][pc]

Life == INSTANCE Lifecycle WITH
  Ladder <- BackoffSteps, stage <- Stage, rung <- cursor + 1,
  rest <- remaining, asked <- hist.signalled # {}, heard <- flag

LifecycleIsImplemented == Life!Spec

-----------------------------------------------------------------------------
(* The inductive strengthening behind the proofs. *)

(* What has been slept and what is left add up to the delay in force, and no
   delay is left over when the supervisor goes on. *)
DelayIsAccountedFor ==
  /\ pc \in Backoff =>
       /\ hist.failures > 0
       /\ hist.waited + remaining = BackoffSteps[hist.failures]
  /\ pc = "sleep" => remaining > 0
  /\ pc \notin Backoff \union Ended => remaining = 0

(* A poll slept out late is the last: only checks of the flag follow it. *)
LatePollIsTheLast ==
  hist.late = 0 \/ (hist.late = 1 /\ flag /\ pc \in {"poll", "check"} \union Ended)

SignalsWereSent ==
  /\ flag => hist.signalled # {}
  /\ pending \subseteq hist.signalled

(* What makes the properties inductive: the delay in force is accounted for, a
   late poll is the last, and flag and pending signals come from real ones. *)
IInv ==
  /\ TypeOK
  /\ CursorCountsFailures
  /\ DelayIsAccountedFor
  /\ LatePollIsTheLast
  /\ SignalsWereSent
  /\ EndIsJustified

-----------------------------------------------------------------------------
(* Liveness. *)

(* A flag set during the backoff ends the process. *)
BackoffShutdown == FlaggedInBackoff ~> pc \in Ended

(* A signal the event loop has yet to read ends the process, unless the
   session breaks first. *)
SessionShutdown ==
  (pc = "running" /\ pending # {}) ~>
    (pc \in Ended \union Backoff \/ link = "dead")

(* No attempt can use this address, and none takes it away: connect_to_env
   fails on WAYLAND_SOCKET without removing it, or passes over it to a
   WAYLAND_DISPLAY that is not set. *)
Unusable ==
  \/ socket = "malformed"
  \/ socket = "empty" /\ display
  \/ socket = "opaque" /\ ~display

(* With a compositor that stays, and an address that can be used, the daemon is
   always connected again, or has ended: no sequence of crashes leaves it in
   backoff for good. *)
Recovery ==
  <>[](compositor # "down" /\ ~Unusable) =>
    []<>(pc \in Ended \union {"running"})

(* Without WAYLAND_DISPLAY there is nothing to reconnect to: once the descriptor
   of WAYLAND_SOCKET is used up, the first lost session, or a number that names
   none, ends the process instead of looping.  A WAYLAND_SOCKET that is never
   consumed is left out: it fails every attempt alike, and the daemon backs off
   for good. *)
SocketOnlySessionsEnd ==
  (~display /\ ~Unusable /\ pc = "poll") ~> pc \in Ended

-----------------------------------------------------------------------------
(* What the source says of this code and a run refutes. *)

(* reconnect.rs:25-26, "whichever fires first wins", and the README's prompt
   shutdown: a process whose flag is set ends.  A signal that arrives while the
   daemon connects sets a flag the event loop never looks at. *)
FlagEndsProcess == flag ~> pc \in Ended

(* app.rs:221, "SIGTERM / SIGINT -> stop the loop, exit 0": a signal the loop
   has yet to read ends the process.  One that is read in the batch in which
   the connection is found dead is lost, and the daemon reconnects. *)
SignalStopsLoop == (pc = "running" /\ pending # {}) ~> pc \in Ended
=============================================================================
