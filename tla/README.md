# A verification project for cosmic-ext-window-daemon

The daemon is a Wayland client of the COSMIC compositor.  It moves each new
window to a workspace (`WORKSPACE_MODE`), optionally activates that workspace
and checks that the compositor complied (`SWITCH_TO_WORKSPACE`), jumps away from
a workspace that has become empty (`JUMP_ON_EMPTY`), and reconnects with a
backoff when the compositor goes away.  It is one thread: calloop dispatches
Wayland events, timers and signals to handlers that run to their end.  What is
hard about it is not shared memory but everything that is out of date when a
handler runs: the world as the toolkit has been told, requests that are still on
their way, timers of activations that have been superseded, signals that arrive
between two ways of listening for them.

Paths below are relative to the repository; line numbers are in `PROJECT.json`
("map").

## Inventory

| Part | State | Operations | Modelled in |
|---|---|---|---|
| Activation verifier, `src/verify.rs` | `pending`, `attempted_distinct`, `ever_confirmed`, `process_warn_fired`, `info_emitted` | `record_attempt`, `record_confirm`, `record_timeout` | `Verify` |
| Verification timers, `src/runtime.rs`, `src/wayland/workspace.rs` | `pending_tokens`, calloop's timers | `register_activate_with_verification`, timer callback, confirm walk of `done` | `ActivationVerifier` |
| Reconnect supervisor, `src/reconnect.rs`, `src/main.rs` | backoff cursor, shutdown flag, signal dispositions | `run`, `run_with_sleep`, `next_delay`, `reset`, exit codes | `Supervisor` |
| Session start and end, `src/app.rs` | connection, globals, signal mask | `connect_and_run`, `map_calloop_error`, `walk_for_io_errno` | `Supervisor` |
| Placement policy, `src/placement.rs` | none | `decide`, `select_group`, `select_workspace` | `Placement`, `PolicyCheck` |
| Deferred placements, `src/runtime.rs` | `pending_placements` | `execute_place` (Create), `scan_pending_placements`, `evaluate_pending` | `Placement`, `Session` |
| MRU jump, `src/mru_jump.rs` | `recent_workspaces`, `last_known_active` | `update_mru_from_active_transitions`, `select_jump_target`, `evaluate_trigger` | `MruJump`, `MruCheck` |
| Toplevel handler, `src/wayland/toplevel.rs`, `src/runtime.rs` | `handled`, the queue | `new_toplevel`, `update_toplevel`, `toplevel_closed` | `Session` |
| Workspace handler, `src/wayland/workspace.rs` | all of the above | `done`; transactions | `Session` |
| WARN-once flags, `src/state.rs` | three flags | `warn_once_*` | `Session` |
| Toplevel manager requests, `src/wayland/management.rs` | none | `move_toplevel`, `set_maximized` | `Session` |
| Outputs and seats, `src/state.rs` | first seat, read by no decision | log only | not modelled |
| Configuration, `src/config.rs` | none | `from_env_source` and its parsers, run once | `Config`, `PolicyCheck` |
| Transaction types, `src/wayland/workspace.rs` | none | compile-time guarantee | not modelled |
| `lib.rs`, `ids.rs`, packaging | none | | not modelled |

How they interact: `main` runs the supervisor, which calls `connect_and_run`
once per session.  A session owns an `AppData`; the toolkit updates its own
tables from events and then calls the handlers, which read those tables, change
`AppData` and send requests.  `done` runs the MRU producer, then the confirm
walk, then the scan of the queue.  Activations register timers, whose callbacks
run between handlers.

What makes each part correct, and is hard to test, is listed under "hazards" in
`PROJECT.json`, each with the properties that cover it.

## Modules

**`Verify`** translates `VerifierState` into operators on a record.  The only
caller passes the workspace as the timer id, so the map `pending` is a set.

**`ActivationVerifier`** adds the two tables beside it: `pending_tokens` (handle
to registration token) and calloop's timers.  Actions: the three outcomes of
`register_activate_with_verification` (`ActivateUnverified` without a timeout,
`ActivateWithTimer`, `ActivateTimerRefused`), `TimerFires` for the callback, and
`Done(active)` for a `done` that shows the workspaces of `active` as active.  The
callers are left unconstrained: any workspace may be activated at any time.  The
code's `debug_assert`s are not part of the model, which is the release build;
both can fail (see below).

**`Supervisor`** is the process from `main` to its end.  `pc` says where the
thread is; the kernel's part is the set of handlers installed, the signal mask
and the pending signals.  `socket` is what `WAYLAND_SOCKET` holds, as wayland-client
takes it: a descriptor, live or dead, or the number of one that is not open, all
consumed by the attempt; what is no number, on which `connect_to_env` fails before it
removes the variable (`SocketRefused`); or what it passes over (`SocketPassedOver`).  `SendSignal` sets the flag, becomes pending, or kills,
according to those.  `connect_and_run` is a sequence of steps (environment
guard, connect, handshake, wiring, event loop), each with its failures.  The
compositor may die and come back, also without the globals the daemon needs.
What ends a session is an error with a chain of sources: calloop wraps the
`io::Error` of a source, `walk_for_io_errno` looks for the first one at any depth,
and `Outcome` retries on an errno that is no protocol violation.  On a dead
connection the chain ends in an errno (`Lost`); on a live one any chain may come.

**`Lifecycle`** is what the supervisor promises to whoever runs the process,
without polls, masks, handshakes and error chains: idle for exactly the delay of
the present rung, then trying, then serving; back to the first rung only by a
session that serves; never trying again after a signal was heard; never failing
while idle.  `Supervisor` implements it, with `Stage` (of `pc`), `cursor + 1`,
`remaining`, `hist.signalled` and `flag` as the mapping: both poll and sleep are
"idle", and connect, handshake and wiring are one "trying".

**`Placement`** and **`MruJump`** are the pure decisions as operators.
**`Config`** is the parsing of the eight variables: a value is described by how
it is spelled (unset, not Unicode, a word dressed in capitals or white space, a
number with or without a sign, leading zeros or padding, ...), which is all the
parsers look at (`Values`).  **`PolicyCheck`** asks `Placement` and `Config` every question
of a bounded domain;
**`MruCheck`** feeds the MRU list arbitrary `done` batches and compares it with
the history of visits.

**`Session`** composes them: the handlers of one session beside a compositor and
a user.  `world`, `phase` and `place` are the compositor's truth; `shown` and
`known` are what the toolkit has been told, of workspaces at the last `done` and
of windows one by one, in any order between the two protocols, with intermediate
states possibly coalesced.  `requests` are the daemon's requests under way, which
the compositor carries out in order or ignores.  Correspondence:

| Action | Code |
|---|---|
| `NewToplevel(t, info)` | `new_toplevel` → `handle_new_toplevel` → `decide`, then skip, `execute_place` on an existing workspace, or its Create branch |
| `UpdateToplevel(t)` | `update_toplevel`: only the toolkit's table changes |
| `ToplevelClosed(t)` | `toplevel_closed` with `handle_empty_workspace_if_triggered` |
| `WorkspaceDone` | `done` up to the scan |
| `ScanPending` | one round of the loop of `scan_pending_placements`; while `scan # 0` no other handler runs |
| `TimerFires` | the timer's callback |
| `Reconnect` | the session's end and a new `AppData` |
| `Open`, `Close`, `UserSwitches`, `AddWorkspace`, `RemoveWorkspace`, `Unplug`, `Decorate`, `ProcessRequest` | external: the compositor and the user |

`Session` and `MruCheck` remove entries from queues and lists with `Retained`
(module **`Retain`**), which is `Vec::retain` and `filter` written as a recursive
function, so that lemmas about it can be proved.

**`WindowPlacement`** is the promise to a window: unseen, then sent, left alone or
waiting; what waits is settled once; what is settled stays so until the window
closes or the session ends; and the moves under way are those of the windows that
were sent, in the order of the decisions.  `Session` implements it: `Fate` reads a
window's fate off the queue and the targets noted, `Moves` is the requests without
activations, creations and maximizings.  The scan of the queue, the snapshots and
the cycles are all stutters or single resolutions there.

Protocol ids are used again in `Session`: a window may take the id of one that is
gone, and a workspace that of one that was removed, once the object is out of the
toolkit's tables and no request on its way names it (`WindowIdIsFree`,
`FreeWorkspaceIds`).  What the code keys by `protocol_id` (`handled`, the MRU
list, the verifier) then takes the newcomer for the old object; what it keys by
`ObjectId`, the snapshots of the queue, does not, so `WorkspaceDone` drops the
workspaces that are gone from each snapshot: they match nothing any more.

Activations inside `Session` are the actions of `ActivationVerifier`, taken with
`INSTANCE`; `Ses_switch` checks that a session implements that specification, and
`SessionRefinement` proves it, so its theorems apply to a session.

`MCActivationVerifier`, `MCSupervisor`, `MCPolicyCheck`, `MCMruCheck` and
`MCSession` hold the values TLC needs.  Operators commented as mutants are
plausible bugs, used by no action; "mutants" in `PROJECT.json` says which
property each of them breaks.

### Abstractions

- Workspaces, windows, outputs and groups are numbers or model values.
- In `Config` the text of a value is reduced to the distinctions its parser
  makes; that a regular expression compiles is given, and what it matches is a set
  of titles in `Placement`.
- An error chain has up to three links, one of them an `io::Error`, as the
  comment of `walk_for_io_errno` says of calloop's; which required global is
  missing only changes a message.
- A move's output argument, a new workspace's name (`new_each_counter`) and all
  log lines but the WARNs are left out.
- "manager unavailable" and failed transactions cannot happen after
  `check_required_globals`, and are left out.
- A window counts as an occupant of the workspace it appears on, since the
  toolkit has it in its table before `new_toplevel`: next-free never chooses it.
- `cycles_waited` is incremented before it is looked at, so the
  `KeepWaiting` branch is never taken in a session; `PolicyCheck` exercises it.
- Coordinates are their rank in the lexicographic order.
- The delays of the ladder are multiples of the 50 ms poll and are counted in
  polls.

## Runs

All runs are exhaustive within their bounds.

| Run | Bounds | Shows |
|---|---|---|
| `AV` | 3 workspaces, N = 2, 4 timers | `TablesAgree`, `WarnIsRare`, `NoWarnOnceConfirmed`, `PendingResolves` whatever callers do; `CleanTimersAreTracked`, `CleanAnswersAreBelieved` for callers that do not re-activate a pending workspace |
| `Sup` | both signals, every `WAYLAND_SOCKET` with and without `WAYLAND_DISPLAY`, the ladder's five rungs in polls ten times as long (2, 4, 10, 20, 60) | `CursorCountsFailures`, `LadderIsFollowed`, `BackoffEndsWithinOnePoll`, `EndIsJustified`, `NoConnectAfterFlag`, `BackoffShutdown`, `SessionShutdown`, `Recovery`, `SocketOnlySessionsEnd`, `CrashesAreSurvived`, `LifecycleIsImplemented` |
| `Policy` | 2 outputs, 2 groups in either order, up to 2 workspaces each, every mode and guard; every combination of the spellings that matter of the eight variables | `PlacementIsSound`, `SkipsAreForced`, `WarnsAreExact`, `OrderIsIrrelevant`, `PendingIsSound`, `ErrorsAreExact`, `EnvironmentIsExact` |
| `Mru` | groups of 3 and 2, a list of 3, 6 visits | `ListIsTheRecentVisits`, `FirstIsLastKnown`, `JumpIsBest` |
| `Ses_jump` | next-free with jumps; 2 windows, shown or sticky; 2 outputs, 3 workspaces, switched to and removed, one id used again; moves ignored | `JumpsAreSound`, `SharingNeedsStaleness` |
| `Ses_queue` | new-each with and without an overriding output; 3 appearances of 2 windows, one of them under the id of a closed one; 2 sessions, up to 4 workspaces; requests ignored, outputs unplugged, one unrelated `done` | `PendingsAreLive`, `MovedAtMostOnce`, `OneDoneSettlesAll`, `SharingNeedsStaleness`, `PlacementIsImplemented` |
| `Ses_switch` | next-free and new-each with `SWITCH_TO_WORKSPACE`; 2 windows, up to 4 workspaces, 2 timers; creations and activations ignored | `VerifierIsImplemented`, `PendingsSettle` |

Why the bounds are enough: the verifier's hazards need a stale timer, its
successor and as many other attempts as the threshold, which four timers give;
the ladder of `Sup` has the program's five rungs in their proportions, and no
step of the loop depends on how long a poll is; the queue's hazards need two entries, so
that `swap_remove` moves one, and a third workspace besides the two requested;
an MRU list of three over five workspaces moves, evicts and forgets entries; one
reuse of an id is enough for a table to hold the id of an object that is gone,
and a second one repeats the case.  The environments have for each variable that is
parsed a value of each kind its parser tells apart, in all combinations: for the
timeout "0", another spelling of zero, the last number and the one after it.  `MaxBirths`, `MaxReuses`, `MaxTouches` (the
`done`s that show nothing new), `MaxWorkspaces`, `MaxTimers` and `MaxSessions`
are the bounds.  `Ses_queue` and `Ses_jump` use the symmetry of the windows, none
of which any definition singles out; neither checks liveness.
A session of `Session` stops when its windows are gone and nothing is under way,
and `PolicyCheck` stops after one answer: their runs do not check deadlock.

### Runs that refute what the source says

Each checks one statement of a comment, an assertion or the README, and TLC
finds it violated.  `PROJECT.json` ("findings") quotes the statement.

| Run | What happens instead |
|---|---|
| `Sup_FlagEndsProcess` | a signal during connect only sets a flag that the session never reads |
| `Sup_SignalStopsLoop` | a signal read in the batch that also reports the lost connection is forgotten, and the daemon reconnects |
| `Ses_NewEachIsPerToplevel` | two waiting windows take the same new workspace |
| `Ses_OverrideReceivesAll` | new-each creates in the window's own group, whatever `WORKSPACE_OUTPUT` selects |
| `Ses_CallersCancelFirst` | two placements on one workspace within the timeout fail `record_attempt`'s `debug_assert` |

### Disagreements noted without a run

Met while modelling; the models contain the behaviour, no run is kept for it.

- `WORKSPACE_OUTPUT` is parsed as a number and compared with protocol ids
  (`src/placement.rs:266`), so an output's name, `DP-1` in `README.md:56`, never
  matches and the override is taken for absent.
- A `WAYLAND_SOCKET` that is no number fails every attempt before it is consumed
  (`src/app.rs:149`), so without `WAYLAND_DISPLAY` the daemon backs off for good,
  where `app.rs:124-127` expects the next iteration to exit.  This is why
  `SocketOnlySessionsEnd` leaves out what is `Unusable`.
- A move that was requested and is not yet reported is not in the occupancy
  `decide` reads (`src/runtime.rs:212`): two windows that open close together are
  both sent to the first empty workspace (`README.md:52`).  By
  `SharingNeedsStaleness` nothing but such a gap in the reports, and a new workspace
  taken by several that waited, brings two windows together.
- Any `done` counts as the cycle in which the new workspace should have appeared
  (`src/runtime.rs:777`): one that is unrelated degrades the placement and reports a
  refusal (`runtime.rs:764-765`) while the request is still on its way.
- The WARN can come with the first timeout: attempts are counted, not timeouts
  (`src/verify.rs:154`; the module's comment, `verify.rs:6`, says N time out).
- A confirmation clears the attempts of other workspaces whose timers still run,
  so `record_timeout`'s `debug_assert` (`src/verify.rs:141`) can fail.
- The stale timer of a superseded activation removes the token of the later one
  (`src/runtime.rs:443`), whose confirmation is then not looked for.  This is why
  `CleanAnswersAreBelieved` has its hypothesis.
- An empty `WAYLAND_SOCKET` is unset for the daemon's guard (`src/app.rs:131`) and set
  for wayland-client, which fails on it without removing it: the daemon backs off
  for good although a usable `WAYLAND_DISPLAY` (`app.rs:122`, "the persistent
  reconnect address") is there.  Conversely one that is not Unicode is set for the
  guard and unset for wayland-client.  `Unusable` collects these cases.
- When the compositor ignores `create_workspace` and has nothing else to report,
  the window waits without end (`src/runtime.rs:113` asks for a degradation after
  one dispatch cycle).  This is why `PendingsSettle` has its exception.
- The WARN-once flags are part of `AppData`, so each connection may log each WARN
  again (`src/app.rs:254`; `state.rs:141` says once per process).
- An `io::Error` without an OS code (one built by a library) ends the daemon as an
  internal error, though `src/app.rs:298` speaks of "no `io::Error` anywhere in the
  chain"; and every errno on a live connection, whatever source it came from,
  counts as a lost connection (`src/app.rs:314`).
- A variable that is not Unicode is treated as unset (`src/config.rs:53`), where
  `README.md:46` has malformed values end the daemon.
- "00" and "+0" are a verification timeout of no time, not "disabled"
  (`src/config.rs:122`); the empty string counts as unset for the regular
  expression, the output and the list, and is an error for the mode, the booleans
  and the timeout.
- A workspace that takes over the id of a removed one inherits its place in the MRU
  list, and its activation confirms an attempt on the old one.

### Fairness

- `ActivationVerifier`: weak fairness of `TimerFires`.  A registered calloop
  timer expires and its callback runs as long as the loop does.
- `Supervisor`: weak fairness of the thread's own steps as a whole (`Daemon`).
  Sleeps end and the loop dispatches what is ready.  Nothing is assumed of
  signals, faults or the compositor; `Recovery` is conditional on a compositor
  that stays.
- `Session`: weak fairness of each handler and of `ProcessRequest`: the loop
  dispatches what the socket holds and the compositor takes up requests.  It need
  not honour them, and nobody has to open, close or change anything.

## Proofs

Every safety invariant, action property and refinement that a passing run checks
is also a theorem, for every value of the constants that the named assumptions
allow.  What TLC adds is liveness.

| Component | Proofs in | From | Theorems state |
|---|---|---|---|
| `ActivationVerifier` | `ActivationVerifierProofs` | a positive `WarnThreshold`, `MaxTimers` a natural | type correctness, `TablesAgree`, `WarnIsRare`, `CleanTimersAreTracked`, `CleanAnswersAreBelieved`, `NoWarnOnceConfirmed` |
| `Supervisor` | `SupervisorProofs`, `LifecycleProofs` | a non-empty ladder of positive delays | type correctness, `CursorCountsFailures`, `BackoffEndsWithinOnePoll`, `EndIsJustified`, `LadderIsFollowed`, `CrashesAreSurvived`, `NoConnectAfterFlag`, `LifecycleIsImplemented` |
| `PolicyCheck` | `PolicyProofs` | `PolicyAssumption`, `ConfigAssumption` | `PlacementIsSound`, `SkipsAreForced`, `WarnsAreExact`, `OrderIsIrrelevant`, `PendingIsSound`, `ErrorsAreExact`, `EnvironmentIsExact` |
| `MruCheck` | `MruProofs` | `MruAssumption` | type correctness, `ListIsTheRecentVisits`, `FirstIsLastKnown`, `JumpIsBest` |
| `Session` | `SessionProofs` | `SessionAssumption`, `WorldsAssumption` | `PendingsAreLive`, `MovedAtMostOnce`, `OneDoneSettlesAll`, `JumpsAreSound`, `SharingNeedsStaleness` |
| `Session` and what it implements | `SessionRefinement` | the same | type correctness, `TablesAgree` and `WarnIsRare` in every session, `VerifierIsImplemented`, `PlacementIsImplemented` |

`OperatorProofs` has the lemmas about the operators that several of these need.

The assumptions say what the toolkit guarantees or what the constants are for.
`PolicyAssumption` and `WorldsAssumption`: groups and workspaces come as lists, group
ids are distinct naturals, flags are Booleans.  `MruAssumption`: the list has room
for one entry, there are finitely many groups, every workspace is in one of them,
workspaces and coordinates are naturals, and the value for "no workspace" is none
of them.  `ConfigAssumption` and the rest of `PolicyAssumption`: the words the parsers
know are among the texts, "unset" and "not Unicode" are no texts, and an environment
gives each of the eight variables one of its `Values`.
The bounds of TLC (`MaxTimers`, `MaxSessions`, ...) are any naturals.

Induction.  The library's induction theorems take a predicate as a parameter, which
the provers at hand cannot instantiate.  `SetInduction` states induction of a set of
naturals instead, and is proved from the well-foundedness of the naturals; what a
recursive function returns (`Retained`, `RecordAll` on a batch) is proved by taking
the set of lengths for which the claim holds.  This is why the models filter with
`Retained` where the code calls `retain`.

### Invariants of the state machines

Each of the inductive invariants was first checked by TLC, as an additional invariant
of the component's run, and is then shown to hold initially and to be preserved, with
one step of the proof per action.

**`ActivationVerifier`.**  `TablesAgree` is not inductive by itself: cancelling the
timer a token names must not take another's, which needs `TokensAreFresh` (tokens are
unique and below the next one); the WARN's count is tied to the verifier's latch
by `WarnIsLatched`, and its grounds to the history by `AttemptsAreCounted`.
`CleanAnswersAreBelieved` rests on `CleanTimersAreTracked`: the timer that runs is
the one the confirm walk finds.

**`Supervisor`.**  `DelayIsAccountedFor` says that what has been slept and what
remains add up to the delay in force, and `LatePollIsTheLast` that only checks of the
flag follow a late poll.  `NoConnectAfterFlag` is a safety property in temporal form:
the set of states with the flag set in the backoff is closed under every step but
those that end the process.  `CrashesAreSurvived` rests on a lemma about the walk: on
a chain that ends in an errno and has no other `io::Error` it finds that errno, at
every depth.

**`MruCheck`.**  That the list holds the `Cap` latest visits is not inductive in the
form the run checks.  `TellsOf` is: the list is ordered by last visits, and what it is
silent about is older than all of a list that is full.  One visit keeps that
(`record_mru_transition` moves an entry to the front, or evicts the last), and
`SetInduction` carries it through a batch of any length.  The second part,
`LastKnownIsLatest`, relates the list to the map: no workspace of a group was visited
after the one last known of it, since a `done` that shows a group another workspace
records the visit and updates the map together.  `JumpIsBest` then needs the first
entry of a group to be its latest, and the fallback to be a least element.

**`Session`.**  `PendingsAreLive` (what waits is known, unmoved, and waits once) and
`MovedAtMostOnce` need two more facts.  A window the daemon does not know has no target
noted, so that one that appears, perhaps under an id that was used before, starts
afresh.  And `scan` is 0 or 1: every entry that is scanned is settled by that scan,
because `cycles_waited` is incremented before it is looked at, so `swap_remove` always
takes the head and the entry it moves there is the next one scanned.  This gives
`OneDoneSettlesAll` too.  `JumpsAreSound` and `SharingNeedsStaleness` are about one
step, but about all the code's decisions in it: they rest on the lemmas about `decide`,
`evaluate_pending`, `evaluate_trigger` and `select_jump_target`, on groups and
workspaces of any number.  `SharingNeedsStaleness` assumes nothing of the views: it
says that wherever a window is sent to a workspace in use, whoever is there has not
been reported there, so that sharing is never the fault of the decision.  That the
views can be behind is noted among the disagreements above.

### Refinements

`Supervisor` implements `Lifecycle`: each action is a step of `Lifecycle` or leaves its
variables alone; `IInv` provides that nothing of a delay remains outside the backoff
(`DelayIsAccountedFor`, last conjunct), so that a new attempt, an exit and a failure
are taken where `Lifecycle` allows them.

`Session` implements `WindowPlacement`, across sessions and with ids used again.
`Fate` is a function of the queue, of what is known and of the targets noted, and
`Moves` of the requests; for each action there is a lemma on what it does to either
(`...KeepsPromise`).  `PendingsAreLive` makes the fate "waiting" exclude "sent", and the
lemmas on `Retained` give that a request appended or taken up changes `Moves` at the
end and at the head only.

`Session` implements `ActivationVerifier` as long as it does not reconnect
(`SessionImplementsVerifier`).  A reconnect starts a new verifier, a step which that
specification does not have; `SessionsRunVerifiers` says for all sessions that each
step is one of the verifier's, or a fresh start, or leaves its variables alone, and
hence that its inductive invariant holds in every session.

### Policy and configuration

In `PolicyProofs` the invariant is that the answer given is the code's; each part
of `decide` then has a lemma (`OverrideIsFound`, `BirthGroupIsLowest`,
`NextFreeIsFree`, `GuardsExempt`), and all of them rest on the first index with a
property being the least member of a set of naturals (`MinIsLeast`).  `Chosen` says
which group a window belongs in without saying how it is looked for, and
`PlacementIsSound`, `SkipsAreForced` and `WarnsAreExact` are all about that group; the
WARN of `new-each` is due when it cannot create workspaces, placed or not.  That the
order of the groups is irrelevant follows from the two choices being unique: by the
hypothesis that one group at most shows the overriding output (of several, the code
takes the first listed), and by distinct ids.  `ErrorsAreExact` and
`EnvironmentIsExact` are written from `Legal`, the values each variable may hold, and
from what those spell, not from the parsers.  Their proofs have a lemma for each
parser: it fails exactly on what is not legal, and returns otherwise what the value
spells; `FromEnv` reports the first variable that fails, and without one every field is
the value of its own variable.

### Checked by TLC only

Liveness, whose proofs need ENABLED: `PendingResolves`, `BackoffShutdown`,
`SessionShutdown`, `Recovery`, `SocketOnlySessionsEnd`, `PendingsSettle`.  And the runs
that refute a statement of the source, which are counterexamples.

## Plan

Order of work, the most important behaviour first.

1. Done: `Verify`, `ActivationVerifier`, `Supervisor`, their runs and proofs;
   `Placement`, `MruJump` and their checks; `Session` and its runs.
2. Done: `Lifecycle` and `WindowPlacement` with their refinements, the error
   chain of `walk_for_io_errno`, `Config`, and the reuse of protocol ids.
3. Done: the proofs about the placement policy, the configuration, the MRU list and
   `Session`, and those of all refinements.
4. Next: carry `CleanAnswersAreBelieved` and `NoWarnOnceConfirmed` over to sessions
   that reconnect, with a specification of the verifier that may be started again;
   relate the MRU list of `Session`, where ids are used again, to the history of
   `MruCheck`.

## Not modelled

- Outputs and seats (`src/state.rs`): the handlers of outputs are empty; the seat
  kept is the first one announced, and nothing reads it.
- `select_group_for_output` and `first_empty_workspace_in_group`
  (`src/wayland/workspace.rs`): no code calls them.
- The transaction types: that every mutation is committed is a matter of the type
  checker, and `tests/compile_fail` checks it.
- `lib.rs`, `ids.rs` and packaging have no behaviour.
