------------------------------ MODULE Session -------------------------------
(***************************************************************************)
(* One Wayland session of the daemon: the handlers that read the toolkit's *)
(* state and write AppData (wayland/toplevel.rs, wayland/workspace.rs,     *)
(* runtime.rs), beside a compositor and a user that act on their own.      *)
(*                                                                         *)
(* The daemon never sees the compositor's world, only what has been        *)
(* reported of it: shown, the workspaces at the last done(), and known,    *)
(* the windows one by one.  Its requests are carried out later, in order,  *)
(* or ignored.  Every decision rests on views that may be stale; what is   *)
(* still guaranteed, and what is not, is what this module states.          *)
(*                                                                         *)
(* The verification of activations is ActivationVerifier, over the same    *)
(* variables; the decisions are those of Placement and MruJump.            *)
(***************************************************************************)
EXTENDS Placement, MruJump, FiniteSets

CONSTANTS
  Windows,         \* the windows that may be opened
  Infos,           \* what a window may report: app_id, title, outputs, cosmic
  Configs,         \* the configurations of the daemon
  Worlds,          \* the compositor's initial workspaces and groups
  BirthKinds,      \* where windows appear: "shown", "unplaced", "sticky"
  MayIgnore,       \* the kinds of request the compositor may ignore
  Upheavals,       \* what else may happen to the world: "add", "remove",
                   \*   "unplug", "switch", "reconnect"
  MruCap,          \* MRU_CAP
  WarnThreshold,   \* of the verifier
  MaxWorkspaces,   \* bound: workspace ids in one behaviour
  MaxTouches,      \* bound: changes of the world this model does not show
  MaxReuses,       \* bound: workspaces that take the id of a removed one
  MaxBirths,       \* bound: windows that appear in one behaviour
  MaxTimers,       \* bound: verification timers in one session
  MaxSessions,     \* bound: connections in one behaviour
  NoGroup          \* the home of a workspace that is in no group

ASSUME SessionAssumption ==
  /\ MaxWorkspaces \in Nat /\ MaxTouches \in Nat /\ MaxReuses \in Nat
  /\ MaxBirths \in Nat /\ MaxTimers \in Nat /\ MaxSessions \in Nat
  /\ MruCap \in Nat \ {0}
  /\ WarnThreshold \in Nat \ {0}

VARIABLES
  (* the compositor and its user *)
  world,           \* groups, workspaces (in order of creation), home, active
  next_workspace,  \* the next workspace id
  dirty,           \* the world changed since the last done event
  phase, place,    \* per window: its life, and the workspaces it is on
  requests,        \* the daemon's requests on their way
  (* the toolkit's state *)
  shown,           \* WorkspaceState: the world at the last done()
  known,           \* ToplevelInfoState: window -> workspaces reported
  (* AppData *)
  config, handled, pending, warned, recent, last_known,
  scan,            \* the index i of scan_pending_placements, 0 outside it
  verify_timeout, verifier, pending_tokens, timers, next_token,
  (* history, read by no action *)
  verify_hist, hist

Ids == 1 .. MaxWorkspaces

(* Groups are those of the initial worlds; a workspace may be in none. *)
AllGroups == UNION {Range(w.groups) : w \in Worlds}

IsWorld(v) ==
  /\ DOMAIN v = {"groups", "workspaces", "home", "active"}
  /\ v.groups \in Seq(AllGroups) /\ v.workspaces \in Seq(Ids)
  /\ v.home \in [Range(v.workspaces) -> Nat \union {NoGroup}]
  /\ v.active \subseteq Range(v.workspaces)

ASSUME WorldsAssumption ==
  /\ \A v \in Worlds : IsWorld(v)
  /\ \A g \in AllGroups : g.id \in Nat
  /\ NoWorkspace \notin Ids
  /\ \A c \in Configs : c.verify \in BOOLEAN

AV == INSTANCE ActivationVerifier WITH Handles <- Ids, hist <- verify_hist

verification == <<verify_timeout, verifier, pending_tokens, timers, next_token,
                  verify_hist>>
compositor == <<world, next_workspace, dirty, phase, place>>
appdata    == <<handled, pending, warned, recent, last_known, scan>>
vars == <<compositor, requests, shown, known, config, appdata, verification, hist>>

-----------------------------------------------------------------------------
(* The views: what the handlers read out of the toolkit. *)

Live == Range(world.workspaces)

Nothing == [groups |-> << >>, workspaces |-> << >>, home |-> << >>,
            active |-> {}]

GroupIds(view) == {view.groups[i].id : i \in DOMAIN view.groups}

(* The workspaces of a group in the order of WorkspaceState::workspaces(). *)
Members(view, g) ==
  Retained(view.workspaces, {w \in Range(view.workspaces) : view.home[w] = g})

Occupied(windows) == UNION Range(windows)

(* The stub of a group's workspaces, and of the groups: build_world_stub and
   the occupancy snapshot of scan_pending_placements. *)
Rows(view, windows, g) ==
  LET members == Members(view, g)
  IN [i \in DOMAIN members |->
        [id |-> members[i], occupied |-> members[i] \in Occupied(windows)]]

Stub(view, windows) ==
  [i \in DOMAIN view.groups |->
     LET g == view.groups[i]
     IN [id |-> g.id, outputs |-> g.outputs, can_create |-> g.can_create,
         workspaces |-> Rows(view, windows, g.id)]]

(* What handle_empty_workspace_if_triggered collects. *)
TriggerView(windows) ==
  [active      |-> shown.active,
   occupied    |-> Occupied(windows),
   group       |-> Restrict(shown.home, {w \in DOMAIN shown.home :
                                  shown.home[w] \in GroupIds(shown)}),
   members     |-> [g \in GroupIds(shown) |-> Range(Members(shown, g))],
   coordinates |-> [w \in Ids |-> w]]

(* The (group, active workspace) pairs update_mru_from_active_transitions
   collects: the first active workspace of each group that has one. *)
CurrentActive(view) ==
  LET actives(g) == Retained(Members(view, g), view.active)
      lit == Retained(view.groups,
                      {g \in Range(view.groups) : actives(g.id) # << >>})
  IN [i \in DOMAIN lit |->
        [group |-> lit[i].id, workspace |-> actives(lit[i].id)[1]]]

-----------------------------------------------------------------------------
(* Requests and their verification. *)

Move(t, w)  == [op |-> "move", window |-> t, workspace |-> w]
Activate(w) == [op |-> "activate", workspace |-> w]
Maximize(t) == [op |-> "maximize", window |-> t]
CreateIn(g) == [op |-> "create", group |-> g]

PostPlace(t, w) ==
  (IF config.switch_to_workspace THEN <<Activate(w)>> ELSE << >>)
    \o (IF config.maximize THEN <<Maximize(t)>> ELSE << >>)

(* Mutant: the attempt is recorded as timed, the timer never registered. *)
RegisterActivationUntimed(w) ==
  /\ verifier' = AV!RecordAttempt(verifier, w, TRUE)
  /\ UNCHANGED <<verify_timeout, pending_tokens, timers, next_token,
                 verify_hist>>

RegisterActivation(w) ==
  \/ AV!ActivateUnverified(w)
  \/ AV!ActivateWithTimer(w)
  \/ AV!ActivateTimerRefused(w)

(* The common tail of execute_place and execute_deferred_place.  Mutant: the
   move itself is left out. *)
PlaceNowUnsent(t, w) ==
  /\ requests' = requests \o PostPlace(t, w)
  /\ IF config.switch_to_workspace THEN RegisterActivation(w)
     ELSE UNCHANGED verification

PlaceNow(t, w) ==
  /\ requests' = requests \o <<Move(t, w)>> \o PostPlace(t, w)
  /\ IF config.switch_to_workspace THEN RegisterActivation(w)
     ELSE UNCHANGED verification

SendsNothing == UNCHANGED <<requests, verification>>

(* warn_once_*: the flag is swapped, the first caller logs. *)
Warn(warns) == warned' = warned \union warns

NoteTarget(t, w) ==
  [hist EXCEPT !.targets[t] = Append(@, w)]

-----------------------------------------------------------------------------
WarnKinds == {"WorkspaceOutputFallback", "NewEachUnsupported",
              "CreateNotHonored"}

(* What an observer could have noted:
     targets  where each window was sent since it appeared, in order
     denied   the compositor ignored a create_workspace
     births   how many windows have appeared
     touches  how often the world changed in what this model leaves out
     reuses   how many workspaces have the id of one that was removed
     sessions how many connections there have been *)
Init ==
  /\ config \in Configs
  /\ world \in Worlds
  /\ next_workspace = Len(world.workspaces) + 1
  /\ dirty = TRUE
  /\ phase = [t \in Windows |-> "unborn"]
  /\ place = [t \in Windows |-> {}]
  /\ requests = << >>
  /\ shown = Nothing
  /\ known = << >>
  /\ handled = {} /\ pending = << >> /\ warned = {}
  /\ recent = << >> /\ last_known = << >> /\ scan = 0
  /\ AV!Init /\ verify_timeout = config.verify
  /\ hist = [targets |-> [t \in Windows |-> << >>],
             denied |-> FALSE, touches |-> 0, births |-> 0, reuses |-> 0,
             sessions |-> 1]

-----------------------------------------------------------------------------
(* ToplevelInfoHandler.  The toolkit has the window in its table before it
   calls new_toplevel, so the window counts as an occupant of the workspaces
   it reports; and it still has it while toplevel_closed runs. *)

Known(t) == [s \in DOMAIN known \union {t} |->
               IF s = t THEN place[t] ELSE known[s]]

Unseen(t) == phase[t] \in {"open", "closed"} /\ t \notin DOMAIN known

(* execute_place, target Create: the group is that of any one output of the
   window, not the one decide chose; the snapshot is of that group. *)
GroupsFor(info) ==
  {SelectInSeq(shown.groups, LAMBDA g : o \in g.outputs) : o \in info.outputs}

CreatePlacement(t, i) ==
  IF i = 0 THEN UNCHANGED <<pending, requests>>
  ELSE LET g == shown.groups[i].id IN
       /\ requests' = Append(requests, CreateIn(g))
       /\ pending' = Append(pending,
            [window |-> t, group |-> g,
             before |-> Range(Members(shown, g)), cycles_waited |-> 0])

NewToplevel(t, info) ==
  /\ scan = 0
  /\ Unseen(t)
  /\ known' = Known(t)
  /\ handled' = handled \union {t}
  /\ LET decision == Decide(config, info, Stub(shown, Known(t)), handled, t)
         action   == decision.action
     IN /\ Warn(decision.warns)
        /\ \/ /\ action.kind = "Skip"
              /\ UNCHANGED <<pending, hist>>
              /\ SendsNothing
           \/ /\ action.kind = "Existing"
              /\ hist' = NoteTarget(t, action.workspace)
              /\ PlaceNow(t, action.workspace)
              /\ UNCHANGED pending
           \/ /\ action.kind = "Create"
              /\ \E i \in GroupsFor(info) : CreatePlacement(t, i)
              /\ UNCHANGED <<verification, hist>>
  /\ UNCHANGED <<compositor, shown, config, recent, last_known, scan>>

(* update_toplevel does nothing: only the toolkit's table changes. *)
UpdateToplevel(t) ==
  /\ scan = 0
  /\ t \in DOMAIN known /\ phase[t] = "open" /\ known[t] # place[t]
  /\ known' = Known(t)
  /\ SendsNothing
  /\ UNCHANGED <<compositor, shown, config, appdata, hist>>

(* The workspaces of the closed window come out of a HashSet in any order. *)
JumpIfEmptied(t, rest) ==
  \E closed \in SetToSeqs(known[t]) :
    LET outcome == EvaluateTrigger(closed, TriggerView(rest), recent) IN
    \/ /\ outcome.kind = "NoOp"
       /\ SendsNothing
    \/ /\ outcome.kind = "Jump"
       /\ requests' = Append(requests, Activate(outcome.target))
       /\ RegisterActivation(outcome.target)

(* Mutant: the placements of the closed window stay in the queue. *)
EvictedNone(t) == pending

Evicted(t) == Retained(pending, {p \in Range(pending) : p.window # t})

ToplevelClosed(t) ==
  /\ scan = 0
  /\ t \in DOMAIN known /\ phase[t] = "closed"
  /\ known' = Restrict(known, DOMAIN known \ {t})
  /\ handled' = handled \ {t}
  /\ pending' = Evicted(t)
  /\ IF config.jump_on_empty
       THEN JumpIfEmptied(t, Restrict(known, DOMAIN known \ {t}))
       ELSE SendsNothing
  /\ phase' = [phase EXCEPT ![t] = "gone"]
  /\ hist' = [hist EXCEPT !.targets[t] = << >>]
  /\ UNCHANGED <<world, next_workspace, dirty, place, shown, config, warned,
                 recent, last_known, scan>>

-----------------------------------------------------------------------------
(* WorkspaceHandler::done: the MRU producer, the confirm walk, and then the
   scan, one pending placement per step; no other handler runs in between. *)

UpdateMru ==
  LET current == CurrentActive(world) IN
  IF config.jump_on_empty
    THEN /\ recent' = RecordAll(recent, Transitions(last_known, current), MruCap)
         /\ last_known' = UpdateLast(last_known, current)
    ELSE UNCHANGED <<recent, last_known>>

(* Where the scan goes on: outside the queue it ends.  Mutants: it runs past
   the end; it never starts. *)
ScanFromPast(i, queue) == IF i > Len(queue) + 1 THEN 0 ELSE i
ScanFromNever(i, queue) == 0

ScanFrom(i, queue) == IF i > Len(queue) THEN 0 ELSE i

(* A snapshot holds the handles themselves (ObjectId, with a serial), not their
   protocol ids: of workspaces that are gone nothing is left to match, and one
   that takes over such an id is new. *)
WorkspaceDone ==
  /\ scan = 0
  /\ dirty
  /\ shown' = world
  /\ dirty' = FALSE
  /\ UpdateMru
  /\ AV!Done(world.active)
  /\ pending' = [i \in DOMAIN pending |->
                   [pending[i] EXCEPT !.before = @ \intersect Live]]
  /\ scan' = ScanFrom(1, pending)
  /\ UNCHANGED <<world, next_workspace, phase, place, requests, known, config,
                 handled, warned, hist>>

(* Vec::swap_remove: the last entry takes the place of the removed one. *)
(* Mutant: the last entry is lost instead. *)
SwapRemoveLast(queue, i) == SubSeq(queue, 1, Len(queue) - 1)

SwapRemove(queue, i) ==
  SubSeq([queue EXCEPT ![i] = queue[Len(queue)]], 1, Len(queue) - 1)

(* The pending placement leaves the queue, and its window goes to the
   workspace the evaluation named, if any. *)
Resolve(p, decision) ==
  LET rows  == Rows(shown, known, p.group)
      warns == IF decision.kind = "DegradeAndWarn" THEN {"CreateNotHonored"}
               ELSE {}
  IN /\ pending' = SwapRemove(pending, scan)
     /\ scan' = ScanFrom(scan, pending')
     /\ Warn(warns)
     /\ IF decision.index = 0
          THEN SendsNothing /\ UNCHANGED hist
          ELSE LET w == rows[decision.index].id
               IN hist' = NoteTarget(p.window, w) /\ PlaceNow(p.window, w)

ScanPending ==
  /\ scan # 0
  /\ LET p == [pending[scan] EXCEPT !.cycles_waited = @ + 1]
         decision == IF p.group \notin GroupIds(shown)
                       THEN [kind |-> "GroupGone", index |-> 0]
                       ELSE EvaluatePending(p.before,
                              Rows(shown, known, p.group), p.cycles_waited)
     IN IF decision.kind = "KeepWaiting"
          THEN /\ pending' = [pending EXCEPT ![scan] = p]
               /\ scan' = ScanFrom(scan + 1, pending)
               /\ UNCHANGED <<warned, hist>>
               /\ SendsNothing
          ELSE Resolve(p, decision)
  /\ UNCHANGED <<compositor, shown, known, config, handled, recent, last_known>>

(* The timer callback, between handlers. *)
TimerFires ==
  /\ scan = 0
  /\ \E timer \in timers : AV!TimerFires(timer)
  /\ UNCHANGED <<compositor, requests, shown, known, config, appdata, hist>>

(* connect_and_run returns and is called again: AppData and the toolkit's
   state are made anew; requests in flight arrive or are lost.  The windows
   live on under new handles. *)
Reconnect ==
  /\ "reconnect" \in Upheavals
  /\ scan = 0 /\ hist.sessions < MaxSessions
  /\ phase' = [t \in Windows |-> IF phase[t] = "closed" THEN "gone"
                                  ELSE phase[t]]
  /\ dirty' = TRUE
  /\ requests' = << >>
  /\ shown' = Nothing /\ known' = << >>
  /\ handled' = {} /\ pending' = << >> /\ warned' = {}
  /\ recent' = << >> /\ last_known' = << >>
  /\ verifier' = AV!NewVerifier /\ pending_tokens' = << >>
  /\ timers' = {} /\ next_token' = 0
  /\ verify_hist' = [attempted |-> {}, warns |-> 0, answered |-> FALSE,
                     clean |-> TRUE]
  /\ hist' = [hist EXCEPT !.sessions = @ + 1,
                          !.targets = [t \in Windows |-> << >>]]
  /\ UNCHANGED <<world, next_workspace, place, scan, config, verify_timeout>>

-----------------------------------------------------------------------------
(* The compositor and its user: external, as far as the handlers can tell
   what they do. *)

daemon == <<requests, shown, known, config, appdata, verification>>

OnDisplay(w) == w \in world.active

(* Where a window appears: on a displayed workspace, not on any yet, or on
   every one. *)
Births ==
  (IF "shown" \in BirthKinds THEN {{w} : w \in world.active} ELSE {})
    \union (IF "unplaced" \in BirthKinds THEN {{}} ELSE {})
    \union (IF "sticky" \in BirthKinds THEN {Live} ELSE {})

(* A protocol id is free again once its object is out of the toolkit's tables
   and no request names it. *)
InFlight(field, id) ==
  \E i \in DOMAIN requests :
    field \in DOMAIN requests[i] /\ requests[i][field] = id

WindowIdIsFree(t) ==
  phase[t] = "unborn" \/ (phase[t] = "gone" /\ ~InFlight("window", t))

FreeWorkspaceIds ==
  (Ids \intersect {next_workspace})
    \union {w \in Ids :
              /\ w < next_workspace /\ hist.reuses < MaxReuses
              /\ w \notin Live \union DOMAIN shown.home \union Occupied(known)
              /\ ~InFlight("workspace", w)}

Open(t) ==
  /\ WindowIdIsFree(t) /\ hist.births < MaxBirths
  /\ phase' = [phase EXCEPT ![t] = "open"]
  /\ \E W \in Births : place' = [place EXCEPT ![t] = W]
  /\ hist' = [hist EXCEPT !.births = @ + 1]
  /\ UNCHANGED <<world, next_workspace, dirty, daemon>>

Close(t) ==
  /\ phase[t] = "open"
  /\ phase' = [phase EXCEPT ![t] = "closed"]
  /\ UNCHANGED <<world, next_workspace, dirty, place, daemon, hist>>

Display(w) ==
  [world EXCEPT !.active =
     {v \in @ : world.home[v] # world.home[w]} \union {w}]

UserSwitches(w) ==
  /\ "switch" \in Upheavals
  /\ w \in Live /\ world.home[w] # NoGroup /\ ~OnDisplay(w)
  /\ world' = Display(w)
  /\ dirty' = TRUE
  /\ UNCHANGED <<next_workspace, phase, place, daemon, hist>>

NewWorkspace(w, g) ==
  /\ w \in FreeWorkspaceIds
  /\ world' = [world EXCEPT !.workspaces = Append(@, w),
                            !.home = [v \in DOMAIN @ \union {w} |->
                                        IF v = w THEN g ELSE @[v]]]
  /\ dirty' = TRUE
  /\ IF w = next_workspace
       THEN next_workspace' = w + 1 /\ UNCHANGED hist
       ELSE /\ hist' = [hist EXCEPT !.reuses = @ + 1]
            /\ UNCHANGED next_workspace

(* A change this model does not have: a name, a hint, an urgency. *)
Decorate ==
  /\ ~dirty /\ dirty' = TRUE
  /\ hist.touches < MaxTouches /\ hist' = [hist EXCEPT !.touches = @ + 1]
  /\ UNCHANGED <<world, next_workspace, phase, place, daemon>>

AddWorkspace(w, g) ==
  /\ "add" \in Upheavals
  /\ g \in GroupIds(world)
  /\ NewWorkspace(w, g)
  /\ UNCHANGED <<phase, place, daemon>>

RemoveWorkspace(w) ==
  /\ "remove" \in Upheavals
  /\ w \in Live /\ ~OnDisplay(w)
  /\ \A t \in Windows : phase[t] = "open" => w \notin place[t]
  /\ world' = [world EXCEPT !.workspaces = Retained(@, Live \ {w}),
                            !.home = Restrict(@, DOMAIN @ \ {w})]
  /\ dirty' = TRUE
  /\ UNCHANGED <<next_workspace, phase, place, daemon, hist>>

(* An output goes: its group with it; the workspaces move to another group,
   where they are not on display, or are left without one. *)
Unplug(g, heir) ==
  /\ "unplug" \in Upheavals
  /\ g \in GroupIds(world)
  /\ heir \in (GroupIds(world) \ {g}) \union {NoGroup}
  /\ world' = [world EXCEPT
       !.groups = Retained(@, {x \in Range(@) : x.id # g}),
       !.home   = [w \in DOMAIN @ |-> IF @[w] = g THEN heir ELSE @[w]],
       !.active = {w \in @ : world.home[w] # g \/ heir = NoGroup}]
  /\ dirty' = TRUE
  /\ UNCHANGED <<next_workspace, phase, place, daemon, hist>>

(* The compositor carries out its oldest request, or has no use for it. *)
Possible(r) ==
  CASE r.op = "move"     -> phase[r.window] = "open" /\ r.workspace \in Live
    [] r.op = "activate" -> /\ r.workspace \in Live
                            /\ world.home[r.workspace] # NoGroup
    [] r.op = "create"   -> /\ FreeWorkspaceIds # {}
                            /\ \E i \in DOMAIN world.groups :
                                 /\ world.groups[i].id = r.group
                                 /\ world.groups[i].can_create
    [] r.op = "maximize" -> FALSE

Honour(r) ==
  /\ Possible(r)
  /\ \/ /\ r.op = "move"
        /\ place' = [place EXCEPT ![r.window] = {r.workspace}]
        /\ UNCHANGED <<world, next_workspace, dirty, hist>>
     \/ /\ r.op = "activate"
        /\ world' = Display(r.workspace)
        /\ dirty' = TRUE
        /\ UNCHANGED <<next_workspace, place, hist>>
     \/ /\ r.op = "create"
        /\ \E w \in Ids : NewWorkspace(w, r.group)
        /\ UNCHANGED place

Ignore(r) ==
  /\ ~Possible(r) \/ r.op \in MayIgnore
  /\ hist' = [hist EXCEPT !.denied = @ \/ r.op = "create"]
  /\ UNCHANGED <<world, next_workspace, dirty, place>>

ProcessRequest ==
  /\ requests # << >>
  /\ Honour(Head(requests)) \/ Ignore(Head(requests))
  /\ requests' = Tail(requests)
  /\ UNCHANGED <<phase, shown, known, config, appdata, verification>>

-----------------------------------------------------------------------------
Next ==
  \/ \E t \in Windows, info \in Infos : NewToplevel(t, info)
  \/ \E t \in Windows : UpdateToplevel(t)
  \/ \E t \in Windows : ToplevelClosed(t)
  \/ WorkspaceDone
  \/ ScanPending
  \/ TimerFires
  \/ Reconnect
  \/ \E t \in Windows : Open(t)
  \/ \E t \in Windows : Close(t)
  \/ \E w \in Ids : UserSwitches(w)
  \/ Decorate
  \/ \E w \in Ids, g \in GroupIds(world) : AddWorkspace(w, g)
  \/ \E w \in Ids : RemoveWorkspace(w)
  \/ \E g \in GroupIds(world), h \in GroupIds(world) \union {NoGroup} :
       Unplug(g, h)
  \/ ProcessRequest

Spec == Init /\ [][Next]_vars

(* The event loop dispatches what the socket holds, a handler runs to its end,
   the compositor takes up requests and reports changes.  Nobody has to open
   or close a window, nor to change anything. *)
FairSpec ==
  /\ Spec
  /\ WF_vars(ProcessRequest)
  /\ WF_vars(WorkspaceDone)
  /\ WF_vars(ScanPending)
  /\ WF_vars(\E t \in Windows, info \in Infos : NewToplevel(t, info))
  /\ WF_vars(\E t \in Windows : UpdateToplevel(t))
  /\ WF_vars(\E t \in Windows : ToplevelClosed(t))

-----------------------------------------------------------------------------
Request ==
  [op : {"move"}, window : Windows, workspace : Ids]
    \union [op : {"activate"}, workspace : Ids]
    \union [op : {"maximize"}, window : Windows]
    \union [op : {"create"}, group : Nat]

PendingPlacement ==
  [window : Windows, group : Nat, before : SUBSET Ids, cycles_waited : Nat]

History ==
  [targets : [Windows -> Seq(Ids)], denied : BOOLEAN, touches : Nat,
   births : Nat, reuses : Nat, sessions : Nat]

OwnTypeOK ==
  /\ IsWorld(world) /\ IsWorld(shown)
  /\ next_workspace \in Nat /\ dirty \in BOOLEAN
  /\ phase \in [Windows -> {"unborn", "open", "closed", "gone"}]
  /\ place \in [Windows -> SUBSET Ids]
  /\ requests \in Seq(Request)
  /\ DOMAIN known \subseteq Windows /\ known \in [DOMAIN known -> SUBSET Ids]
  /\ handled \subseteq Windows
  /\ pending \in Seq(PendingPlacement)
  /\ warned \subseteq WarnKinds
  /\ recent \in Seq(Ids) /\ Len(recent) <= MruCap
  /\ Range(last_known) \subseteq Ids
  /\ scan \in 0 .. Len(pending)
  /\ hist \in History

TypeOK == OwnTypeOK /\ AV!TypeOK

(* A placement only waits for a window the daemon still knows to be open, a
   window waits for at most one, and nothing that waits has been moved
   already: whatever closes, reopens the connection or unplugs meanwhile, no
   deferred move can go to a dead window. *)
PendingsAreLive ==
  /\ handled = DOMAIN known
  /\ \A i \in DOMAIN pending :
       /\ pending[i].window \in handled
       /\ hist.targets[pending[i].window] = << >>
       /\ \A j \in DOMAIN pending :
            pending[i].window = pending[j].window => i = j

(* A window that appears is sent to a workspace once or never: neither later
   events of the window nor the reshuffling of the queue during a scan makes
   the daemon move it again, and one that takes over the id of a closed window
   starts afresh. *)
MovedAtMostOnce == \A t \in Windows : Len(hist.targets[t]) <= 1

(* What makes the two inductive: a window the daemon does not know has not been
   sent anywhere, so that a new one starts afresh.  And no placement waits past
   its first scan: what is scanned is always the head of the queue. *)
IInv ==
  /\ OwnTypeOK
  /\ PendingsAreLive
  /\ MovedAtMostOnce
  /\ \A t \in Windows \ DOMAIN known : hist.targets[t] = << >>
  /\ scan \in {0, 1}

(* To a window the daemon's part is that of WindowPlacement: decided at once or
   put off, settled once, one move for what is sent and none for what is not,
   in the order of the decisions, and forgotten with the window. *)
Fate(t) ==
  IF t \notin DOMAIN known THEN "unseen"
  ELSE IF \E i \in DOMAIN pending : pending[i].window = t THEN "waiting"
  ELSE IF hist.targets[t] # << >> THEN "sent" ELSE "left"

Moves ==
  LET moving == Retained(requests, {r \in Range(requests) : r.op = "move"})
  IN [i \in DOMAIN moving |-> moving[i].window]

Promise == INSTANCE WindowPlacement WITH
  fate <- [t \in Windows |-> Fate(t)], moves <- Moves

PlacementIsImplemented == Promise!Spec

(* The scan that follows a done event leaves nothing behind: every placement
   that was waiting is resolved, dropped or degraded by that one done. *)
OneDoneSettlesAll ==
  [][scan # 0 /\ scan' = 0 => pending' = << >>]_vars

(* A window's closing makes the daemon jump exactly when it left an active
   workspace of its group without windows and the group has others with some;
   the jump goes to one of those.  All in the daemon's view, the closed window
   counted nowhere. *)
Emptied(t, rest) ==
  {w \in known[t] \intersect shown.active : w \notin Occupied(rest)}

Refuges(w, rest) ==
  {x \in Occupied(rest) \intersect DOMAIN shown.home :
     shown.home[x] = shown.home[w] /\ shown.home[w] \in GroupIds(shown)}

ClosesHandled(t) ==
  /\ t \in DOMAIN known /\ t \notin DOMAIN known'
  /\ hist'.sessions = hist.sessions

JumpsAreSound ==
  [][\A t \in Windows : ClosesHandled(t) =>
       LET left == {w \in Emptied(t, known') : Refuges(w, known') # {}}
       IN IF config.jump_on_empty /\ left # {}
            THEN /\ Len(requests') = Len(requests) + 1
                 /\ \E w \in left : requests'[Len(requests')].workspace
                                      \in Refuges(w, known')
            ELSE requests' = requests]_vars

(* Windows come to share a workspace through staleness alone.  Whatever the
   views, whatever is under way and whichever handler decides: of each window
   that is on the workspace a window is sent to, the daemon has no report, or
   one that is out of date.  The exception is a waiting window that takes a
   workspace new to it, where evaluate_pending does not ask who is there. *)
Behind(s) == s \notin DOMAIN known \/ known[s] # place[s]

IsSent(t) == hist'.targets[t] # hist.targets[t] /\ hist'.targets[t] # << >>

IsNewTo(t, w) ==
  \E i \in DOMAIN pending : pending[i].window = t /\ w \notin pending[i].before

SharingNeedsStaleness ==
  [][\A t \in Windows : IsSent(t) =>
       LET w == hist'.targets[t][1]
       IN \/ IsNewTo(t, w)
          \/ \A s \in Windows :
               phase[s] = "open" /\ w \in place[s] => Behind(s)']_vars

(* The handlers use the verifier as ActivationVerifier says it is used, so
   what is proved of that module holds of a session. *)
VerifierIsImplemented == AV!Spec

(* Every deferred placement is eventually resolved, by the workspace it waits
   for or by the next done of any kind, unless the compositor ignores a
   create_workspace: then nothing need ever be reported again. *)
PendingsSettle ==
  (pending # << >> /\ ~hist.denied) ~> (pending = << >> \/ hist.denied)

-----------------------------------------------------------------------------
(* What the source and its documentation say, and the runs refute. *)

(* README.md, WORKSPACE_MODE: new-each requests a new workspace per toplevel,
   degrading only when unsupported. *)
NewEachIsPerToplevel ==
  \A s, t \in Windows :
    (/\ s # t /\ phase[s] = "open" /\ phase[t] = "open"
     /\ config.workspace_mode = "new-each" /\ hist.targets[s] # << >>) =>
       hist.targets[s] # hist.targets[t]

(* README.md, WORKSPACE_OUTPUT: the group of the named output receives all
   toplevels, when it is there. *)
OverrideReceivesAll ==
  OverrideGroup(config, shown.groups) # 0 =>
    \A i \in DOMAIN pending :
      pending[i].group = shown.groups[OverrideGroup(config, shown.groups)].id

(* verify.rs:101-105: record_attempt is not called for a handle whose timer is
   pending. *)
CallersCancelFirst == verify_hist.clean
=============================================================================
