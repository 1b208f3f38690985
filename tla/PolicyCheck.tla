---------------------------- MODULE PolicyCheck -----------------------------
(***************************************************************************)
(* The pure decisions over every input of a bounded domain: decide,        *)
(* evaluate_pending, and the configuration read from the environment.  A   *)
(* behaviour has two steps: the question stands as it is, then it is       *)
(* answered.  The properties state what an answer promises without         *)
(* repeating how the code finds it.                                        *)
(***************************************************************************)
EXTENDS Placement, Config

CONSTANTS
  Inputs,        \* [config, info, groups, handled, toplevel]
  Pendings,      \* [before, workspaces, cycles_waited]
  Environments   \* [environment]

ASSUME PolicyAssumption ==
  /\ \A question \in Inputs :
       /\ DOMAIN question = {"config", "info", "groups", "handled", "toplevel"}
       /\ question.info.cosmic \in BOOLEAN
       /\ Listed(question.groups)
       /\ \A i, j \in DOMAIN question.groups :
            question.groups[i].id = question.groups[j].id => i = j
       /\ \A i \in DOMAIN question.groups :
            /\ question.groups[i].id \in Nat
            /\ question.groups[i].can_create \in BOOLEAN
            /\ ListedRows(question.groups[i].workspaces)
  /\ \A question \in Pendings :
       /\ DOMAIN question = {"before", "workspaces", "cycles_waited"}
       /\ ListedRows(question.workspaces) /\ question.cycles_waited \in Nat
  /\ \A question \in Environments :
       /\ DOMAIN question = {"environment"}
       /\ DOMAIN question.environment = Variables
       /\ \A var \in Variables : question.environment[var] \in Values(var)

VARIABLES input, answer, answered
vars == <<input, answer, answered>>

Init ==
  /\ input \in Inputs \union Pendings \union Environments
  /\ answer = [kind |-> "none"]
  /\ answered = FALSE

DecidePlacement ==
  /\ ~answered
  /\ answered' = TRUE
  /\ "config" \in DOMAIN input
  /\ answer' = Decide(input.config, input.info, input.groups, input.handled,
                      input.toplevel)
  /\ UNCHANGED input

DecidePending ==
  /\ ~answered
  /\ answered' = TRUE
  /\ "before" \in DOMAIN input
  /\ answer' = EvaluatePending(input.before, input.workspaces,
                               input.cycles_waited)
  /\ UNCHANGED input

ReadEnvironment ==
  /\ ~answered
  /\ answered' = TRUE
  /\ "environment" \in DOMAIN input
  /\ answer' = FromEnv(input.environment)
  /\ UNCHANGED input

Next == DecidePlacement \/ DecidePending \/ ReadEnvironment

Spec == Init /\ [][Next]_vars

-----------------------------------------------------------------------------
Decided == answered /\ "config" \in DOMAIN input
Places  == Decided /\ answer.action.kind # "Skip"

Ids(group) == {group.workspaces[i].id : i \in DOMAIN group.workspaces}
Free(group) == {group.workspaces[i].id :
                  i \in {j \in DOMAIN group.workspaces :
                           ~group.workspaces[j].occupied}}
Groups == {input.groups[i] : i \in DOMAIN input.groups}
Overridden == {g \in Groups : input.config.workspace_output \in g.outputs}
Birth == {g \in Groups : g.outputs \intersect input.info.outputs # {}}

(* What exempts a window from placement. *)
Exempt ==
  \/ input.toplevel \in input.handled
  \/ input.info.app_id \in input.config.excluded_app_ids
  \/ input.info.title \in input.config.excluded_titles
  \/ ~input.info.cosmic
  \/ input.info.outputs = {}
  \/ input.config.workspace_mode = "same"

(* The group a window belongs in, if there is one: the first listed of those
   that show the overriding output or, when none does, the one with the lowest
   id of those that show an output of the window's own. *)
Chosen ==
  IF Overridden # {}
    THEN {input.groups[i] : i \in {i \in DOMAIN input.groups :
            /\ input.groups[i] \in Overridden
            /\ \A j \in DOMAIN input.groups :
                 input.groups[j] \in Overridden => i <= j}}
    ELSE {g \in Birth : \A h \in Birth : g.id <= h.id}

(* A window is only ever sent to a workspace that is free, in the group it
   belongs in; a workspace is only requested in new-each mode, of a group that
   can create one. *)
PlacementIsSound ==
  Places =>
    \/ /\ answer.action.kind = "Existing"
       /\ \E g \in Chosen : answer.action.workspace \in Free(g)
    \/ /\ answer.action.kind = "Create"
       /\ input.config.workspace_mode = "new-each"
       /\ \E g \in Chosen : g.can_create

(* No window is left alone that could have been placed: a window that nothing
   exempts, and that has a group, is skipped only if that group is full. *)
SkipsAreForced ==
  (Decided /\ ~Places /\ ~Exempt) => \A g \in Chosen : Free(g) = {}

(* Every degradation is reported, and nothing else: the fallback from an
   absent WORKSPACE_OUTPUT even when the window ends up nowhere, the missing
   create_workspace even when no free workspace is left; no window that is
   exempt reports anything. *)
WarnsAreExact ==
  Decided =>
    /\ answer.warns \subseteq {"WorkspaceOutputFallback", "NewEachUnsupported"}
    /\ "WorkspaceOutputFallback" \in answer.warns <=>
         /\ ~Exempt
         /\ input.config.workspace_output # NoOverride
         /\ Overridden = {}
    /\ "NewEachUnsupported" \in answer.warns <=>
         /\ ~Exempt
         /\ input.config.workspace_mode = "new-each"
         /\ \E g \in Chosen : ~g.can_create

(* Unless several groups show the overriding output, of which the first listed
   is taken, the order in which the toolkit lists the groups does not matter:
   every order of them gets the same answer, warnings included. *)
Orders == {order \in [DOMAIN input.groups -> DOMAIN input.groups] :
             \A j \in DOMAIN input.groups :
               \E i \in DOMAIN input.groups : order[i] = j}
Listing(order) == [i \in DOMAIN input.groups |-> input.groups[order[i]]]

OrderIsIrrelevant ==
  (Decided /\ \A g, h \in Overridden : g = h) =>
    \A order \in Orders :
      answer = Decide(input.config, input.info, Listing(order), input.handled,
                      input.toplevel)

(* A deferred placement takes a workspace that was not there before whenever
   one is, occupied or not; it degrades to a free workspace after a cycle and
   never before. *)
PendingIsSound ==
  (answered /\ "before" \in DOMAIN input) =>
    LET W == input.workspaces
        new == {i \in DOMAIN W : W[i].id \notin input.before}
    IN /\ answer.kind = "UseNew" <=> new # {}
       /\ answer.kind = "UseNew" => answer.index \in new
       /\ answer.kind = "DegradeAndWarn" =>
            /\ input.cycles_waited > 0
            /\ answer.index = 0 <=> \A i \in DOMAIN W : W[i].occupied
            /\ answer.index # 0 => ~W[answer.index].occupied
       /\ answer.kind = "KeepWaiting" => input.cycles_waited = 0

(* The variables that can be in error, in the order they are read. *)
Checked == <<"WORKSPACE_MODE", "MAXIMIZE", "SWITCH_TO_WORKSPACE",
             "SWITCH_VERIFY_TIMEOUT_MS", "EXCLUDED_TITLE_REGEX",
             "JUMP_ON_EMPTY">>

(* What each of them may hold: an exact mode; a truth value, dressed or not; a
   number of at most MaxMillis without white space; a valid expression. *)
Spelled(words) == [word : words, dressed : BOOLEAN]
Yes == Spelled(Truthy)
No  == Spelled(Falsy)

Legal ==
  [WORKSPACE_MODE           |-> [word : Modes, dressed : {FALSE}],
   MAXIMIZE                 |-> Yes \union No,
   SWITCH_TO_WORKSPACE      |-> Yes \union No,
   SWITCH_VERIFY_TIMEOUT_MS |-> [ms : 0 .. MaxMillis, spelling : {"plain", "long"}],
   EXCLUDED_TITLE_REGEX     |-> {Empty} \union [regex : Strings \ {""}, valid : {TRUE}],
   JUMP_ON_EMPTY            |-> Yes \union No]

Read == answered /\ "environment" \in DOMAIN input
Given(var) == input.environment[var] \notin {Unset, NotUnicode}
Faulty == {i \in DOMAIN Checked :
             /\ Given(Checked[i])
             /\ input.environment[Checked[i]] \notin Legal[Checked[i]]}

(* An environment is refused exactly if a variable that is given holds what it
   may not; the one named is the first of those, so whoever corrects it is told
   of a later one or served. *)
ErrorsAreExact ==
  Read =>
    /\ answer.ok <=> Faulty = {}
    /\ ~answer.ok =>
         \E i \in Faulty : answer.value = Checked[i] /\ \A j \in Faulty : i <= j

(* In an accepted environment every field has the value that its own variable
   spells, or its default.  No timeout is what the literal "0" asks for and
   nothing else: "00" is a timeout of no time. *)
EnvironmentIsExact ==
  (Read /\ answer.ok) =>
    LET env == input.environment
        config == answer.value
        ms == "SWITCH_VERIFY_TIMEOUT_MS"
        OrNone(var, value) ==
          IF Given(var) /\ env[var] # Empty THEN value ELSE None
    IN /\ config.workspace_mode =
            IF Given("WORKSPACE_MODE") THEN env["WORKSPACE_MODE"].word
                                       ELSE "next-free"
       /\ config.maximize = (env["MAXIMIZE"] \in Yes)
       /\ config.switch_to_workspace = (env["SWITCH_TO_WORKSPACE"] \in Yes)
       /\ config.jump_on_empty = (env["JUMP_ON_EMPTY"] \in Yes)
       /\ config.switch_verify_timeout = None <=>
            env[ms] = [ms |-> 0, spelling |-> "plain"]
       /\ config.switch_verify_timeout \in
            {None, IF Given(ms) THEN env[ms].ms ELSE 250}
       /\ config.excluded_app_ids =
            IF Given("EXCLUDED_APP_IDS") /\ env["EXCLUDED_APP_IDS"] # Empty
              THEN NonEmpty(env["EXCLUDED_APP_IDS"].entries)
              ELSE << >>
       /\ config.excluded_title_regex =
            OrNone("EXCLUDED_TITLE_REGEX", env["EXCLUDED_TITLE_REGEX"].regex)
       /\ config.workspace_output =
            OrNone("WORKSPACE_OUTPUT", env["WORKSPACE_OUTPUT"].output)

=============================================================================
