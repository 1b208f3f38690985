----------------------------- MODULE Placement ------------------------------
(***************************************************************************)
(* The placement policy, src/placement.rs (decide and its helpers), and    *)
(* the decision about a deferred placement, runtime.rs (evaluate_pending), *)
(* as operators.                                                           *)
(*                                                                         *)
(*   config  excluded_app_ids, excluded_titles (the titles the regular     *)
(*           expression matches), workspace_output (NoOverride, an output, *)
(*           or a name that is not a number), workspace_mode,              *)
(*           switch_to_workspace                                           *)
(*   info    app_id, title, outputs (a set), cosmic (is the COSMIC handle  *)
(*           there)                                                        *)
(*   groups  a sequence, in the toolkit's order, of groups: id, outputs (a *)
(*           set), can_create, and workspaces, a sequence of records id,   *)
(*           occupied                                                      *)
(***************************************************************************)
EXTENDS Naturals, Sequences, SequencesExt

CONSTANTS NoOverride     \* WORKSPACE_OUTPUT is unset

(* Groups and workspaces come in lists. *)
Listed(s) == Len(s) \in Nat /\ DOMAIN s = 1 .. Len(s)
ListedRows(W) == Listed(W) /\ \A i \in DOMAIN W : W[i].occupied \in BOOLEAN

Skip(reason) == [kind |-> "Skip", reason |-> reason]
PlaceOn(w)   == [kind |-> "Existing", workspace |-> w]
Create       == [kind |-> "Create"]

(* The guards of decide in their order; the first that holds is the reason. *)
EarlySkip(config, info, handled, toplevel) ==
  LET guards == << <<toplevel \in handled, "AlreadyHandled">>,
                   <<info.app_id \in config.excluded_app_ids, "ExcludedByAppId">>,
                   <<info.title \in config.excluded_titles, "ExcludedByTitle">>,
                   <<~info.cosmic, "NoCosmicToplevel">>,
                   <<info.outputs = {}, "NoOutputs">>,
                   <<config.workspace_mode = "same", "WorkspaceModeSame">>,
                   <<TRUE, "none">> >>
  IN guards[SelectInSeq(guards, LAMBDA guard : guard[1])][2]

(* select_group.  Index 0 stands for None. *)
OverrideGroup(config, groups) ==
  SelectInSeq(groups, LAMBDA g : config.workspace_output \in g.outputs)

Candidates(info, groups) ==
  {i \in DOMAIN groups : groups[i].outputs \intersect info.outputs # {}}

(* Mutants: the highest id, or the first listed, instead of the lowest id. *)
BirthGroupHighest(info, groups) ==
  IF Candidates(info, groups) = {} THEN 0
  ELSE CHOOSE i \in Candidates(info, groups) :
         \A j \in Candidates(info, groups) : groups[i].id >= groups[j].id

BirthGroupFirst(info, groups) ==
  SelectInSeq(groups, LAMBDA g : g.outputs \intersect info.outputs # {})

BirthGroup(info, groups) ==
  IF Candidates(info, groups) = {} THEN 0
  ELSE CHOOSE i \in Candidates(info, groups) :
         \A j \in Candidates(info, groups) : groups[i].id <= groups[j].id

(* Mutant: an override that is there is reported as absent. *)
FallsBackAlways(config, groups) == config.workspace_output # NoOverride

FallsBack(config, groups) ==
  /\ config.workspace_output # NoOverride
  /\ OverrideGroup(config, groups) = 0

SelectGroup(config, info, groups) ==
  IF OverrideGroup(config, groups) # 0 THEN OverrideGroup(config, groups)
  ELSE BirthGroup(info, groups)

(* select_workspace *)
(* Mutant: occupied workspaces are taken too. *)
NextFreeTakesAny(workspaces) ==
  IF workspaces = << >> THEN Skip("NoMatchingGroup")
  ELSE PlaceOn(workspaces[1].id)

NextFree(workspaces) ==
  LET i == SelectInSeq(workspaces, LAMBDA w : ~w.occupied)
  IN IF i = 0 THEN Skip("NoMatchingGroup") ELSE PlaceOn(workspaces[i].id)

(* Mutant: nothing is said when there is no free workspace either. *)
UnsupportedIfPlaced(config, group) ==
  /\ config.workspace_mode = "new-each" /\ ~group.can_create
  /\ NextFree(group.workspaces).kind # "Skip"

Unsupported(config, group) ==
  config.workspace_mode = "new-each" /\ ~group.can_create

SelectWorkspace(config, group) ==
  IF config.workspace_mode = "new-each" /\ group.can_create THEN Create
  ELSE NextFree(group.workspaces)

(* decide: the action, and the warnings the caller must log. *)
Decide(config, info, groups, handled, toplevel) ==
  LET early == EarlySkip(config, info, handled, toplevel)
      g     == SelectGroup(config, info, groups)
      fallback == IF FallsBack(config, groups)
                    THEN {"WorkspaceOutputFallback"} ELSE {}
  IN IF early # "none" THEN [action |-> Skip(early), warns |-> {}]
     ELSE IF g = 0 THEN [action |-> Skip("NoMatchingGroup"), warns |-> fallback]
     ELSE [action |-> SelectWorkspace(config, groups[g]),
           warns  |-> fallback \union (IF Unsupported(config, groups[g])
                                         THEN {"NewEachUnsupported"} ELSE {})]

(* evaluate_pending, on the group's workspaces as records id, occupied. *)

(* A placement is given up after one cycle.  Mutants: at once; after two. *)
OverdueAtOnce(cycles_waited) == cycles_waited >= 0
OverdueAfterTwo(cycles_waited) == cycles_waited >= 2

Overdue(cycles_waited) == cycles_waited >= 1

(* Mutant: a placement given up goes to the first workspace, free or not. *)
EvaluatePendingTakesAny(before, workspaces, cycles_waited) ==
  LET new == SelectInSeq(workspaces, LAMBDA w : w.id \notin before)
  IN IF new # 0 THEN [kind |-> "UseNew", index |-> new]
     ELSE IF Overdue(cycles_waited)
       THEN [kind |-> "DegradeAndWarn", index |-> IF workspaces = << >> THEN 0 ELSE 1]
     ELSE [kind |-> "KeepWaiting", index |-> 0]

EvaluatePending(before, workspaces, cycles_waited) ==
  LET new  == SelectInSeq(workspaces, LAMBDA w : w.id \notin before)
      free == SelectInSeq(workspaces, LAMBDA w : ~w.occupied)
  IN IF new # 0 THEN [kind |-> "UseNew", index |-> new]
     ELSE IF Overdue(cycles_waited) THEN [kind |-> "DegradeAndWarn", index |-> free]
     ELSE [kind |-> "KeepWaiting", index |-> 0]
=============================================================================
