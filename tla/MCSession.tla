----------------------------- MODULE MCSession ------------------------------
(***************************************************************************)
(* Session for TLC: the configurations, windows and worlds of its runs.    *)
(***************************************************************************)
EXTENDS Session, TLC

Config(mode, override, switch, jump, verify) ==
  [excluded_app_ids |-> {"dock"}, excluded_titles |-> {},
   workspace_output |-> override, workspace_mode |-> mode,
   switch_to_workspace |-> switch, maximize |-> FALSE,
   jump_on_empty |-> jump, verify |-> verify]

NewEachConfigs  == {Config("new-each", NoOverride, FALSE, FALSE, FALSE)}
JumpConfigs     == {Config("next-free", NoOverride, FALSE, TRUE, FALSE)}
SwitchConfigs   == {Config("next-free", NoOverride, TRUE, FALSE, v) : v \in BOOLEAN}
                     \union {Config("new-each", NoOverride, TRUE, FALSE, TRUE)}
OverrideConfigs == {[Config("new-each", 101, FALSE, FALSE, FALSE)
                       EXCEPT !.maximize = TRUE]}
QueueConfigs    == NewEachConfigs \union OverrideConfigs

Plain(outputs) ==
  [app_id |-> "app", title |-> "title", outputs |-> outputs, cosmic |-> TRUE]
OneInfo  == {Plain({101})}
TwoInfos == {Plain({101}), Plain({102})}

Group(id, output) == [id |-> id, outputs |-> {output}, can_create |-> TRUE]

OneGroup(n) ==
  [groups |-> <<Group(1, 101)>>, workspaces |-> [i \in 1 .. n |-> i],
   home |-> [i \in 1 .. n |-> 1], active |-> {1}]

TwoGroups ==
  [groups |-> <<Group(1, 101), Group(2, 102)>>, workspaces |-> <<1, 2, 3>>,
   home |-> [i \in 1 .. 3 |-> IF i = 3 THEN 2 ELSE 1], active |-> {1, 3}]

Symmetry == Permutations(Windows)

One1 == {OneGroup(1)}
One2 == {OneGroup(2)}
Two  == {TwoGroups}
=============================================================================
