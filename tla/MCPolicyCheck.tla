--------------------------- MODULE MCPolicyCheck ----------------------------
(***************************************************************************)
(* PolicyCheck for TLC: two outputs, two groups of up to two workspaces in *)
(* either order, an override that is not set, shown or shown by no group,   *)
(* and every mode.                                                         *)
(***************************************************************************)
EXTENDS PolicyCheck

Outputs == {"o1", "o2"}

Rows(a, b) ==     \* what a group may hold, its workspaces being a and b
  { << >>,
    <<[id |-> a, occupied |-> TRUE]>>,
    <<[id |-> a, occupied |-> TRUE], [id |-> b, occupied |-> FALSE]>>,
    <<[id |-> a, occupied |-> FALSE], [id |-> b, occupied |-> FALSE]>> }

GroupOf(id, a, b) ==
  [id : {id}, outputs : (SUBSET Outputs) \ {{}}, can_create : BOOLEAN,
   workspaces : Rows(a, b)]

World == {<<g, h>> : g \in GroupOf(1, 11, 12), h \in GroupOf(2, 21, 22)}
           \union {<<h, g>> : g \in GroupOf(1, 11, 12), h \in GroupOf(2, 21, 22)}

Config(override, mode) ==
  [excluded_app_ids |-> {"dock"}, excluded_titles |-> {"menu"},
   workspace_output |-> override, workspace_mode |-> mode]

Plain(outputs) ==
  [app_id |-> "app", title |-> "title", outputs |-> outputs, cosmic |-> TRUE]

(* Windows no guard exempts, over every world. *)
Ordinary ==
  [config : {Config(o, m) : o \in {NoOverride, "o1", "absent"},
                            m \in {"next-free", "new-each"}},
   info : {Plain({"o1"}), Plain({"o1", "o2"})},
   groups : World, handled : {{}}, toplevel : {"t"}]

(* Every combination of guards, over one world. *)
Guarded ==
  [config : {Config(o, m) : o \in {NoOverride, "o2", "absent"},
                            m \in {"same", "next-free", "new-each"}},
   info : [app_id : {"app", "dock"}, title : {"title", "menu"},
           outputs : SUBSET Outputs, cosmic : BOOLEAN],
   groups : {<<[id |-> 1, outputs |-> {"o1"}, can_create |-> FALSE,
                workspaces |-> <<[id |-> 11, occupied |-> FALSE]>>],
               [id |-> 2, outputs |-> {"o2"}, can_create |-> FALSE,
                workspaces |-> << >>]>>},
   handled : {{}, {"t"}}, toplevel : {"t"}]

MCInputs == Ordinary \union Guarded

MCPendings ==
  [before : SUBSET {1, 2, 3}, cycles_waited : 0 .. 2,
   workspaces : UNION {{[i \in 1 .. n |-> [id |-> i, occupied |-> o[i]]] :
                          o \in [1 .. n -> BOOLEAN]} : n \in 0 .. 3}]

(* Environments: for every variable unset, good and bad values, a dressed
   boolean, every spelling of zero, a number past the last, not Unicode. *)
MCStrings ==
  {"", "maybe", "jump", "soon", "dock", "panel", "^menu", "[", "DP-1"}
    \union Modes \union Truthy \union Falsy

Word(w)   == [word |-> w, dressed |-> FALSE]
Dressed(w) == [word |-> w, dressed |-> TRUE]
Millis(n, spelling) == [ms |-> n, spelling |-> spelling]

MCEnvironments ==
  [environment :
     [WORKSPACE_MODE : {Unset, NotUnicode, Word("new-each"), Dressed("same"),
                        Word("")},
      MAXIMIZE : {Unset, Word("on"), Word("maybe")},
      SWITCH_TO_WORKSPACE : {Unset, Dressed("off"), Word("true"), Word("")},
      SWITCH_VERIFY_TIMEOUT_MS :
        {Unset, Millis(0, "plain"), Millis(0, "long"), Millis(5, "padded"),
         Millis(MaxMillis, "plain"), Millis(MaxMillis + 1, "plain"),
         Word("soon")},
      EXCLUDED_APP_IDS : {Word(""), [entries |-> <<"dock", "", "panel">>]},
      EXCLUDED_TITLE_REGEX : {Unset, Word(""),
                              [regex |-> "^menu", valid |-> TRUE],
                              [regex |-> "[", valid |-> FALSE]},
      WORKSPACE_OUTPUT : {NotUnicode, Word(""), [output |-> "DP-1"]},
      JUMP_ON_EMPTY : {Unset, Dressed("yes"), Word("yes"), Dressed("jump")}]]
=============================================================================
