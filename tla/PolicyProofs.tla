---------------------------- MODULE PolicyProofs ----------------------------
(***************************************************************************)
(* Proofs about the placement policy, for every list of groups and every   *)
(* window, configuration and queue entry: the questions are not bounded.   *)
(***************************************************************************)
EXTENDS PolicyCheck, OperatorProofs

-----------------------------------------------------------------------------
(* The answer given is the one of the code to the question that stands. *)
AnswerIsTheCodes ==
  /\ input \in Inputs \union Pendings \union Environments
  /\ (answered /\ "config" \in DOMAIN input) =>
       answer = Decide(input.config, input.info, input.groups, input.handled,
                       input.toplevel)
  /\ (answered /\ "before" \in DOMAIN input) =>
       answer = EvaluatePending(input.before, input.workspaces,
                                input.cycles_waited)
  /\ (answered /\ "environment" \in DOMAIN input) =>
       answer = FromEnv(input.environment)

LEMMA AnswersAreTheCodes == Spec => []AnswerIsTheCodes
<1>1. Init => AnswerIsTheCodes
  BY DEF Init, AnswerIsTheCodes
<1>2. AnswerIsTheCodes /\ [Next]_vars => AnswerIsTheCodes'
  <2> SUFFICES ASSUME AnswerIsTheCodes, [Next]_vars
               PROVE  AnswerIsTheCodes'
    OBVIOUS
  <2>1. CASE DecidePlacement
    BY <2>1, PolicyAssumption DEF AnswerIsTheCodes, DecidePlacement
  <2>2. CASE DecidePending
    BY <2>2, PolicyAssumption DEF AnswerIsTheCodes, DecidePending
  <2>3. CASE ReadEnvironment
    BY <2>3, PolicyAssumption DEF AnswerIsTheCodes, ReadEnvironment
  <2>4. CASE UNCHANGED vars
    BY <2>4 DEF AnswerIsTheCodes, vars
  <2> QED BY <2>1, <2>2, <2>3, <2>4 DEF Next
<1> QED BY <1>1, <1>2, PTL DEF Spec

-----------------------------------------------------------------------------
(* The answer about a deferred placement is sound, whatever was asked. *)
THEOREM DeferredAnswersAreSound == Spec => []PendingIsSound
<1>1. AnswerIsTheCodes => PendingIsSound
  <2> SUFFICES ASSUME AnswerIsTheCodes, answered, "before" \in DOMAIN input
               PROVE  PendingIsSound
    BY DEF PendingIsSound
  <2>1. input \in Pendings
    BY PolicyAssumption DEF AnswerIsTheCodes
  <2>2. ListedRows(input.workspaces) /\ input.cycles_waited \in Nat
    BY <2>1, PolicyAssumption
  <2>3. answer = EvaluatePending(input.before, input.workspaces,
                                 input.cycles_waited)
    BY DEF AnswerIsTheCodes
  <2> QED BY <2>2, <2>3, EvaluatePendingIsSound DEF PendingIsSound
<1> QED BY <1>1, AnswersAreTheCodes, PTL

-----------------------------------------------------------------------------
(* The guards of decide: none holds exactly if decide goes on. *)
LEMMA GuardsExempt ==
  ASSUME input.info.cosmic \in BOOLEAN
  PROVE  EarlySkip(input.config, input.info, input.handled, input.toplevel)
           # "none" <=> Exempt
<1> DEFINE config == input.config
           info == input.info
           handled == input.handled
           toplevel == input.toplevel
<1> DEFINE guards == << <<toplevel \in handled, "AlreadyHandled">>,
                   <<info.app_id \in config.excluded_app_ids, "ExcludedByAppId">>,
                   <<info.title \in config.excluded_titles, "ExcludedByTitle">>,
                   <<~info.cosmic, "NoCosmicToplevel">>,
                   <<info.outputs = {}, "NoOutputs">>,
                   <<config.workspace_mode = "same", "WorkspaceModeSame">>,
                   <<TRUE, "none">> >>
           holds == {i \in 1 .. Len(guards) : guards[i][1]}
<1>1. EarlySkip(config, info, handled, toplevel) =
        guards[IF holds # {} THEN Min(holds) ELSE 0][2]
  BY DEF EarlySkip, SelectInSeq
<1>2. Len(guards) = 7
  OBVIOUS
<1>3. /\ guards[1] = <<toplevel \in handled, "AlreadyHandled">>
      /\ guards[2] = <<info.app_id \in config.excluded_app_ids, "ExcludedByAppId">>
      /\ guards[3] = <<info.title \in config.excluded_titles, "ExcludedByTitle">>
      /\ guards[4] = <<~info.cosmic, "NoCosmicToplevel">>
      /\ guards[5] = <<info.outputs = {}, "NoOutputs">>
      /\ guards[6] = <<config.workspace_mode = "same", "WorkspaceModeSame">>
      /\ guards[7] = <<TRUE, "none">>
  OBVIOUS
<1> HIDE DEF guards
<1>4. /\ guards[1][1] = (toplevel \in handled)
      /\ guards[2][1] = (info.app_id \in config.excluded_app_ids)
      /\ guards[3][1] = (info.title \in config.excluded_titles)
      /\ guards[4][1] = (~info.cosmic)
      /\ guards[5][1] = (info.outputs = {})
      /\ guards[6][1] = (config.workspace_mode = "same")
      /\ guards[7][1] = (TRUE)
  <2>1. guards[1][1] = (toplevel \in handled)
    BY <1>3
  <2>2. guards[2][1] = (info.app_id \in config.excluded_app_ids)
    BY <1>3
  <2>3. guards[3][1] = (info.title \in config.excluded_titles)
    BY <1>3
  <2>4. guards[4][1] = (~info.cosmic)
    BY <1>3
  <2>5. guards[5][1] = (info.outputs = {})
    BY <1>3
  <2>6. guards[6][1] = (config.workspace_mode = "same")
    BY <1>3
  <2>7. guards[7][1] = (TRUE)
    BY <1>3
  <2> QED BY <2>1, <2>2, <2>3, <2>4, <2>5, <2>6, <2>7
<1>5. \A i \in 1 .. 7 : guards[i][2] = "none" <=> i = 7
  BY <1>3
<1>6. 7 \in holds /\ holds \subseteq 1 .. 7
  BY <1>2, <1>4
<1>7. Exempt <=> \E i \in 1 .. 6 : i \in holds
  <2>a. 1 \in 1 .. 7 /\ 2 \in 1 .. 7 /\ 3 \in 1 .. 7 /\ 4 \in 1 .. 7
        /\ 5 \in 1 .. 7 /\ 6 \in 1 .. 7
    OBVIOUS
  <2>b. \A i \in 1 .. 7 : i \in holds <=> guards[i][1]
    BY <1>2, Zenon
  <2>1. 1 \in holds <=> toplevel \in handled
    BY <1>4, <2>a, <2>b, Zenon
  <2>2. 2 \in holds <=> info.app_id \in config.excluded_app_ids
    BY <1>4, <2>a, <2>b, Zenon
  <2>3. 3 \in holds <=> info.title \in config.excluded_titles
    BY <1>4, <2>a, <2>b, Zenon
  <2>4. 4 \in holds <=> ~info.cosmic
    BY <1>4, <2>a, <2>b, Zenon
  <2>5. 5 \in holds <=> info.outputs = {}
    BY <1>4, <2>a, <2>b, Zenon
  <2>6. 6 \in holds <=> config.workspace_mode = "same"
    BY <1>4, <2>a, <2>b, Zenon
  <2>7. (\E i \in 1 .. 6 : i \in holds) <=>
          \/ 1 \in holds \/ 2 \in holds \/ 3 \in holds
          \/ 4 \in holds \/ 5 \in holds \/ 6 \in holds
    <3> HIDE DEF holds
    <3> QED OBVIOUS
  <2> HIDE DEF holds
  <2> QED BY <2>1, <2>2, <2>3, <2>4, <2>5, <2>6, <2>7 DEF Exempt
<1> HIDE DEF holds
<1>8. holds \subseteq Nat /\ holds # {}
  BY <1>6
<1>9. Min(holds) \in holds /\ \A i \in holds : Min(holds) <= i
  BY <1>8, MinIsLeast
<1>10. Min(holds) \in 1 .. 7 /\ (Min(holds) # 7 <=> \E i \in 1 .. 6 : i \in holds)
  <2> DEFINE least == Min(holds)
  <2>1. least \in holds /\ \A i \in holds : least <= i
    BY <1>9
  <2> HIDE DEF least
  <2>2. least \in 1 .. 7 /\ (least # 7 => least \in 1 .. 6)
    BY <1>6, <2>1
  <2>3. ASSUME NEW i \in 1 .. 6, i \in holds PROVE least # 7
    BY <2>1, <2>2, <2>3
  <2>4. least \in 1 .. 7 /\ (least # 7 <=> \E i \in 1 .. 6 : i \in holds)
    BY <2>1, <2>2, <2>3
  <2> QED BY <2>4 DEF least
<1>11. EarlySkip(config, info, handled, toplevel) = guards[Min(holds)][2]
  BY <1>1, <1>8
<1> QED BY <1>5, <1>7, <1>10, <1>11

-----------------------------------------------------------------------------
(* The group that decide chooses is the one the window belongs in. *)
LEMMA SelectedIsChosen ==
  ASSUME WellListed(input.groups)
  PROVE  LET g == SelectGroup(input.config, input.info, input.groups)
         IN /\ g = 0 => Chosen = {}
            /\ g # 0 => g \in DOMAIN input.groups /\ Chosen = {input.groups[g]}
<1> DEFINE groups == input.groups
           over == {i \in DOMAIN groups :
                      input.config.workspace_output \in groups[i].outputs}
           own  == {i \in DOMAIN groups :
                      groups[i].outputs \intersect input.info.outputs # {}}
           o == OverrideGroup(input.config, groups)
           b == BirthGroup(input.info, groups)
<1>1. /\ o = 0 <=> over = {}
      /\ over # {} => o \in over /\ \A j \in over : o <= j
  BY OverrideIsFound DEF WellListed, ListedGroups
<1>2. /\ b = 0 <=> own = {}
      /\ own # {} => b \in own /\ \A j \in own : groups[b].id <= groups[j].id
  BY BirthGroupIsLowest DEF WellListed
<1>3. /\ Overridden = {groups[i] : i \in over}
      /\ Birth = {groups[i] : i \in own}
  BY DEF Overridden, Birth, Groups
<1>4. SelectGroup(input.config, input.info, input.groups) = IF o # 0 THEN o ELSE b
  BY DEF SelectGroup
<1>5. DOMAIN groups \subseteq Nat /\ 0 \notin DOMAIN groups
  BY DEF WellListed, ListedGroups, Listed
<1>6. \A i \in DOMAIN groups : groups[i] \in Overridden <=> i \in over
  BY DEF Overridden, Groups
<1> HIDE DEF o, b
<1>7. CASE over # {}
  <2>1. Overridden # {}
    BY <1>3, <1>7
  <2>2. Chosen = {groups[i] : i \in {i \in DOMAIN groups :
                     /\ groups[i] \in Overridden
                     /\ \A j \in DOMAIN groups : groups[j] \in Overridden => i <= j}}
    BY <2>1 DEF Chosen
  <2>3. {i \in DOMAIN groups :
           /\ groups[i] \in Overridden
           /\ \A j \in DOMAIN groups : groups[j] \in Overridden => i <= j} = {o}
    <3>1. o \in over /\ o \in DOMAIN groups /\ \A j \in over : o <= j
      BY <1>1, <1>7
    <3>2. ASSUME NEW i \in DOMAIN groups, i \in over, \A j \in over : i <= j
          PROVE  i = o
      BY <1>5, <3>1, <3>2
    <3>3. over \subseteq DOMAIN groups
      OBVIOUS
    <3> HIDE DEF over, groups
    <3>4. ASSUME NEW i \in DOMAIN groups
          PROVE  (/\ groups[i] \in Overridden
                  /\ \A j \in DOMAIN groups : groups[j] \in Overridden => i <= j)
                   <=> i = o
      BY <1>6, <3>1, <3>2, <3>3
    <3> QED BY <3>1, <3>4
  <2>4. Chosen = {groups[o]}
    BY <2>2, <2>3
  <2> QED BY <1>1, <1>4, <1>5, <1>7, <2>4
<1>8. CASE over = {}
  <2>1. Overridden = {}
    BY <1>3, <1>8
  <2>2. Chosen = {g \in Birth : \A h \in Birth : g.id <= h.id}
    BY <2>1 DEF Chosen
  <2>3. CASE own = {}
    BY <1>1, <1>2, <1>3, <1>4, <1>8, <2>2, <2>3
  <2>4. CASE own # {}
    <3>1. b \in own /\ \A j \in own : groups[b].id <= groups[j].id
      BY <1>2, <2>4
    <3>2. b \in DOMAIN groups
      BY <3>1
    <3>3. groups[b] \in Chosen
      BY <1>3, <2>2, <3>1
    <3>4. ASSUME NEW g \in Chosen PROVE g = groups[b]
      <4>1. PICK i \in own : g = groups[i]
        BY <1>3, <2>2
      <4>2. g.id <= groups[b].id /\ groups[b].id <= groups[i].id
        BY <1>3, <2>2, <3>1
      <4>3. groups[i].id \in Nat /\ groups[b].id \in Nat
        BY <3>2 DEF WellListed, ListedGroups
      <4>4. i = b
        BY <3>2, <4>1, <4>2, <4>3 DEF WellListed
      <4> QED BY <4>1, <4>4
    <3>5. Chosen = {groups[b]}
      BY <3>3, <3>4
    <3> QED BY <1>1, <1>2, <1>4, <1>8, <2>4, <3>2, <3>5
  <2> QED BY <2>3, <2>4
<1> QED BY <1>7, <1>8

(* What the assumption says of the question that stands, and what is known of
   the answer to it. *)
LEMMA QuestionIsWellFormed ==
  ASSUME AnswerIsTheCodes, Decided
  PROVE  /\ WellListed(input.groups)
         /\ input.info.cosmic \in BOOLEAN
         /\ \A i \in DOMAIN input.groups : input.groups[i].can_create \in BOOLEAN
         /\ answer = Decide(input.config, input.info, input.groups,
                            input.handled, input.toplevel)
<1>1. input \in Inputs
  BY PolicyAssumption DEF AnswerIsTheCodes, Decided
<1> QED BY <1>1, PolicyAssumption DEF AnswerIsTheCodes, Decided, WellListed,
                                                       ListedGroups

(* A window is placed only on a free workspace of the group it belongs in. *)
THEOREM PlacementsAreSound == Spec => []PlacementIsSound
<1>1. AnswerIsTheCodes => PlacementIsSound
  <2> SUFFICES ASSUME AnswerIsTheCodes, Places
               PROVE  \/ /\ answer.action.kind = "Existing"
                         /\ \E g \in Chosen : answer.action.workspace \in Free(g)
                      \/ /\ answer.action.kind = "Create"
                         /\ input.config.workspace_mode = "new-each"
                         /\ \E g \in Chosen : g.can_create
    BY DEF PlacementIsSound
  <2> DEFINE g == SelectGroup(input.config, input.info, input.groups)
             group == input.groups[g]
  <2>1. WellListed(input.groups)
    BY QuestionIsWellFormed DEF Places
  <2>2. g # 0 /\ answer.action = SelectWorkspace(input.config, group)
    BY QuestionIsWellFormed, DecideByCases DEF Places
  <2>3. g \in DOMAIN input.groups /\ group \in Chosen
    BY <2>1, <2>2, SelectedIsChosen
  <2>4. ListedRows(group.workspaces)
    BY <2>1, <2>3 DEF WellListed, ListedGroups
  <2> HIDE DEF g
  <2>5. CASE input.config.workspace_mode = "new-each" /\ group.can_create
    BY <2>2, <2>3, <2>5 DEF SelectWorkspace, Create
  <2>6. CASE ~(input.config.workspace_mode = "new-each" /\ group.can_create)
    <3>1. answer.action = NextFree(group.workspaces)
      BY <2>2, <2>6 DEF SelectWorkspace
    <3>2. answer.action.kind # "Skip"
      BY DEF Places
    <3>3. PICK i \in DOMAIN group.workspaces :
            /\ ~group.workspaces[i].occupied
            /\ NextFree(group.workspaces) = PlaceOn(group.workspaces[i].id)
      BY <2>4, <3>1, <3>2, NextFreeIsFree
    <3>4. /\ answer.action.kind = "Existing"
          /\ answer.action.workspace \in Free(group)
      BY <3>1, <3>3 DEF PlaceOn, Free
    <3> QED BY <2>3, <3>4
  <2> QED BY <2>5, <2>6
<1> QED BY <1>1, AnswersAreTheCodes, PTL

(* A window that nothing exempts is skipped only if its group is full. *)
THEOREM SkipsAreForcedOnly == Spec => []SkipsAreForced
<1>1. AnswerIsTheCodes => SkipsAreForced
  <2> SUFFICES ASSUME AnswerIsTheCodes, Decided, ~Places, ~Exempt,
                      NEW chosen \in Chosen
               PROVE  Free(chosen) = {}
    BY DEF SkipsAreForced
  <2> DEFINE g == SelectGroup(input.config, input.info, input.groups)
             group == input.groups[g]
  <2>1. WellListed(input.groups) /\ input.info.cosmic \in BOOLEAN
    BY QuestionIsWellFormed
  <2>2. g # 0 /\ g \in DOMAIN input.groups /\ chosen = group
    BY <2>1, SelectedIsChosen
  <2>3. EarlySkip(input.config, input.info, input.handled, input.toplevel) = "none"
    BY <2>1, GuardsExempt
  <2>4. answer.action = SelectWorkspace(input.config, group)
    BY <2>2, <2>3, QuestionIsWellFormed, DecideByCases
  <2>5. ListedRows(group.workspaces)
    BY <2>1, <2>2 DEF WellListed, ListedGroups
  <2> HIDE DEF g
  <2>6. answer.action.kind = "Skip"
    BY DEF Places
  <2>7. NextFree(group.workspaces).kind = "Skip"
    BY <2>4, <2>6 DEF SelectWorkspace, Create
  <2>8. Free(group) = {}
    BY <2>5, <2>7, NextFreeIsFree DEF Free
  <2> QED BY <2>2, <2>8
<1> QED BY <1>1, AnswersAreTheCodes, PTL

(* Each warning is given exactly when what it reports is the case. *)
THEOREM WarnsAreExactAlways == Spec => []WarnsAreExact
<1>1. AnswerIsTheCodes => WarnsAreExact
  <2> SUFFICES ASSUME AnswerIsTheCodes, Decided
               PROVE  WarnsAreExact
    BY DEF WarnsAreExact
  <2> DEFINE early == EarlySkip(input.config, input.info, input.handled,
                                input.toplevel)
             g == SelectGroup(input.config, input.info, input.groups)
             group == input.groups[g]
             fallback == IF FallsBack(input.config, input.groups)
                           THEN {"WorkspaceOutputFallback"} ELSE {}
             unsupported == IF Unsupported(input.config, group)
                              THEN {"NewEachUnsupported"} ELSE {}
  <2>1. WellListed(input.groups) /\ input.info.cosmic \in BOOLEAN
    BY QuestionIsWellFormed
  <2>2. /\ early # "none" => answer.warns = {}
        /\ early = "none" /\ g = 0 => answer.warns = fallback
        /\ early = "none" /\ g # 0 => answer.warns = fallback \union unsupported
    BY QuestionIsWellFormed, DecideByCases
  <2>3. early # "none" <=> Exempt
    BY <2>1, GuardsExempt
  <2>4. FallsBack(input.config, input.groups) <=>
          input.config.workspace_output # NoOverride /\ Overridden = {}
    <3>1. Listed(input.groups)
      BY <2>1 DEF WellListed, ListedGroups
    <3>2. OverrideGroup(input.config, input.groups) = 0 <=> Overridden = {}
      BY <3>1, OverrideIsFound DEF Overridden, Groups
    <3> QED BY <3>2 DEF FallsBack
  <2>5. (g # 0 /\ Unsupported(input.config, group)) <=>
          /\ input.config.workspace_mode = "new-each"
          /\ \E h \in Chosen : ~h.can_create
    <3>1. (g = 0 => Chosen = {}) /\ (g # 0 => Chosen = {group})
      BY <2>1, SelectedIsChosen
    <3> HIDE DEF g
    <3> QED BY <3>1 DEF Unsupported
  <2> HIDE DEF early, g
  <2>6. answer.warns \subseteq {"WorkspaceOutputFallback", "NewEachUnsupported"}
    BY <2>2
  <2>7. "WorkspaceOutputFallback" \in answer.warns <=>
          /\ ~Exempt
          /\ input.config.workspace_output # NoOverride
          /\ Overridden = {}
    BY <2>2, <2>3, <2>4
  <2>8. "NewEachUnsupported" \in answer.warns <=>
          /\ ~Exempt
          /\ input.config.workspace_mode = "new-each"
          /\ \E h \in Chosen : ~h.can_create
    BY <2>2, <2>3, <2>5
  <2> QED BY <2>6, <2>7, <2>8 DEF WarnsAreExact
<1> QED BY <1>1, AnswersAreTheCodes, PTL

-----------------------------------------------------------------------------
(* Listing the groups in another order keeps them all, and adds none. *)
LEMMA ListingHasAll ==
  ASSUME WellListed(input.groups), NEW order \in Orders
  PROVE  LET groups == input.groups
             listing == Listing(order)
         IN /\ ListedGroups(listing)
            /\ \A i \in DOMAIN listing : \E j \in DOMAIN groups : listing[i] = groups[j]
            /\ \A j \in DOMAIN groups : \E i \in DOMAIN listing : listing[i] = groups[j]
<1> DEFINE groups == input.groups
           listing == Listing(order)
<1>1. Len(groups) \in Nat /\ DOMAIN groups = 1 .. Len(groups)
  BY DEF WellListed, ListedGroups, Listed
<1>2. /\ \A i \in DOMAIN groups : order[i] \in DOMAIN groups
      /\ \A j \in DOMAIN groups : \E i \in DOMAIN groups : order[i] = j
  BY DEF Orders
<1>3. /\ DOMAIN listing = DOMAIN groups
      /\ \A i \in DOMAIN groups : listing[i] = groups[order[i]]
  BY DEF Listing
<1>4. Listed(listing)
  <2>1. listing = [i \in 1 .. Len(groups) |-> groups[order[i]]]
    BY <1>1 DEF Listing
  <2>2. Len(listing) = Len(groups)
    BY <1>1, <2>1
  <2> QED BY <1>1, <1>3, <2>2 DEF Listed
<1> HIDE DEF listing
<1>5. \A i \in DOMAIN listing : listing[i].id \in Nat /\ ListedRows(listing[i].workspaces)
  BY <1>2, <1>3 DEF WellListed, ListedGroups
<1> HIDE DEF groups
<1>6. \A i \in DOMAIN listing : \E j \in DOMAIN groups : listing[i] = groups[j]
  BY <1>2, <1>3
<1>7. \A j \in DOMAIN groups : \E i \in DOMAIN listing : listing[i] = groups[j]
  BY <1>2, <1>3
<1> QED BY <1>4, <1>5, <1>6, <1>7 DEF ListedGroups, listing, groups

(* The group that shows the override, if only one does, is found in any order. *)
LEMMA OverrideInAnyOrder ==
  ASSUME WellListed(input.groups), NEW order \in Orders,
         \A g, h \in Overridden : g = h
  PROVE  LET o == OverrideGroup(input.config, input.groups)
             r == OverrideGroup(input.config, Listing(order))
         IN /\ o = 0 <=> r = 0
            /\ o # 0 => Listing(order)[r] = input.groups[o]
<1> DEFINE groups == input.groups
           listing == Listing(order)
           Shows(g) == input.config.workspace_output \in g.outputs
           over == {i \in DOMAIN groups : Shows(groups[i])}
           anew == {i \in DOMAIN listing : Shows(listing[i])}
           o == OverrideGroup(input.config, groups)
           r == OverrideGroup(input.config, listing)
<1>1. ListedGroups(listing)
  BY ListingHasAll
<1>2. /\ \A i \in DOMAIN listing : \E j \in DOMAIN groups : listing[i] = groups[j]
      /\ \A j \in DOMAIN groups : \E i \in DOMAIN listing : listing[i] = groups[j]
  BY ListingHasAll
<1>3. (o = 0 <=> over = {}) /\ (over # {} => o \in over)
  BY OverrideIsFound DEF WellListed, ListedGroups
<1>4. (r = 0 <=> anew = {}) /\ (anew # {} => r \in anew)
  BY <1>1, OverrideIsFound DEF ListedGroups
<1> HIDE DEF o, r, listing
<1>5. over = {} <=> anew = {}
  BY <1>2
<1>6. ASSUME o # 0 PROVE listing[r] = groups[o]
  <2>1. o \in over /\ r \in anew
    BY <1>3, <1>4, <1>5, <1>6
  <2>2. PICK j \in DOMAIN groups : listing[r] = groups[j]
    BY <1>2, <2>1
  <2>3. groups[o] \in Overridden /\ groups[j] \in Overridden
    BY <2>1, <2>2 DEF Overridden, Groups
  <2> QED BY <2>2, <2>3
<1> QED BY <1>3, <1>4, <1>5, <1>6 DEF o, r, listing

(* The lowest of a window's own groups is found in any order. *)
LEMMA BirthInAnyOrder ==
  ASSUME WellListed(input.groups), NEW order \in Orders
  PROVE  LET b == BirthGroup(input.info, input.groups)
             r == BirthGroup(input.info, Listing(order))
         IN /\ b = 0 <=> r = 0
            /\ b # 0 => Listing(order)[r] = input.groups[b]
<1> DEFINE groups == input.groups
           listing == Listing(order)
           own == {i \in DOMAIN groups :
                     groups[i].outputs \intersect input.info.outputs # {}}
           anew == {i \in DOMAIN listing :
                      listing[i].outputs \intersect input.info.outputs # {}}
           b == BirthGroup(input.info, groups)
           r == BirthGroup(input.info, listing)
<1>1. ListedGroups(listing)
  BY ListingHasAll
<1>2. /\ \A i \in DOMAIN listing : \E j \in DOMAIN groups : listing[i] = groups[j]
      /\ \A j \in DOMAIN groups : \E i \in DOMAIN listing : listing[i] = groups[j]
  BY ListingHasAll
<1>3. /\ b = 0 <=> own = {}
      /\ own # {} => b \in own /\ \A j \in own : groups[b].id <= groups[j].id
  BY BirthGroupIsLowest DEF WellListed
<1>4. /\ r = 0 <=> anew = {}
      /\ anew # {} => r \in anew /\ \A j \in anew : listing[r].id <= listing[j].id
  BY <1>1, BirthGroupIsLowest
<1> HIDE DEF b, r, listing
<1>5. own = {} <=> anew = {}
  BY <1>2
<1>6. ASSUME b # 0 PROVE listing[r] = groups[b]
  <2>1. b \in own /\ r \in anew
    BY <1>3, <1>4, <1>5, <1>6
  <2>2. PICK j \in DOMAIN groups : listing[r] = groups[j]
    BY <1>2, <2>1
  <2>3. PICK i \in DOMAIN listing : listing[i] = groups[b]
    BY <1>2, <2>1
  <2>4. j \in own /\ i \in anew
    BY <2>1, <2>2, <2>3
  <2>5. groups[b].id <= groups[j].id /\ listing[r].id <= listing[i].id
    BY <1>3, <1>4, <2>4
  <2>6. groups[b].id \in Nat /\ groups[j].id \in Nat
    BY <2>1 DEF WellListed, ListedGroups
  <2>7. groups[b].id = groups[j].id
    BY <2>2, <2>3, <2>5, <2>6
  <2>8. b = j
    BY <2>1, <2>7 DEF WellListed, ListedGroups
  <2> QED BY <2>2, <2>8
<1> QED BY <1>3, <1>4, <1>5, <1>6 DEF b, r, listing

(* Unless several groups show the override, every order of the groups gets the
   same answer. *)
THEOREM OrderNeverMatters == Spec => []OrderIsIrrelevant
<1>1. AnswerIsTheCodes => OrderIsIrrelevant
  <2> SUFFICES ASSUME AnswerIsTheCodes, Decided,
                      \A g, h \in Overridden : g = h, NEW order \in Orders
               PROVE  answer = Decide(input.config, input.info, Listing(order),
                                      input.handled, input.toplevel)
    BY DEF OrderIsIrrelevant
  <2> DEFINE groups == input.groups
             listing == Listing(order)
             g == SelectGroup(input.config, input.info, groups)
             r == SelectGroup(input.config, input.info, listing)
  <2>1. WellListed(groups)
    BY QuestionIsWellFormed
  <2>2. FallsBack(input.config, groups) <=> FallsBack(input.config, listing)
    BY <2>1, OverrideInAnyOrder DEF FallsBack
  <2>3. (g = 0 <=> r = 0) /\ (g # 0 => listing[r] = groups[g])
    BY <2>1, OverrideInAnyOrder, BirthInAnyOrder DEF SelectGroup
  <2>4. answer = Decide(input.config, input.info, groups, input.handled,
                        input.toplevel)
    BY QuestionIsWellFormed
  <2> HIDE DEF listing
  <2>5. Decide(input.config, input.info, groups, input.handled, input.toplevel)
          = Decide(input.config, input.info, listing, input.handled, input.toplevel)
    BY <2>2, <2>3 DEF Decide
  <2> QED BY <2>4, <2>5 DEF listing
<1> QED BY <1>1, AnswersAreTheCodes, PTL

-----------------------------------------------------------------------------
(* The configuration, src/config.rs. *)

(* What the variables that can be in error are read as, in their order. *)
Reads(env) ==
  << ParseMode("WORKSPACE_MODE", Get(env, "WORKSPACE_MODE")),
     ParseBool("MAXIMIZE", Get(env, "MAXIMIZE")),
     ParseBool("SWITCH_TO_WORKSPACE", Get(env, "SWITCH_TO_WORKSPACE")),
     ParseTimeout("SWITCH_VERIFY_TIMEOUT_MS",
                  Get(env, "SWITCH_VERIFY_TIMEOUT_MS")),
     ParseRegex("EXCLUDED_TITLE_REGEX", Get(env, "EXCLUDED_TITLE_REGEX")),
     ParseBool("JUMP_ON_EMPTY", Get(env, "JUMP_ON_EMPTY")) >>

Fields(env) ==
  [workspace_mode        |-> Reads(env)[1].value,
   maximize              |-> Reads(env)[2].value,
   switch_to_workspace   |-> Reads(env)[3].value,
   switch_verify_timeout |-> Reads(env)[4].value,
   excluded_app_ids      |-> ParseAppIds(Get(env, "EXCLUDED_APP_IDS")),
   excluded_title_regex  |-> Reads(env)[5].value,
   workspace_output      |-> ParseOutput(Get(env, "WORKSPACE_OUTPUT")),
   jump_on_empty         |-> Reads(env)[6].value]

Wrong(env) == {i \in 1 .. 6 : ~Reads(env)[i].ok}

LEMMA ReadsAre ==
  ASSUME NEW env
  PROVE  /\ Len(Reads(env)) = 6
         /\ Reads(env)[1] = ParseMode("WORKSPACE_MODE",
                                      Get(env, "WORKSPACE_MODE"))
         /\ Reads(env)[2] = ParseBool("MAXIMIZE", Get(env, "MAXIMIZE"))
         /\ Reads(env)[3] = ParseBool("SWITCH_TO_WORKSPACE",
                                      Get(env, "SWITCH_TO_WORKSPACE"))
         /\ Reads(env)[4] = ParseTimeout("SWITCH_VERIFY_TIMEOUT_MS",
                                         Get(env, "SWITCH_VERIFY_TIMEOUT_MS"))
         /\ Reads(env)[5] = ParseRegex("EXCLUDED_TITLE_REGEX",
                                       Get(env, "EXCLUDED_TITLE_REGEX"))
         /\ Reads(env)[6] = ParseBool("JUMP_ON_EMPTY",
                                      Get(env, "JUMP_ON_EMPTY"))
BY DEF Reads

LEMMA CheckedAre ==
  /\ DOMAIN Checked = 1 .. 6
  /\ Checked[1] = "WORKSPACE_MODE" /\ Checked[2] = "MAXIMIZE"
  /\ Checked[3] = "SWITCH_TO_WORKSPACE"
  /\ Checked[4] = "SWITCH_VERIFY_TIMEOUT_MS"
  /\ Checked[5] = "EXCLUDED_TITLE_REGEX" /\ Checked[6] = "JUMP_ON_EMPTY"
BY DEF Checked

(* from_env_source: all of them are read, or the first wrong one is told. *)
LEMMA FromEnvByCases ==
  ASSUME NEW env
  PROVE  /\ Wrong(env) = {} => FromEnv(env) = Ok(Fields(env))
         /\ Wrong(env) # {} => /\ FromEnv(env) = Reads(env)[Min(Wrong(env))]
                               /\ Min(Wrong(env)) \in Wrong(env)
                               /\ \A j \in Wrong(env) : Min(Wrong(env)) <= j
<1> DEFINE wrong == IF Wrong(env) # {} THEN Min(Wrong(env)) ELSE 0
<1>1. SelectInSeq(Reads(env), LAMBDA result : ~result.ok) = wrong
  BY ReadsAre DEF SelectInSeq, Wrong
<1>2. FromEnv(env) = IF wrong # 0 THEN Reads(env)[wrong] ELSE Ok(Fields(env))
  BY <1>1 DEF FromEnv, Fields, Reads
<1>3. Wrong(env) \subseteq Nat /\ 0 \notin Wrong(env)
  BY DEF Wrong
<1>4. Wrong(env) # {} => /\ Min(Wrong(env)) \in Wrong(env)
                         /\ \A j \in Wrong(env) : Min(Wrong(env)) <= j
  BY <1>3, MinIsLeast
<1> QED BY <1>2, <1>3, <1>4

(* A parser answers with a value, or with the variable's name. *)
LEMMA ParsersReport ==
  ASSUME NEW env, NEW k \in 1 .. 6
  PROVE  /\ Reads(env)[k].ok \in BOOLEAN
         /\ ~Reads(env)[k].ok => Reads(env)[k] = Bad(Checked[k])
<1>1. \A var, v : /\ ParseMode(var, v).ok \in BOOLEAN
                  /\ ~ParseMode(var, v).ok => ParseMode(var, v) = Bad(var)
  BY DEF ParseMode, Ok, Bad
<1>2. \A var, v : /\ ParseBool(var, v).ok \in BOOLEAN
                  /\ ~ParseBool(var, v).ok => ParseBool(var, v) = Bad(var)
  BY DEF ParseBool, Ok, Bad
<1>3. \A var, v : /\ ParseTimeout(var, v).ok \in BOOLEAN
                  /\ ~ParseTimeout(var, v).ok => ParseTimeout(var, v) = Bad(var)
  BY DEF ParseTimeout, Ok, Bad
<1>4. \A var, v : /\ ParseRegex(var, v).ok \in BOOLEAN
                  /\ ~ParseRegex(var, v).ok => ParseRegex(var, v) = Bad(var)
  BY DEF ParseRegex, Ok, Bad
<1>5. k = 1 \/ k = 2 \/ k = 3 \/ k = 4 \/ k = 5 \/ k = 6
  OBVIOUS
<1> QED BY <1>1, <1>2, <1>3, <1>4, <1>5, ReadsAre, CheckedAre

(* No value is Unset. *)
LEMMA ValuesAreSet ==
  \A v \in Text \union Number \union List \union Pattern \union Name :
    v \notin {Unset, NotUnicode}
BY ConfigAssumption

(* A value of one kind is of no other: it has other fields. *)
LEMMA KindsDiffer ==
  /\ \A v \in Text : DOMAIN v = {"word", "dressed"} /\ v.dressed \in BOOLEAN
  /\ \A v \in Number : /\ DOMAIN v = {"ms", "spelling"} /\ v.ms \in Nat
                       /\ v.spelling \in {"plain", "long", "padded"}
  /\ \A v \in List : DOMAIN v = {"entries"}
  /\ \A v \in Pattern : DOMAIN v = {"regex", "valid"} /\ v.valid \in BOOLEAN
  /\ \A v \in Name : DOMAIN v = {"output"}
BY DEF Text, Number, List, Pattern, Name

LEMMA EmptyIsText ==
  Empty \in Text /\ DOMAIN Empty = {"word", "dressed"}
<1>1. "" \in Strings /\ FALSE \in BOOLEAN
  BY ConfigAssumption
<1>2. Empty \in Text
  BY <1>1 DEF Text, Empty
<1>3. DOMAIN Empty = {"word", "dressed"}
  BY DEF Empty
<1> QED BY <1>2, <1>3

(* What a parser makes of a value its variable may hold: an error exactly if
   it is not legal, and otherwise what it spells. *)
LEMMA ModeIsRead ==
  ASSUME NEW env, NEW v, v = env["WORKSPACE_MODE"], v \in Values("WORKSPACE_MODE")
  PROVE  LET result == ParseMode("WORKSPACE_MODE", Get(env, "WORKSPACE_MODE"))
             given == v \notin {Unset, NotUnicode}
         IN /\ ~result.ok <=> given /\ v \notin Legal["WORKSPACE_MODE"]
            /\ result.ok => result.value = IF given THEN v.word ELSE "next-free"
<1>1. CASE v \in {Unset, NotUnicode}
  BY <1>1 DEF Get, ParseMode, Ok
<1>2. CASE v \notin {Unset, NotUnicode}
  <2>1. v \in Text
    BY <1>2, EmptyIsText DEF Values
  <2>2. DOMAIN v = {"word", "dressed"} /\ v.dressed \in BOOLEAN
    BY <2>1, KindsDiffer
  <2>3. v \in Legal["WORKSPACE_MODE"] <=> v.word \in Modes /\ ~v.dressed
    BY <2>1, <2>2 DEF Legal, Text
  <2>4. ParseMode("WORKSPACE_MODE", Get(env, "WORKSPACE_MODE")) =
          IF v.word \in Modes /\ ~v.dressed THEN Ok(v.word) ELSE Bad("WORKSPACE_MODE")
    BY <1>2, <2>2 DEF ParseMode, Get, Has
  <2> QED BY <1>2, <2>3, <2>4 DEF Ok, Bad
<1> QED BY <1>1, <1>2

LEMMA BoolIsRead ==
  ASSUME NEW env, NEW var \in {"MAXIMIZE", "SWITCH_TO_WORKSPACE", "JUMP_ON_EMPTY"},
         env[var] \in Values(var)
  PROVE  LET v == env[var]
             result == ParseBool(var, Get(env, var))
         IN /\ ~result.ok <=> v \notin {Unset, NotUnicode} /\ v \notin Legal[var]
            /\ result.ok => result.value = (v \in Yes)
<1> DEFINE v == env[var]
<1>1. v \in {Unset, NotUnicode} \union Text
  BY EmptyIsText DEF Values
<1>2. Legal[var] = Yes \union No
  <2>1. /\ Legal["MAXIMIZE"] = Yes \union No
        /\ Legal["SWITCH_TO_WORKSPACE"] = Yes \union No
        /\ Legal["JUMP_ON_EMPTY"] = Yes \union No
    BY DEF Legal
  <2> QED BY <2>1
<1>3. Yes \subseteq Text /\ No \subseteq Text
  <2>1. Truthy \subseteq Strings /\ Falsy \subseteq Strings
    BY ConfigAssumption
  <2> QED BY <2>1 DEF Yes, No, Spelled, Text
<1> HIDE DEF v
<1>4. CASE v \in {Unset, NotUnicode}
  <2>1. v \notin Yes
    BY <1>3, <1>4, ValuesAreSet
  <2>2. ParseBool(var, Get(env, var)) = Ok(FALSE)
    BY <1>4 DEF Get, ParseBool, v
  <2>3. (v \in Yes) = FALSE
    BY <2>1
  <2>4. Ok(FALSE).ok = TRUE /\ Ok(FALSE).value = FALSE
    BY DEF Ok
  <2>5. ParseBool(var, Get(env, var)).ok = TRUE
    BY <2>2, <2>4
  <2>6. ParseBool(var, Get(env, var)).value = (v \in Yes)
    BY <2>2, <2>3, <2>4
  <2> QED BY <1>4, <2>5, <2>6 DEF v
<1>5. CASE v \notin {Unset, NotUnicode}
  <2>1. v \in Text /\ DOMAIN v = {"word", "dressed"}
    BY <1>1, <1>5, KindsDiffer, ValuesAreSet
  <2>2. /\ v \in Yes <=> v.word \in Truthy
        /\ v \in No <=> v.word \in Falsy
    BY <2>1 DEF Yes, No, Spelled, Text
  <2>3. ParseBool(var, Get(env, var)) =
          IF v.word \in Truthy \union Falsy THEN Ok(v.word \in Truthy) ELSE Bad(var)
    BY <1>5, <2>1 DEF ParseBool, Get, Has, v
  <2>4. CASE v.word \in Truthy \union Falsy
    <3>1. v \in Legal[var]
      BY <1>2, <2>2, <2>4
    <3>2. (v.word \in Truthy) = (v \in Yes)
      BY <2>2
    <3> QED BY <2>3, <2>4, <3>1, <3>2 DEF Ok, v
  <2>5. CASE v.word \notin Truthy \union Falsy
    <3>1. v \notin Legal[var]
      BY <1>2, <2>2, <2>5
    <3> QED BY <1>5, <2>3, <2>5, <3>1 DEF Bad, v
  <2> QED BY <2>4, <2>5
<1> QED BY <1>4, <1>5

LEMMA TimeoutIsRead ==
  ASSUME NEW env, NEW v, v = env["SWITCH_VERIFY_TIMEOUT_MS"],
         v \in Values("SWITCH_VERIFY_TIMEOUT_MS")
  PROVE  LET result == ParseTimeout("SWITCH_VERIFY_TIMEOUT_MS",
                                    Get(env, "SWITCH_VERIFY_TIMEOUT_MS"))
             given == v \notin {Unset, NotUnicode}
         IN /\ ~result.ok <=> given /\ v \notin Legal["SWITCH_VERIFY_TIMEOUT_MS"]
            /\ result.ok =>
                 /\ result.value = None <=> v = [ms |-> 0, spelling |-> "plain"]
                 /\ result.value \in {None, IF given THEN v.ms ELSE 250}
<1> DEFINE zero == [ms |-> 0, spelling |-> "plain"]
           result == ParseTimeout("SWITCH_VERIFY_TIMEOUT_MS",
                                  Get(env, "SWITCH_VERIFY_TIMEOUT_MS"))
<1>1. zero \in Number /\ zero.ms = 0 /\ zero.spelling = "plain"
  BY DEF Number
<1>2. Legal["SWITCH_VERIFY_TIMEOUT_MS"] =
        [ms : 0 .. MaxMillis, spelling : {"plain", "long"}]
  BY DEF Legal
<1>3. MaxMillis \in Nat /\ None \notin Nat
  BY ConfigAssumption
<1> HIDE DEF zero
<1>4. CASE v \in {Unset, NotUnicode}
  <2>1. result = Ok(250)
    BY <1>4 DEF Get, ParseTimeout
  <2>2. v # zero
    BY <1>1, <1>4, ValuesAreSet
  <2> QED BY <1>3, <1>4, <2>1, <2>2 DEF Ok, zero
<1>5. CASE v \in Text
  <2>1. DOMAIN v = {"word", "dressed"} /\ v \notin {Unset, NotUnicode}
    BY <1>5, KindsDiffer, ValuesAreSet
  <2>2. \A u \in [ms : 0 .. MaxMillis, spelling : {"plain", "long"}] :
          DOMAIN u = {"ms", "spelling"}
    OBVIOUS
  <2>3. "ms" \notin DOMAIN v
    BY <2>1
  <2>4. v # zero /\ v \notin [ms : 0 .. MaxMillis, spelling : {"plain", "long"}]
    BY <1>1, <2>3, <2>2, KindsDiffer
  <2>5. result = Bad("SWITCH_VERIFY_TIMEOUT_MS")
    BY <2>1, <2>3, <2>4 DEF ParseTimeout, Get, Has, zero
  <2> QED BY <1>2, <2>1, <2>4, <2>5, <1>1 DEF Bad, zero
<1>6. CASE v \in Number
  <2>1. /\ DOMAIN v = {"ms", "spelling"} /\ v \notin {Unset, NotUnicode}
        /\ v.ms \in Nat /\ v.spelling \in {"plain", "long", "padded"}
    BY <1>6, KindsDiffer, ValuesAreSet
  <2>2. result = IF v = zero THEN Ok(None)
                 ELSE IF v.spelling # "padded" /\ v.ms <= MaxMillis THEN Ok(v.ms)
                 ELSE Bad("SWITCH_VERIFY_TIMEOUT_MS")
    BY <2>1 DEF ParseTimeout, Get, Has, zero
  <2>3. v \in Legal["SWITCH_VERIFY_TIMEOUT_MS"] <=>
          v.spelling # "padded" /\ v.ms <= MaxMillis
    <3>1. v.ms \in 0 .. MaxMillis <=> v.ms <= MaxMillis
      BY <1>3, <2>1
    <3>2. v.spelling \in {"plain", "long"} <=> v.spelling # "padded"
      BY <2>1
    <3> QED BY <1>2, <1>6, <3>1, <3>2 DEF Number
  <2>4. CASE v = zero
    <3>1. result = Ok(None) /\ v \in Legal["SWITCH_VERIFY_TIMEOUT_MS"]
      BY <1>1, <1>3, <2>2, <2>3, <2>4
    <3> QED BY <2>4, <3>1 DEF Ok, zero
  <2>5. CASE v # zero
    <3>1. v.ms # None
      BY <1>3, <2>1
    <3> QED BY <2>1, <2>2, <2>3, <2>5, <3>1 DEF Ok, Bad, zero
  <2> QED BY <2>4, <2>5
<1> QED BY <1>4, <1>5, <1>6, EmptyIsText DEF Values

LEMMA RegexIsRead ==
  ASSUME NEW env, NEW v, v = env["EXCLUDED_TITLE_REGEX"],
         v \in Values("EXCLUDED_TITLE_REGEX")
  PROVE  LET result == ParseRegex("EXCLUDED_TITLE_REGEX",
                                  Get(env, "EXCLUDED_TITLE_REGEX"))
             given == v \notin {Unset, NotUnicode}
         IN /\ ~result.ok <=> given /\ v \notin Legal["EXCLUDED_TITLE_REGEX"]
            /\ result.ok =>
                 result.value = IF given /\ v # Empty THEN v.regex ELSE None
<1> DEFINE result == ParseRegex("EXCLUDED_TITLE_REGEX",
                                Get(env, "EXCLUDED_TITLE_REGEX"))
<1>1. Legal["EXCLUDED_TITLE_REGEX"] =
        {Empty} \union [regex : Strings \ {""}, valid : {TRUE}]
  BY DEF Legal
<1>2. CASE v \in {Unset, NotUnicode}
  BY <1>2 DEF Get, ParseRegex, Ok
<1>3. CASE v = Empty
  BY <1>1, <1>3, EmptyIsText, ValuesAreSet DEF Get, ParseRegex, Ok
<1>4. CASE v \in Pattern
  <2>1. /\ DOMAIN v = {"regex", "valid"} /\ v \notin {Unset, NotUnicode}
        /\ v.valid \in BOOLEAN /\ v # Empty
    BY <1>4, KindsDiffer, ValuesAreSet, EmptyIsText
  <2>2. result = IF v.valid THEN Ok(v.regex) ELSE Bad("EXCLUDED_TITLE_REGEX")
    BY <2>1 DEF ParseRegex, Get
  <2>3. v \in Legal["EXCLUDED_TITLE_REGEX"] <=> v.valid
    BY <1>1, <1>4, <2>1 DEF Pattern
  <2> QED BY <2>1, <2>2, <2>3 DEF Ok, Bad
<1> QED BY <1>2, <1>3, <1>4 DEF Values

(* A variable that can be in error is read wrong exactly if it holds what it
   may not. *)
LEMMA FaultyIsWrong ==
  ASSUME \A var \in Variables : input.environment[var] \in Values(var)
  PROVE  Faulty = Wrong(input.environment)
<1> DEFINE env == input.environment
           Bads(k) == Given(Checked[k]) /\ env[Checked[k]] \notin Legal[Checked[k]]
<1>1. \A k \in 1 .. 6 : Checked[k] \in Variables
  BY CheckedAre DEF Variables
<1>2. ~Reads(env)[1].ok <=> Bads(1)
  BY <1>1, CheckedAre, ReadsAre, ModeIsRead DEF Given
<1>3. ~Reads(env)[2].ok <=> Bads(2)
  BY <1>1, CheckedAre, ReadsAre, BoolIsRead DEF Given
<1>4. ~Reads(env)[3].ok <=> Bads(3)
  BY <1>1, CheckedAre, ReadsAre, BoolIsRead DEF Given
<1>5. ~Reads(env)[4].ok <=> Bads(4)
  BY <1>1, CheckedAre, ReadsAre, TimeoutIsRead DEF Given
<1>6. ~Reads(env)[5].ok <=> Bads(5)
  BY <1>1, CheckedAre, ReadsAre, RegexIsRead DEF Given
<1>7. ~Reads(env)[6].ok <=> Bads(6)
  BY <1>1, CheckedAre, ReadsAre, BoolIsRead DEF Given
<1>8. \A k \in 1 .. 6 : k = 1 \/ k = 2 \/ k = 3 \/ k = 4 \/ k = 5 \/ k = 6
  OBVIOUS
<1>9. Faulty = {k \in 1 .. 6 : Bads(k)}
  BY CheckedAre DEF Faulty
<1> HIDE DEF Bads, env
<1>10. Wrong(env) = {k \in 1 .. 6 : Bads(k)}
  BY <1>2, <1>3, <1>4, <1>5, <1>6, <1>7, <1>8 DEF Wrong
<1> QED BY <1>9, <1>10 DEF env

(* What is known of an environment that was read. *)
LEMMA EnvironmentIsWellFormed ==
  ASSUME AnswerIsTheCodes, Read
  PROVE  /\ \A var \in Variables : input.environment[var] \in Values(var)
         /\ answer = FromEnv(input.environment)
         /\ Faulty = Wrong(input.environment)
<1>1. input \in Environments
  BY PolicyAssumption DEF AnswerIsTheCodes, Read
<1>2. \A var \in Variables : input.environment[var] \in Values(var)
  BY <1>1, PolicyAssumption
<1>3. answer = FromEnv(input.environment)
  BY DEF AnswerIsTheCodes, Read
<1> QED BY <1>2, <1>3, FaultyIsWrong

(* An environment is refused exactly for what a variable may not hold, and the
   first such variable is named. *)
THEOREM ErrorsAreExactAlways == Spec => []ErrorsAreExact
<1>1. AnswerIsTheCodes => ErrorsAreExact
  <2> SUFFICES ASSUME AnswerIsTheCodes, Read
               PROVE  ErrorsAreExact
    BY DEF ErrorsAreExact
  <2> DEFINE env == input.environment
  <2>1. answer = FromEnv(env) /\ Faulty = Wrong(env)
    BY EnvironmentIsWellFormed
  <2> HIDE DEF env
  <2>2. CASE Wrong(env) = {}
    BY <2>1, <2>2, FromEnvByCases DEF Ok, ErrorsAreExact
  <2>3. CASE Wrong(env) # {}
    <3> DEFINE i == Min(Wrong(env))
    <3>1. /\ answer = Reads(env)[i] /\ i \in Wrong(env)
          /\ \A j \in Wrong(env) : i <= j
      BY <2>1, <2>3, FromEnvByCases
    <3> HIDE DEF i
    <3>2. i \in 1 .. 6 /\ ~Reads(env)[i].ok
      BY <3>1 DEF Wrong
    <3>3. answer = Bad(Checked[i]) /\ ~answer.ok
      BY <3>1, <3>2, ParsersReport
    <3>4. answer.value = Checked[i]
      BY <3>3 DEF Bad
    <3> QED BY <2>1, <3>1, <3>3, <3>4 DEF ErrorsAreExact
  <2> QED BY <2>2, <2>3
<1> QED BY <1>1, AnswersAreTheCodes, PTL

(* What the two variables are read as that are never in error. *)
LEMMA ListsAreRead ==
  ASSUME NEW env, \A var \in Variables : env[var] \in Values(var)
  PROVE  LET given(var) == env[var] \notin {Unset, NotUnicode} /\ env[var] # Empty
         IN /\ ParseAppIds(Get(env, "EXCLUDED_APP_IDS")) =
                 IF given("EXCLUDED_APP_IDS")
                   THEN NonEmpty(env["EXCLUDED_APP_IDS"].entries)
                   ELSE << >>
            /\ ParseOutput(Get(env, "WORKSPACE_OUTPUT")) =
                 IF given("WORKSPACE_OUTPUT") THEN env["WORKSPACE_OUTPUT"].output
                                              ELSE None
<1> DEFINE a == env["EXCLUDED_APP_IDS"]
           o == env["WORKSPACE_OUTPUT"]
<1>1. a \in {Unset, NotUnicode, Empty} \union List
  BY DEF Values, Variables
<1>2. o \in {Unset, NotUnicode, Empty} \union Name
  BY DEF Values, Variables
<1>3. DOMAIN Empty = {"word", "dressed"}
  BY EmptyIsText
<1>4. ASSUME a \in List
      PROVE  DOMAIN a = {"entries"} /\ a \notin {Unset, NotUnicode, Empty}
  BY <1>3, <1>4, KindsDiffer, ValuesAreSet
<1>5. ASSUME o \in Name PROVE o \notin {Unset, NotUnicode, Empty}
  BY <1>3, <1>5, KindsDiffer, ValuesAreSet
<1>6. Empty \notin {Unset, NotUnicode}
  BY EmptyIsText, ValuesAreSet
<1>7. ParseAppIds(Get(env, "EXCLUDED_APP_IDS")) =
        IF a \in List THEN NonEmpty(a.entries) ELSE << >>
  BY <1>1, <1>3, <1>4, <1>6 DEF ParseAppIds, Get, Has
<1>8. ParseOutput(Get(env, "WORKSPACE_OUTPUT")) =
        IF o \in Name THEN o.output ELSE None
  BY <1>2, <1>5, <1>6 DEF ParseOutput, Get
<1> QED BY <1>1, <1>2, <1>4, <1>5, <1>7, <1>8

(* Every field of an accepted configuration has the value its own variable
   spells, or its default. *)
THEOREM EnvironmentsAreExact == Spec => []EnvironmentIsExact
<1>1. AnswerIsTheCodes => EnvironmentIsExact
  <2> SUFFICES ASSUME AnswerIsTheCodes, Read, answer.ok
               PROVE  EnvironmentIsExact
    BY DEF EnvironmentIsExact
  <2> DEFINE env == input.environment
             config == answer.value
  <2>1. /\ \A var \in Variables : env[var] \in Values(var)
        /\ answer = FromEnv(env)
    BY EnvironmentIsWellFormed
  <2>2. /\ "WORKSPACE_MODE" \in Variables /\ "MAXIMIZE" \in Variables
        /\ "SWITCH_TO_WORKSPACE" \in Variables /\ "JUMP_ON_EMPTY" \in Variables
        /\ "SWITCH_VERIFY_TIMEOUT_MS" \in Variables
        /\ "EXCLUDED_TITLE_REGEX" \in Variables
    BY DEF Variables
  <2>3. Wrong(env) = {} /\ config = Fields(env)
    <3>1. Wrong(env) # {} => ~FromEnv(env).ok
      <4> HIDE DEF env
      <4> QED BY FromEnvByCases DEF Wrong
    <3>2. Wrong(env) = {}
      BY <2>1, <3>1
    <3> QED BY <2>1, <3>2, FromEnvByCases DEF Ok
  <2>4. \A k \in 1 .. 6 : Reads(env)[k].ok
    BY <2>3 DEF Wrong
  <2>5. config.workspace_mode =
          IF Given("WORKSPACE_MODE") THEN env["WORKSPACE_MODE"].word ELSE "next-free"
    BY <2>1, <2>2, <2>3, <2>4, ReadsAre, ModeIsRead DEF Fields, Given
  <2>6. config.maximize = (env["MAXIMIZE"] \in Yes)
    BY <2>1, <2>2, <2>3, <2>4, ReadsAre, BoolIsRead DEF Fields
  <2>7. config.switch_to_workspace = (env["SWITCH_TO_WORKSPACE"] \in Yes)
    BY <2>1, <2>2, <2>3, <2>4, ReadsAre, BoolIsRead DEF Fields
  <2>8. config.jump_on_empty = (env["JUMP_ON_EMPTY"] \in Yes)
    BY <2>1, <2>2, <2>3, <2>4, ReadsAre, BoolIsRead DEF Fields
  <2>9. /\ config.switch_verify_timeout = None <=>
             env["SWITCH_VERIFY_TIMEOUT_MS"] = [ms |-> 0, spelling |-> "plain"]
        /\ config.switch_verify_timeout \in
             {None, IF Given("SWITCH_VERIFY_TIMEOUT_MS")
                      THEN env["SWITCH_VERIFY_TIMEOUT_MS"].ms ELSE 250}
    BY <2>1, <2>2, <2>3, <2>4, ReadsAre, TimeoutIsRead DEF Fields, Given
  <2>10. config.excluded_app_ids =
           IF Given("EXCLUDED_APP_IDS") /\ env["EXCLUDED_APP_IDS"] # Empty
             THEN NonEmpty(env["EXCLUDED_APP_IDS"].entries)
             ELSE << >>
    BY <2>1, <2>3, ListsAreRead DEF Fields, Given
  <2>11. config.excluded_title_regex =
           IF Given("EXCLUDED_TITLE_REGEX") /\ env["EXCLUDED_TITLE_REGEX"] # Empty
             THEN env["EXCLUDED_TITLE_REGEX"].regex ELSE None
    BY <2>1, <2>2, <2>3, <2>4, ReadsAre, RegexIsRead DEF Fields, Given
  <2>12. config.workspace_output =
           IF Given("WORKSPACE_OUTPUT") /\ env["WORKSPACE_OUTPUT"] # Empty
             THEN env["WORKSPACE_OUTPUT"].output ELSE None
    BY <2>1, <2>3, ListsAreRead DEF Fields, Given
  <2> QED BY <2>5, <2>6, <2>7, <2>8, <2>9, <2>10, <2>11, <2>12
          DEF EnvironmentIsExact
<1> QED BY <1>1, AnswersAreTheCodes, PTL
=============================================================================
