--------------------------- MODULE SessionProofs ----------------------------
(***************************************************************************)
(* Proofs about Session: the queue of deferred placements and what a       *)
(* window is sent, for any number of windows, workspaces, groups, births   *)
(* and sessions, whatever the compositor does.                             *)
(***************************************************************************)
EXTENDS Session, OperatorProofs

-----------------------------------------------------------------------------
(* The views the handlers read. *)

LEMMA MembersType ==
  ASSUME NEW view, IsWorld(view), NEW g
  PROVE  /\ Members(view, g) \in Seq(Ids)
         /\ Range(Members(view, g)) =
              {w \in Range(view.workspaces) : view.home[w] = g}
<1>1. view.workspaces \in Seq(Ids)
  BY DEF IsWorld
<1> DEFINE K == {w \in Range(view.workspaces) : view.home[w] = g}
<1>2. Members(view, g) = Retained(view.workspaces, K)
  BY DEF Members
<1>3. K \subseteq Range(view.workspaces)
  OBVIOUS
<1> HIDE DEF K
<1>4. Members(view, g) \in Seq(Ids)
  BY <1>1, <1>2, RetainedSources
<1>5. Range(Members(view, g)) = Range(view.workspaces) \intersect K
  BY <1>1, <1>2, RetainedRange
<1> QED BY <1>3, <1>4, <1>5 DEF K

LEMMA RowsListed ==
  ASSUME NEW view, IsWorld(view), NEW windows, NEW g
  PROVE  /\ ListedRows(Rows(view, windows, g))
         /\ DOMAIN Rows(view, windows, g) = 1 .. Len(Members(view, g))
         /\ \A i \in DOMAIN Rows(view, windows, g) :
              /\ Rows(view, windows, g)[i].id = Members(view, g)[i]
              /\ Rows(view, windows, g)[i].id \in Ids
              /\ Rows(view, windows, g)[i].occupied
                   <=> Members(view, g)[i] \in Occupied(windows)
<1> DEFINE members == Members(view, g)
           n == Len(members)
           rows == Rows(view, windows, g)
           busy(i) == members[i] \in Occupied(windows)
<1>1. members \in Seq(Ids) /\ n \in Nat /\ DOMAIN members = 1 .. n
  BY MembersType, LenProperties
<1>2. rows = [i \in 1 .. n |-> [id |-> members[i], occupied |-> busy(i)]]
  BY <1>1 DEF Rows
<1>3. \A i \in 1 .. n : members[i] \in Ids
  BY <1>1, ElementOfSeq
<1>4. \A i \in 1 .. n : busy(i) \in BOOLEAN
  OBVIOUS
<1> HIDE DEF members, n, rows, busy
<1>5. DOMAIN rows = 1 .. n /\ Len(rows) = n
  BY <1>1, <1>2
<1>6. \A i \in 1 .. n : rows[i].id = members[i] /\ rows[i].occupied = busy(i)
  BY <1>2
<1>7. ListedRows(rows)
  <2>1. \A i \in DOMAIN rows : rows[i].occupied \in BOOLEAN
    BY <1>4, <1>5, <1>6
  <2>2. Listed(rows)
    BY <1>1, <1>5 DEF Listed
  <2> QED BY <2>1, <2>2, Zenon DEF ListedRows
<1>8. ASSUME NEW i \in DOMAIN rows
      PROVE  /\ rows[i].id = members[i] /\ rows[i].id \in Ids
             /\ rows[i].occupied <=> members[i] \in Occupied(windows)
  <2>1. rows[i].id = members[i] /\ rows[i].id \in Ids
    BY <1>3, <1>5, <1>6
  <2>2. rows[i].occupied = busy(i)
    BY <1>5, <1>6
  <2>3. rows[i].occupied <=> members[i] \in Occupied(windows)
    BY <2>2, Zenon DEF busy
  <2> QED BY <2>1, <2>3, Zenon
<1> QED BY <1>5, <1>7, <1>8, Zenon DEF members, n, rows

LEMMA StubListed ==
  ASSUME NEW view, IsWorld(view), NEW windows
  PROVE  LET stub == Stub(view, windows)
         IN /\ ListedGroups(stub)
            /\ DOMAIN stub = DOMAIN view.groups
            /\ \A i \in DOMAIN stub :
                 stub[i].workspaces = Rows(view, windows, view.groups[i].id)
<1> DEFINE n == Len(view.groups)
           stub == Stub(view, windows)
<1>1. view.groups \in Seq(AllGroups) /\ n \in Nat /\ DOMAIN view.groups = 1 .. n
  BY LenProperties DEF IsWorld
<1>2. \A i \in 1 .. n : view.groups[i].id \in Nat
  BY <1>1, ElementOfSeq, WorldsAssumption
<1>3. stub = [i \in 1 .. n |->
          [id |-> view.groups[i].id, outputs |-> view.groups[i].outputs,
           can_create |-> view.groups[i].can_create,
           workspaces |-> Rows(view, windows, view.groups[i].id)]]
  BY <1>1 DEF Stub
<1> HIDE DEF stub
<1>4. DOMAIN stub = 1 .. n /\ Len(stub) = n
  BY <1>1, <1>3
<1>5. \A i \in 1 .. n :
        /\ stub[i].id = view.groups[i].id
        /\ stub[i].workspaces = Rows(view, windows, view.groups[i].id)
  BY <1>3
<1>6. \A i \in 1 .. n : ListedRows(stub[i].workspaces)
  BY <1>5, RowsListed
<1>7. ListedGroups(stub)
  BY <1>1, <1>2, <1>4, <1>5, <1>6 DEF ListedGroups, Listed
<1> QED BY <1>1, <1>4, <1>5, <1>7 DEF stub

(* decide, on what the daemon sees. *)
LEMMA DecideOnViews ==
  ASSUME IsWorld(shown), NEW info, NEW windows, NEW done, NEW t
  PROVE  LET decision == Decide(config, info, Stub(shown, windows), done, t)
         IN /\ decision.action.kind \in {"Skip", "Existing", "Create"}
            /\ decision.warns \subseteq WarnKinds
            /\ decision.action.kind = "Existing" =>
                 /\ decision.action.workspace \in Ids
                 /\ decision.action.workspace \notin Occupied(windows)
                 /\ decision.action.workspace \in Range(shown.workspaces)
<1> DEFINE stub == Stub(shown, windows)
           g == SelectGroup(config, info, stub)
           early == EarlySkip(config, info, done, t)
           decision == Decide(config, info, stub, done, t)
           Right(a) == a.kind = "Existing" =>
                         /\ a.workspace \in Ids
                         /\ a.workspace \notin Occupied(windows)
                         /\ a.workspace \in Range(shown.workspaces)
<1>1. /\ ListedGroups(stub) /\ DOMAIN stub = DOMAIN shown.groups
      /\ \A i \in DOMAIN stub :
           stub[i].workspaces = Rows(shown, windows, shown.groups[i].id)
  BY StubListed
<1>2. /\ early # "none" \/ g = 0 =>
           decision.action.kind = "Skip" /\ decision.warns \subseteq WarnKinds
      /\ early = "none" /\ g # 0 =>
           /\ decision.action = SelectWorkspace(config, stub[g])
           /\ decision.warns \subseteq WarnKinds
  <2> DEFINE fallback == IF FallsBack(config, stub)
                           THEN {"WorkspaceOutputFallback"} ELSE {}
             unsupported == IF Unsupported(config, stub[g])
                              THEN {"NewEachUnsupported"} ELSE {}
  <2>1. /\ early # "none" =>
             decision.action.kind = "Skip" /\ decision.warns = {}
        /\ early = "none" /\ g = 0 =>
             decision.action.kind = "Skip" /\ decision.warns = fallback
        /\ early = "none" /\ g # 0 =>
             /\ decision.action = SelectWorkspace(config, stub[g])
             /\ decision.warns = fallback \union unsupported
    BY DecideByCases, Zenon
  <2>2. /\ fallback \subseteq {"WorkspaceOutputFallback"}
        /\ unsupported \subseteq {"NewEachUnsupported"}
    OBVIOUS
  <2> HIDE DEF fallback, unsupported, decision, g, early, stub
  <2> QED BY <2>1, <2>2 DEF WarnKinds
<1>3. g # 0 => g \in DOMAIN stub
  <2> HIDE DEF stub
  <2>1. OverrideGroup(config, stub) # 0 => OverrideGroup(config, stub) \in DOMAIN stub
    BY <1>1, OverrideIsFound DEF ListedGroups
  <2>2. BirthGroup(info, stub) # 0 => BirthGroup(info, stub) \in DOMAIN stub
    BY <1>1, BirthGroupIsLowest
  <2> QED BY <2>1, <2>2 DEF SelectGroup
<1> HIDE DEF stub, g, early, decision
<1>4. ASSUME g # 0
      PROVE  /\ SelectWorkspace(config, stub[g]).kind
                  \in {"Skip", "Existing", "Create"}
             /\ Right(SelectWorkspace(config, stub[g]))
  <2> DEFINE rows == Rows(shown, windows, shown.groups[g].id)
             members == Members(shown, shown.groups[g].id)
  <2>1. ListedRows(rows) /\ rows = stub[g].workspaces
    BY <1>1, <1>3, <1>4, RowsListed
  <2>2. SelectWorkspace(config, stub[g]) \in {Create, NextFree(rows)}
    <3> HIDE DEF rows
    <3> QED BY <2>1 DEF SelectWorkspace
  <2>3. Create.kind = "Create"
    BY DEF Create
  <2>4. ASSUME NEW i \in DOMAIN rows, ~rows[i].occupied
        PROVE  PlaceOn(rows[i].id).kind = "Existing" /\ Right(PlaceOn(rows[i].id))
    <3>1. /\ DOMAIN rows = 1 .. Len(members)
          /\ rows[i].id = members[i] /\ rows[i].id \in Ids
          /\ rows[i].occupied <=> members[i] \in Occupied(windows)
      BY <2>4, RowsListed, Zenon
    <3>2. members \in Seq(Ids) /\ Range(members) \subseteq Range(shown.workspaces)
      BY MembersType
    <3>3. members[i] \in Range(members)
      BY <3>1, <3>2, LenProperties DEF Range
    <3> HIDE DEF rows, members
    <3>4. /\ rows[i].id \in Ids /\ rows[i].id \notin Occupied(windows)
          /\ rows[i].id \in Range(shown.workspaces)
      BY <2>4, <3>1, <3>2, <3>3
    <3> QED BY <3>4 DEF PlaceOn
  <2> HIDE DEF rows
  <2>5. /\ NextFree(rows).kind \in {"Skip", "Existing"}
        /\ NextFree(rows).kind = "Existing" =>
             \E i \in DOMAIN rows :
               ~rows[i].occupied /\ NextFree(rows) = PlaceOn(rows[i].id)
    BY <2>1, NextFreeIsFree
  <2>6. Right(NextFree(rows))
    BY <2>4, <2>5, Zenon
  <2> QED BY <2>2, <2>3, <2>5, <2>6
<1>5. /\ decision.action.kind \in {"Skip", "Existing", "Create"}
      /\ decision.warns \subseteq WarnKinds
      /\ Right(decision.action)
  BY <1>2, <1>4
<1> QED BY <1>5 DEF decision, stub

-----------------------------------------------------------------------------
(* The compositor and its user: what they change keeps its type, and nothing
   of it is in the daemon's records. *)

CompositorOK ==
  /\ IsWorld(world)
  /\ next_workspace \in Nat /\ dirty \in BOOLEAN
  /\ phase \in [Windows -> {"unborn", "open", "closed", "gone"}]
  /\ place \in [Windows -> SUBSET Ids]

LEMMA CompositorKeepsIInv ==
  ASSUME IInv, CompositorOK', requests' \in Seq(Request),
         hist' \in History, hist'.targets = hist.targets,
         UNCHANGED <<shown, known, config, appdata>>
  PROVE  IInv'
<1> USE DEF appdata
<1>1. OwnTypeOK'
  BY DEF IInv, OwnTypeOK, CompositorOK
<1>2. PendingsAreLive'
  BY DEF IInv, PendingsAreLive
<1>3. MovedAtMostOnce'
  BY DEF IInv, MovedAtMostOnce
<1> QED BY <1>1, <1>2, <1>3 DEF IInv

LEMMA DaemonUntouched ==
  ASSUME UNCHANGED daemon
  PROVE  UNCHANGED <<requests, shown, known, config, appdata>>
BY DEF daemon, appdata

LEMMA GroupIdsType ==
  ASSUME NEW view, IsWorld(view)
  PROVE  GroupIds(view) \subseteq Nat
<1>1. view.groups \in Seq(AllGroups) /\ DOMAIN view.groups = 1 .. Len(view.groups)
  BY LenProperties DEF IsWorld
<1>2. \A i \in DOMAIN view.groups : view.groups[i].id \in Nat
  BY <1>1, ElementOfSeq, WorldsAssumption
<1> QED BY <1>2 DEF GroupIds

LEMMA WorldType ==
  ASSUME NEW v, IsWorld(v)
  PROVE  /\ Range(v.workspaces) \subseteq Ids /\ v.active \subseteq Ids
         /\ DOMAIN v.home = Range(v.workspaces) /\ Ids \subseteq Nat
<1>1. v.workspaces \in Seq(Ids)
  BY DEF IsWorld
<1>2. Range(v.workspaces) \subseteq Ids
  BY <1>1, LenProperties, ElementOfSeq DEF Range
<1> QED BY <1>2 DEF IsWorld, Ids

LEMMA DisplayType ==
  ASSUME IsWorld(world), NEW w \in Live
  PROVE  IsWorld(Display(w))
<1>1. DOMAIN Display(w) = DOMAIN world
  BY DEF Display
<1>2. /\ Display(w).groups = world.groups
      /\ Display(w).workspaces = world.workspaces
      /\ Display(w).home = world.home
      /\ Display(w).active \subseteq world.active \union {w}
  BY DEF Display, IsWorld
<1> QED BY <1>1, <1>2 DEF IsWorld, Live

LEMMA NewWorkspaceType ==
  ASSUME IsWorld(world), next_workspace \in Nat, hist \in History,
         NEW w \in Ids, NEW g \in Nat, NewWorkspace(w, g)
  PROVE  /\ IsWorld(world') /\ next_workspace' \in Nat /\ dirty' \in BOOLEAN
         /\ hist' \in History /\ hist'.targets = hist.targets
<1>1. world' = [world EXCEPT !.workspaces = Append(@, w),
                             !.home = [v \in DOMAIN @ \union {w} |->
                                         IF v = w THEN g ELSE @[v]]]
  BY DEF NewWorkspace
<1> DEFINE home == [v \in DOMAIN world.home \union {w} |->
                      IF v = w THEN g ELSE world.home[v]]
           listed == Append(world.workspaces, w)
<1>2. /\ DOMAIN world' = DOMAIN world
      /\ world'.groups = world.groups /\ world'.active = world.active
      /\ world'.workspaces = listed
      /\ world'.home = home
  BY <1>1 DEF IsWorld
<1>3. listed \in Seq(Ids) /\ Range(listed) = Range(world.workspaces) \union {w}
  <2>1. world.workspaces \in Seq(Ids)
    BY DEF IsWorld
  <2> DEFINE n == Len(world.workspaces)
  <2>2. /\ listed \in Seq(Ids) /\ n \in Nat /\ Len(listed) = n + 1
        /\ \A i \in 1 .. n : listed[i] = world.workspaces[i]
        /\ listed[n + 1] = w
        /\ DOMAIN listed = 1 .. n + 1 /\ DOMAIN world.workspaces = 1 .. n
    BY <2>1, AppendProperties, LenProperties
  <2> HIDE DEF listed, n
  <2>3. 1 .. n + 1 = (1 .. n) \union {n + 1}
    BY <2>2
  <2>4. Range(listed) = Range(world.workspaces) \union {w}
    BY <2>2, <2>3 DEF Range
  <2> QED BY <2>2, <2>4
<1>4. home \in [Range(world.workspaces) \union {w} -> Nat \union {NoGroup}]
  BY DEF IsWorld
<1>5. IsWorld(world')
  <2> HIDE DEF home, listed
  <2> QED BY <1>2, <1>3, <1>4 DEF IsWorld
<1>6. w \in Nat
  BY DEF Ids
<1>7. hist' \in History /\ hist'.targets = hist.targets
  BY DEF NewWorkspace, History
<1> QED BY <1>5, <1>6, <1>7 DEF NewWorkspace

LEMMA UserSwitchesInv == IInv /\ (\E w \in Ids : UserSwitches(w)) => IInv'
<1> SUFFICES ASSUME IInv, NEW w \in Ids, UserSwitches(w) PROVE IInv'
  OBVIOUS
<1>1. IsWorld(world')
  BY DisplayType DEF UserSwitches, IInv, OwnTypeOK
<1>2. CompositorOK'
  BY <1>1 DEF UserSwitches, IInv, OwnTypeOK, CompositorOK
<1>3. UNCHANGED <<requests, shown, known, config, appdata>> /\ hist' = hist
  BY DaemonUntouched DEF UserSwitches
<1>4. requests' \in Seq(Request) /\ hist' \in History
  BY <1>3 DEF IInv, OwnTypeOK
<1> QED BY <1>2, <1>3, <1>4, CompositorKeepsIInv

LEMMA OpenInv == IInv /\ (\E t \in Windows : Open(t)) => IInv'
<1> SUFFICES ASSUME IInv, NEW t \in Windows, Open(t) PROVE IInv'
  OBVIOUS
<1>1. Births \subseteq SUBSET Ids
  <2>1. Live \subseteq Ids /\ world.active \subseteq Ids
    BY WorldType DEF IInv, OwnTypeOK, Live
  <2> QED BY <2>1 DEF Births
<1>2. CompositorOK'
  <2>1. PICK W \in Births : place' = [place EXCEPT ![t] = W]
    BY DEF Open
  <2>2. place' \in [Windows -> SUBSET Ids]
    BY <1>1, <2>1 DEF IInv, OwnTypeOK
  <2> QED BY <2>2 DEF Open, IInv, OwnTypeOK, CompositorOK
<1>3. UNCHANGED <<requests, shown, known, config, appdata>>
  BY DaemonUntouched DEF Open
<1>4. requests' \in Seq(Request) /\ hist' \in History /\ hist'.targets = hist.targets
  <2>1. hist \in History /\ requests \in Seq(Request)
    BY DEF IInv, OwnTypeOK
  <2>2. hist' = [hist EXCEPT !.births = hist.births + 1]
    BY DEF Open
  <2> DEFINE n == hist.births + 1
  <2>4. n \in Nat
    BY <2>1 DEF History
  <2> HIDE DEF n
  <2>3. hist' \in History /\ hist'.targets = hist.targets
    BY <2>1, <2>2, <2>4 DEF History, n
  <2> QED BY <1>3, <2>1, <2>3
<1> QED BY <1>2, <1>3, <1>4, CompositorKeepsIInv

LEMMA CloseInv == IInv /\ (\E t \in Windows : Close(t)) => IInv'
<1> SUFFICES ASSUME IInv, NEW t \in Windows, Close(t) PROVE IInv'
  OBVIOUS
<1>1. CompositorOK'
  BY DEF Close, IInv, OwnTypeOK, CompositorOK
<1>2. UNCHANGED <<requests, shown, known, config, appdata>> /\ hist' = hist
  BY DaemonUntouched DEF Close
<1>3. requests' \in Seq(Request) /\ hist' \in History
  BY <1>2 DEF IInv, OwnTypeOK
<1> QED BY <1>1, <1>2, <1>3, CompositorKeepsIInv

LEMMA DecorateInv == IInv /\ Decorate => IInv'
<1> SUFFICES ASSUME IInv, Decorate PROVE IInv'
  OBVIOUS
<1>1. CompositorOK'
  BY DEF Decorate, IInv, OwnTypeOK, CompositorOK
<1>2. UNCHANGED <<requests, shown, known, config, appdata>>
  BY DaemonUntouched DEF Decorate
<1>3. requests' \in Seq(Request) /\ hist' \in History /\ hist'.targets = hist.targets
  <2>1. hist \in History /\ requests \in Seq(Request)
    BY DEF IInv, OwnTypeOK
  <2>2. hist' = [hist EXCEPT !.touches = @ + 1]
    BY DEF Decorate
  <2>3. hist' \in History /\ hist'.targets = hist.targets
    BY <2>1, <2>2 DEF History
  <2> QED BY <1>2, <2>1, <2>3
<1> QED BY <1>1, <1>2, <1>3, CompositorKeepsIInv

LEMMA AddWorkspaceInv ==
  IInv /\ (\E w \in Ids, g \in GroupIds(world) : AddWorkspace(w, g)) => IInv'
<1> SUFFICES ASSUME IInv, NEW w \in Ids, NEW g \in GroupIds(world),
                    AddWorkspace(w, g)
             PROVE  IInv'
  OBVIOUS
<1>1. g \in Nat
  BY GroupIdsType DEF IInv, OwnTypeOK
<1>2. /\ IsWorld(world') /\ next_workspace' \in Nat /\ dirty' \in BOOLEAN
      /\ hist' \in History /\ hist'.targets = hist.targets
  BY <1>1, NewWorkspaceType DEF AddWorkspace, IInv, OwnTypeOK
<1>3. UNCHANGED <<requests, shown, known, config, appdata>>
  BY DaemonUntouched DEF AddWorkspace
<1>4. CompositorOK' /\ requests' \in Seq(Request)
  BY <1>2, <1>3 DEF AddWorkspace, IInv, OwnTypeOK, CompositorOK
<1> QED BY <1>2, <1>3, <1>4, CompositorKeepsIInv

LEMMA RemoveWorkspaceInv == IInv /\ (\E w \in Ids : RemoveWorkspace(w)) => IInv'
<1> SUFFICES ASSUME IInv, NEW w \in Ids, RemoveWorkspace(w) PROVE IInv'
  OBVIOUS
<1> DEFINE kept == Retained(world.workspaces, Live \ {w})
           home == Restrict(world.home, DOMAIN world.home \ {w})
<1>1. kept \in Seq(Ids) /\ Range(kept) = Live \ {w}
  <2>1. world.workspaces \in Seq(Ids)
    BY DEF IInv, OwnTypeOK, IsWorld
  <2>2. kept \in Seq(Ids)
    BY <2>1, RetainedSources
  <2>3. Range(kept) = Range(world.workspaces) \intersect (Live \ {w})
    BY <2>1, RetainedRange
  <2> QED BY <2>2, <2>3 DEF Live
<1>2. home \in [Live \ {w} -> Nat \union {NoGroup}] /\ w \notin world.active
  BY DEF IInv, OwnTypeOK, IsWorld, Restrict, RemoveWorkspace, OnDisplay, Live
<1>3. world' = [world EXCEPT !.workspaces = kept, !.home = home]
  BY DEF RemoveWorkspace
<1> HIDE DEF kept, home
<1>4. IsWorld(world')
  BY <1>1, <1>2, <1>3 DEF IInv, OwnTypeOK, IsWorld, Live
<1>5. CompositorOK'
  BY <1>4 DEF RemoveWorkspace, IInv, OwnTypeOK, CompositorOK
<1>6. UNCHANGED <<requests, shown, known, config, appdata>> /\ hist' = hist
  BY DaemonUntouched DEF RemoveWorkspace
<1>7. requests' \in Seq(Request) /\ hist' \in History
  BY <1>6 DEF IInv, OwnTypeOK
<1> QED BY <1>5, <1>6, <1>7, CompositorKeepsIInv

LEMMA UnplugInv ==
  IInv /\ (\E g \in GroupIds(world), h \in GroupIds(world) \union {NoGroup} :
              Unplug(g, h)) => IInv'
<1> SUFFICES ASSUME IInv, NEW g \in GroupIds(world),
                    NEW h \in GroupIds(world) \union {NoGroup}, Unplug(g, h)
             PROVE  IInv'
  OBVIOUS
<1> DEFINE kept == Retained(world.groups, {x \in Range(world.groups) : x.id # g})
           home == [w \in DOMAIN world.home |->
                      IF world.home[w] = g THEN h ELSE world.home[w]]
           lit == {w \in world.active : world.home[w] # g \/ h = NoGroup}
<1>1. kept \in Seq(AllGroups)
  BY RetainedSources DEF IInv, OwnTypeOK, IsWorld
<1>2. home \in [Range(world.workspaces) -> Nat \union {NoGroup}]
  BY GroupIdsType DEF IInv, OwnTypeOK, IsWorld
<1>3. world' = [world EXCEPT !.groups = kept, !.home = home, !.active = lit]
  BY DEF Unplug
<1>4. lit \subseteq Range(world.workspaces)
  BY DEF IInv, OwnTypeOK, IsWorld
<1> HIDE DEF kept, home, lit
<1>5. IsWorld(world')
  BY <1>1, <1>2, <1>3, <1>4 DEF IInv, OwnTypeOK, IsWorld
<1>6. CompositorOK'
  BY <1>5 DEF Unplug, IInv, OwnTypeOK, CompositorOK
<1>7. UNCHANGED <<requests, shown, known, config, appdata>> /\ hist' = hist
  BY DaemonUntouched DEF Unplug
<1>8. requests' \in Seq(Request) /\ hist' \in History
  BY <1>7 DEF IInv, OwnTypeOK
<1> QED BY <1>6, <1>7, <1>8, CompositorKeepsIInv

LEMMA ProcessRequestInv == IInv /\ ProcessRequest => IInv'
<1> SUFFICES ASSUME IInv, ProcessRequest PROVE IInv'
  OBVIOUS
<1> DEFINE r == Head(requests)
<1>1. r \in Request /\ requests' \in Seq(Request)
  BY HeadTailProperties DEF ProcessRequest, IInv, OwnTypeOK
<1>2. UNCHANGED <<phase, shown, known, config, appdata>>
  BY DEF ProcessRequest
<1>3. Honour(r) \/ Ignore(r)
  BY DEF ProcessRequest
<1> HIDE DEF r
<1>4. CASE Ignore(r)
  <2>1. hist' = [hist EXCEPT !.denied = @ \/ r.op = "create"]
    BY <1>4 DEF Ignore
  <2>2. hist' \in History /\ hist'.targets = hist.targets
    <3>1. (hist.denied \/ r.op = "create") \in BOOLEAN
      OBVIOUS
    <3> QED BY <2>1, <3>1 DEF IInv, OwnTypeOK, History
  <2>3. CompositorOK'
    BY <1>2, <1>4 DEF Ignore, IInv, OwnTypeOK, CompositorOK
  <2> QED BY <1>1, <1>2, <2>2, <2>3, CompositorKeepsIInv
<1>5. CASE Honour(r) /\ r.op = "move"
  <2>1. /\ place' = [place EXCEPT ![r.window] = {r.workspace}]
        /\ UNCHANGED <<world, next_workspace, dirty, hist>>
    BY <1>5 DEF Honour
  <2>2. r.window \in Windows /\ r.workspace \in Ids
    BY <1>1, <1>5 DEF Request
  <2>3. CompositorOK'
    BY <1>2, <2>1, <2>2 DEF IInv, OwnTypeOK, CompositorOK
  <2>4. hist' \in History
    BY <2>1 DEF IInv, OwnTypeOK
  <2> QED BY <1>1, <1>2, <2>1, <2>3, <2>4, CompositorKeepsIInv
<1>6. CASE Honour(r) /\ r.op = "activate"
  <2>1. /\ world' = Display(r.workspace) /\ dirty' = TRUE
        /\ UNCHANGED <<next_workspace, place, hist>>
    BY <1>6 DEF Honour
  <2>2. r.workspace \in Live
    BY <1>6 DEF Honour, Possible
  <2>3. IsWorld(world')
    BY <2>1, <2>2, DisplayType DEF IInv, OwnTypeOK
  <2>4. CompositorOK' /\ hist' \in History
    BY <1>2, <2>1, <2>3 DEF IInv, OwnTypeOK, CompositorOK
  <2> QED BY <1>1, <1>2, <2>1, <2>4, CompositorKeepsIInv
<1>7. CASE Honour(r) /\ r.op = "create"
  <2>1. PICK w \in Ids : NewWorkspace(w, r.group)
    BY <1>7 DEF Honour
  <2>2. r.group \in Nat
    BY <1>1, <1>7 DEF Request
  <2>3. place' = place
    BY <1>7 DEF Honour
  <2>4. /\ IsWorld(world') /\ next_workspace' \in Nat /\ dirty' \in BOOLEAN
        /\ hist' \in History /\ hist'.targets = hist.targets
    BY <2>1, <2>2, NewWorkspaceType DEF IInv, OwnTypeOK
  <2>5. CompositorOK'
    BY <1>2, <2>3, <2>4 DEF IInv, OwnTypeOK, CompositorOK
  <2> QED BY <1>1, <1>2, <2>4, <2>5, CompositorKeepsIInv
<1> QED BY <1>3, <1>4, <1>5, <1>6, <1>7 DEF Honour

-----------------------------------------------------------------------------
(* The handlers: the queue and what has been sent. *)

LEMMA InitInv == Init => IInv
<1> SUFFICES ASSUME Init PROVE IInv
  OBVIOUS
<1>1. IsWorld(world)
  BY WorldsAssumption DEF Init
<1>2. IsWorld(shown)
  <2>1. shown = Nothing
    BY DEF Init
  <2>2. << >> \in Seq(AllGroups) /\ << >> \in Seq(Ids)
    BY EmptySeq
  <2>3. Range(<< >>) = {} /\ << >> \in [{} -> Nat \union {NoGroup}]
    BY DEF Range
  <2> QED BY <2>1, <2>2, <2>3 DEF Nothing, IsWorld
<1>3. next_workspace \in Nat
  BY <1>1, LenProperties DEF Init, IsWorld
<1>4. hist \in History
  <2>1. [t \in Windows |-> << >>] \in [Windows -> Seq(Ids)]
    BY EmptySeq
  <2> QED BY <2>1 DEF Init, History
<1>5. OwnTypeOK
  <2>1. /\ requests = << >> /\ pending = << >> /\ recent = << >>
        /\ last_known = << >> /\ known = << >>
    BY DEF Init
  <2>2. /\ requests \in Seq(Request) /\ pending \in Seq(PendingPlacement)
        /\ recent \in Seq(Ids) /\ Len(recent) = 0 /\ Len(pending) = 0
    BY <2>1, EmptySeq
  <2>3. DOMAIN known = {} /\ known \in [{} -> SUBSET Ids]
    BY <2>1
  <2>4. Range(last_known) = {}
    BY <2>1 DEF Range
  <2> QED BY <1>1, <1>2, <1>3, <1>4, <2>2, <2>3, <2>4, SessionAssumption
         DEF Init, OwnTypeOK
<1>6. DOMAIN known = {} /\ DOMAIN pending = {}
  BY DEF Init
<1>7. PendingsAreLive
  BY <1>6 DEF Init, PendingsAreLive
<1>8. \A t \in Windows : hist.targets[t] = << >>
  BY DEF Init
<1>9. MovedAtMostOnce
  BY <1>8, EmptySeq DEF MovedAtMostOnce
<1>10. scan \in {0, 1}
  BY DEF Init
<1> QED BY <1>5, <1>7, <1>8, <1>9, <1>10 DEF IInv

LEMMA KnownType ==
  ASSUME OwnTypeOK, NEW t \in Windows
  PROVE  /\ DOMAIN Known(t) = DOMAIN known \union {t}
         /\ DOMAIN Known(t) \subseteq Windows
         /\ Known(t) \in [DOMAIN Known(t) -> SUBSET Ids]
BY DEF OwnTypeOK, Known

LEMMA PostPlaceType ==
  ASSUME NEW t \in Windows, NEW w \in Ids
  PROVE  PostPlace(t, w) \in Seq(Request)
<1>1. Activate(w) \in Request /\ Maximize(t) \in Request
  BY DEF Activate, Maximize, Request
<1>2. /\ <<Activate(w)>> \in Seq(Request) /\ <<Maximize(t)>> \in Seq(Request)
      /\ << >> \in Seq(Request)
  BY <1>1
<1>3. CASE config.switch_to_workspace /\ config.maximize
  BY <1>2, <1>3, ConcatProperties, Zenon DEF PostPlace
<1>4. CASE config.switch_to_workspace /\ ~config.maximize
  BY <1>2, <1>4, ConcatProperties, Zenon DEF PostPlace
<1>5. CASE ~config.switch_to_workspace /\ config.maximize
  BY <1>2, <1>5, ConcatProperties, Zenon DEF PostPlace
<1>6. CASE ~config.switch_to_workspace /\ ~config.maximize
  BY <1>2, <1>6, ConcatProperties, Zenon DEF PostPlace
<1> QED BY <1>3, <1>4, <1>5, <1>6

LEMMA PlaceNowType ==
  ASSUME requests \in Seq(Request), NEW t \in Windows, NEW w \in Ids,
         PlaceNow(t, w)
  PROVE  requests' \in Seq(Request)
<1>1. Move(t, w) \in Request
  BY DEF Move, Request
<1>2. <<Move(t, w)>> \in Seq(Request)
  BY <1>1
<1>3. requests' = requests \o <<Move(t, w)>> \o PostPlace(t, w)
  BY DEF PlaceNow
<1>4. PostPlace(t, w) \in Seq(Request)
  BY PostPlaceType
<1> HIDE DEF Request
<1>5. requests \o <<Move(t, w)>> \in Seq(Request)
  BY <1>2, ConcatProperties
<1> QED BY <1>3, <1>4, <1>5, ConcatProperties

(* What NoteTarget makes of the history. *)
LEMMA NoteTargetType ==
  ASSUME hist \in History, NEW t \in Windows, NEW w \in Ids
  PROVE  /\ NoteTarget(t, w) \in History
         /\ \A s \in Windows : NoteTarget(t, w).targets[s] =
              IF s = t THEN Append(hist.targets[t], w) ELSE hist.targets[s]
<1>1. hist.targets \in [Windows -> Seq(Ids)]
  BY DEF History
<1>2. Append(hist.targets[t], w) \in Seq(Ids)
  BY <1>1, AppendProperties
<1> DEFINE longer == [hist.targets EXCEPT ![t] = Append(hist.targets[t], w)]
<1>3. NoteTarget(t, w) = [hist EXCEPT !.targets = longer]
  BY DEF NoteTarget, History
<1>4. longer \in [Windows -> Seq(Ids)]
  BY <1>1, <1>2
<1>5. \A s \in Windows : longer[s] =
        IF s = t THEN Append(hist.targets[t], w) ELSE hist.targets[s]
  BY <1>1
<1> HIDE DEF longer
<1>6. NoteTarget(t, w).targets = longer
  BY <1>3 DEF History
<1> QED BY <1>3, <1>4, <1>5, <1>6 DEF History

(* The window a placement is sent for is known and has not been sent before:
   the history stays what the invariant says. *)
LEMMA NoteTargetOnce ==
  ASSUME hist \in History, MovedAtMostOnce,
         NEW t \in Windows, NEW w \in Ids, hist.targets[t] = << >>,
         hist' = NoteTarget(t, w)
  PROVE  MovedAtMostOnce' /\ hist'.targets[t] = <<w>>
<1>1. \A s \in Windows : hist'.targets[s] =
         IF s = t THEN Append(<< >>, w) ELSE hist.targets[s]
  BY NoteTargetType
<1> DEFINE one == <<w>>
<1>2. Append(<< >>, w) = one /\ Len(one) = 1
  OBVIOUS
<1> HIDE DEF one
<1>3. \A s \in Windows : hist'.targets[s] =
         IF s = t THEN one ELSE hist.targets[s]
  BY <1>1, <1>2
<1>4. \A s \in Windows : Len(hist'.targets[s]) <= 1
  <2> SUFFICES ASSUME NEW s \in Windows PROVE Len(hist'.targets[s]) <= 1
    OBVIOUS
  <2>1. Len(one) <= 1
    BY <1>2
  <2>2. CASE s = t
    <3>1. hist'.targets[s] = one
      BY <1>3, <2>2
    <3> QED BY <2>1, <3>1, Zenon
  <2>3. CASE s # t
    <3>1. hist'.targets[s] = hist.targets[s]
      BY <1>3, <2>3
    <3>2. Len(hist.targets[s]) <= 1
      BY DEF MovedAtMostOnce
    <3> QED BY <3>1, <3>2, Zenon
  <2> QED BY <2>2, <2>3
<1> QED BY <1>3, <1>4 DEF MovedAtMostOnce, one

LEMMA UpdateToplevelInv == IInv /\ (\E t \in Windows : UpdateToplevel(t)) => IInv'
<1> SUFFICES ASSUME IInv, NEW t \in Windows, UpdateToplevel(t) PROVE IInv'
  OBVIOUS
<1> USE DEF compositor, appdata, SendsNothing
<1>1. /\ DOMAIN known' = DOMAIN known
      /\ known' \in [DOMAIN known' -> SUBSET Ids]
  BY KnownType DEF UpdateToplevel, IInv
<1>2. OwnTypeOK'
  BY <1>1 DEF UpdateToplevel, IInv, OwnTypeOK
<1>3. PendingsAreLive' /\ MovedAtMostOnce'
  BY <1>1 DEF UpdateToplevel, IInv, PendingsAreLive, MovedAtMostOnce
<1> QED BY <1>1, <1>2, <1>3 DEF UpdateToplevel, IInv

(* new_toplevel on each of the outcomes of decide. *)
(* execute_place, target Create: nothing, or one request and one placement. *)
LEMMA CreatePlacementType ==
  ASSUME IsWorld(shown), NEW t \in Windows, NEW info, NEW i \in GroupsFor(info),
         CreatePlacement(t, i)
  PROVE  \/ UNCHANGED <<pending, requests>>
         \/ \E p \in PendingPlacement, g \in Nat :
              /\ p.window = t
              /\ pending' = Append(pending, p)
              /\ requests' = Append(requests, CreateIn(g))
<1>1. CASE i = 0
  BY <1>1 DEF CreatePlacement
<1>2. CASE i # 0
  <2> DEFINE g == shown.groups[i].id
             p == [window |-> t, group |-> g,
                   before |-> Range(Members(shown, g)), cycles_waited |-> 0]
  <2>1. /\ requests' = Append(requests, CreateIn(g))
        /\ pending' = Append(pending, p)
    BY <1>2 DEF CreatePlacement
  <2>2. g \in Nat
    <3>1. i \in DOMAIN shown.groups
      <4> DEFINE showing(o) == {k \in 1 .. Len(shown.groups) :
                                  o \in shown.groups[k].outputs}
      <4>1. shown.groups \in Seq(AllGroups)
        BY DEF IsWorld
      <4>2. PICK o \in info.outputs :
              i = SelectInSeq(shown.groups, LAMBDA h : o \in h.outputs)
        BY DEF GroupsFor
      <4>3. i = IF showing(o) # {} THEN Min(showing(o)) ELSE 0
        BY <4>2 DEF SelectInSeq
      <4>4. showing(o) \subseteq Nat
        BY <4>1, LenProperties
      <4>5. i \in showing(o)
        BY <1>2, <4>3, <4>4, MinIsLeast
      <4> QED BY <4>1, <4>5, LenProperties
    <3>2. g \in GroupIds(shown)
      BY <3>1 DEF GroupIds
    <3> QED BY <3>2, GroupIdsType
  <2>3. Range(Members(shown, g)) \subseteq Ids
    <3>1. Members(shown, g) \in Seq(Ids)
      BY MembersType
    <3> QED BY <3>1, LenProperties, ElementOfSeq DEF Range
  <2>4. p \in PendingPlacement /\ p.window = t
    BY <2>2, <2>3 DEF PendingPlacement
  <2> HIDE DEF p, g
  <2> QED BY <2>1, <2>2, <2>4
<1> QED BY <1>1, <1>2

LEMMA NewToplevelInv ==
  IInv /\ (\E t \in Windows, info \in Infos : NewToplevel(t, info)) => IInv'
<1> SUFFICES ASSUME IInv, NEW t \in Windows, NEW info \in Infos,
                    NewToplevel(t, info)
             PROVE  IInv'
  OBVIOUS
<1> DEFINE decision == Decide(config, info, Stub(shown, Known(t)), handled, t)
           action == decision.action
<1>1. /\ OwnTypeOK /\ PendingsAreLive /\ MovedAtMostOnce
      /\ hist \in History /\ requests \in Seq(Request)
      /\ pending \in Seq(PendingPlacement)
      /\ t \notin DOMAIN known /\ hist.targets[t] = << >>
  BY DEF IInv, OwnTypeOK, NewToplevel, Unseen
<1>2. /\ decision.warns \subseteq WarnKinds
      /\ action.kind = "Existing" => action.workspace \in Ids
  BY <1>1, DecideOnViews DEF OwnTypeOK
<1>3. /\ known' = Known(t) /\ handled' = handled \union {t}
      /\ warned' = warned \union decision.warns
      /\ UNCHANGED <<world, next_workspace, dirty, phase, place, shown, config,
                     recent, last_known, scan>>
  BY DEF NewToplevel, compositor, Warn
<1>4. \/ action.kind = "Skip" /\ UNCHANGED <<pending, hist, requests>>
      \/ /\ action.kind = "Existing"
         /\ hist' = NoteTarget(t, action.workspace)
         /\ PlaceNow(t, action.workspace) /\ pending' = pending
      \/ /\ action.kind = "Create" /\ hist' = hist
         /\ \E i \in GroupsFor(info) : CreatePlacement(t, i)
  BY DEF NewToplevel, SendsNothing
<1> HIDE DEF action, decision
<1>5. /\ DOMAIN known' = DOMAIN known \union {t} /\ DOMAIN known' \subseteq Windows
      /\ known' \in [DOMAIN known' -> SUBSET Ids]
      /\ handled' \subseteq Windows /\ warned' \subseteq WarnKinds
      /\ handled' = DOMAIN known'
  BY <1>1, <1>2, <1>3, KnownType DEF OwnTypeOK, PendingsAreLive
<1>6. CASE UNCHANGED <<pending, hist, requests>>
  <2>1. OwnTypeOK'
    BY <1>1, <1>3, <1>5, <1>6 DEF OwnTypeOK
  <2>2. PendingsAreLive' /\ MovedAtMostOnce'
    BY <1>1, <1>3, <1>5, <1>6 DEF PendingsAreLive, MovedAtMostOnce
  <2> QED BY <1>3, <1>5, <1>6, <2>1, <2>2 DEF IInv
<1>7. CASE /\ action.kind = "Existing"
           /\ hist' = NoteTarget(t, action.workspace)
           /\ PlaceNow(t, action.workspace) /\ pending' = pending
  <2> DEFINE w == action.workspace
  <2>1. w \in Ids
    BY <1>2, <1>7
  <2>2. requests' \in Seq(Request)
    BY <1>1, <1>7, <2>1, PlaceNowType
  <2>3. hist' \in History /\ \A s \in Windows \ {t} : hist'.targets[s] = hist.targets[s]
    BY <1>1, <1>7, <2>1, NoteTargetType
  <2>4. MovedAtMostOnce'
    BY <1>1, <1>7, <2>1, NoteTargetOnce
  <2>5. OwnTypeOK'
    BY <1>1, <1>3, <1>5, <1>7, <2>2, <2>3 DEF OwnTypeOK
  <2>6. PendingsAreLive'
    BY <1>1, <1>3, <1>5, <1>7, <2>3 DEF OwnTypeOK, PendingsAreLive
  <2>7. \A s \in Windows \ DOMAIN known' : hist'.targets[s] = << >>
    BY <1>5, <2>3 DEF IInv
  <2> QED BY <1>3, <2>4, <2>5, <2>6, <2>7 DEF IInv
<1>8. CASE hist' = hist /\ \E i \in GroupsFor(info) : CreatePlacement(t, i)
  <2>1. PICK i \in GroupsFor(info) : CreatePlacement(t, i)
    BY <1>8
  <2>2. CASE UNCHANGED <<pending, requests>>
    BY <1>6, <1>8, <2>2
  <2>3. CASE \E p \in PendingPlacement, g \in Nat :
               /\ p.window = t
               /\ pending' = Append(pending, p)
               /\ requests' = Append(requests, CreateIn(g))
    <3>1. PICK p \in PendingPlacement, g \in Nat :
            /\ p.window = t
            /\ pending' = Append(pending, p)
            /\ requests' = Append(requests, CreateIn(g))
      BY <2>3
    <3>4. p \in PendingPlacement /\ p.window = t
      BY <3>1
    <3>5. CreateIn(g) \in Request
      BY <3>1 DEF CreateIn, Request
    <3>6. requests' \in Seq(Request)
      BY <1>1, <3>1, <3>5, AppendProperties
    <3>7. /\ pending' \in Seq(PendingPlacement)
          /\ Len(pending') = Len(pending) + 1 /\ Len(pending) \in Nat
          /\ DOMAIN pending' = 1 .. Len(pending) + 1
          /\ DOMAIN pending = 1 .. Len(pending)
          /\ \A k \in 1 .. Len(pending) : pending'[k] = pending[k]
          /\ pending'[Len(pending) + 1] = p
      BY <1>1, <3>1, <3>4, AppendProperties, LenProperties
    <3>8. OwnTypeOK'
      <4>1. hist' \in History /\ scan' \in 0 .. Len(pending')
        BY <1>1, <1>3, <1>8, <3>7 DEF OwnTypeOK
      <4> QED BY <1>1, <1>3, <1>5, <3>6, <3>7, <4>1 DEF OwnTypeOK
    <3>9. PendingsAreLive'
      <4>1. \A k \in DOMAIN pending : pending[k].window \in DOMAIN known
        BY <1>1 DEF PendingsAreLive
      <4>2. \A k \in DOMAIN pending' :
              /\ pending'[k].window \in handled'
              /\ hist'.targets[pending'[k].window] = << >>
        <5> SUFFICES ASSUME NEW k \in DOMAIN pending'
                     PROVE  /\ pending'[k].window \in handled'
                            /\ hist'.targets[pending'[k].window] = << >>
          OBVIOUS
        <5>1. CASE k = Len(pending) + 1
          BY <1>1, <1>5, <1>8, <3>4, <3>7, <5>1
        <5>2. CASE k # Len(pending) + 1
          <6>1. k \in DOMAIN pending /\ pending'[k] = pending[k]
            BY <3>7, <5>2
          <6> QED BY <1>1, <1>3, <1>8, <6>1 DEF PendingsAreLive
        <5> QED BY <5>1, <5>2
      <4>3. \A k, j \in DOMAIN pending' :
              pending'[k].window = pending'[j].window => k = j
        <5> SUFFICES ASSUME NEW k \in DOMAIN pending', NEW j \in DOMAIN pending',
                            pending'[k].window = pending'[j].window
                     PROVE  k = j
          OBVIOUS
        <5>1. CASE k \in DOMAIN pending /\ j \in DOMAIN pending
          BY <1>1, <3>7, <5>1 DEF PendingsAreLive
        <5>2. CASE k = Len(pending) + 1 /\ j \in DOMAIN pending
          BY <1>1, <3>4, <3>7, <4>1, <5>2
        <5>3. CASE j = Len(pending) + 1 /\ k \in DOMAIN pending
          BY <1>1, <3>4, <3>7, <4>1, <5>3
        <5> QED BY <3>7, <5>1, <5>2, <5>3
      <4> QED BY <1>5, <4>2, <4>3 DEF PendingsAreLive
    <3>10. MovedAtMostOnce'
      BY <1>1, <1>8 DEF MovedAtMostOnce
    <3> QED BY <1>3, <1>5, <1>8, <3>8, <3>9, <3>10 DEF IInv
  <2> QED BY <1>1, <2>1, <2>2, <2>3, CreatePlacementType DEF OwnTypeOK
<1> QED BY <1>4, <1>6, <1>7, <1>8

(* Of the workspaces a closed window was on, those the daemon leaves are the
   emptied ones with a refuge, and it goes to a refuge. *)
LEMMA TriggerIsSound ==
  ASSUME OwnTypeOK, NEW t \in DOMAIN known, NEW rest,
         NEW closed \in SetToSeqs(known[t])
  PROVE  LET outcome == EvaluateTrigger(closed, TriggerView(rest), recent)
             left == {w \in Emptied(t, rest) : Refuges(w, rest) # {}}
         IN /\ outcome.kind \in {"NoOp", "Jump"}
            /\ outcome.kind = "Jump" <=> left # {}
            /\ outcome.kind = "Jump" =>
                 \E w \in left : outcome.target \in Refuges(w, rest)
<1> DEFINE view == TriggerView(rest)
           outcome == EvaluateTrigger(closed, view, recent)
           left == {w \in Emptied(t, rest) : Refuges(w, rest) # {}}
<1>1. /\ recent \in Seq(Ids) /\ Len(recent) \in Nat /\ IsWorld(shown)
      /\ known[t] \subseteq Ids
  BY LenProperties DEF OwnTypeOK
<1>2. /\ closed \in Seq(known[t]) /\ Len(closed) \in Nat
      /\ Range(closed) = known[t]
      /\ DOMAIN closed = 1 .. Len(closed)
      /\ closed = << >> <=> Len(closed) = 0
  <2>1. IsFiniteSet(Ids)
    BY FS_Interval, SessionAssumption DEF Ids
  <2>2. IsFiniteSet(known[t])
    BY <1>1, <2>1, FS_Subset
  <2> QED BY <2>2, InSomeOrder, LenProperties, EmptySeq
<1>3. /\ DOMAIN shown.home = Range(shown.workspaces)
      /\ Range(shown.workspaces) \subseteq Ids /\ Ids \subseteq Nat
      /\ shown.active \subseteq DOMAIN shown.home
  BY <1>1, WorldType DEF IsWorld
<1> DEFINE target(w) == JumpFrom(w, view, recent)
<1>4. ASSUME NEW w \in known[t] PROVE
        /\ Verdict(w, view, recent).kind = "Jump" <=> w \in left
        /\ w \in left => /\ Verdict(w, view, recent).target = target(w)
                        /\ target(w) \in Refuges(w, rest)
  <2>1. /\ view.active = shown.active /\ view.occupied = Occupied(rest)
        /\ DOMAIN view.group =
             {x \in DOMAIN shown.home : shown.home[x] \in GroupIds(shown)}
        /\ \A x \in DOMAIN view.group : view.group[x] = shown.home[x]
        /\ \A g \in GroupIds(shown) : view.members[g] = Range(Members(shown, g))
        /\ \A x \in Ids : view.coordinates[x] = x
    BY DEF TriggerView, Restrict
  <2>2. Verdict(w, view, recent).kind = "Jump" <=>
          /\ w \in view.active /\ w \notin view.occupied
          /\ w \in DOMAIN view.group /\ target(w) # NoWorkspace
    BY VerdictByCases
  <2>3. Verdict(w, view, recent).kind = "Jump" =>
          Verdict(w, view, recent).target = target(w)
    BY VerdictByCases DEF Jump
  <2> HIDE DEF view
  <2>4. CASE w \in DOMAIN view.group /\ w \notin view.occupied
    <3> DEFINE S == Eligible(w, view.members[view.group[w]], view.occupied)
    <3>1. /\ view.group[w] = shown.home[w] /\ shown.home[w] \in GroupIds(shown)
          /\ view.members[view.group[w]] =
               {x \in Range(shown.workspaces) : shown.home[x] = shown.home[w]}
      BY <1>1, <2>1, <2>4, MembersType
    <3>2. S = Refuges(w, rest)
      BY <1>3, <2>1, <2>4, <3>1 DEF Refuges, Eligible
    <3>3. S \subseteq Ids /\ \A x \in S : view.coordinates[x] \in Nat
      BY <1>3, <2>1, <3>2 DEF Refuges
    <3>4. (S = {} => target(w) = NoWorkspace) /\ (S # {} => target(w) \in S)
      BY <1>1, <1>3, <3>3, SelectJumpTargetIsBest DEF JumpFrom
    <3> HIDE DEF S
    <3>5. target(w) # NoWorkspace <=> S # {}
      BY <3>3, <3>4, WorldsAssumption
    <3> QED BY <2>1, <2>2, <2>3, <2>4, <3>2, <3>4, <3>5 DEF Emptied
  <2>5. CASE w \in view.occupied
    BY <2>1, <2>2, <2>5 DEF Emptied
  <2>6. CASE w \notin DOMAIN view.group
    <3>1. ~(w \in shown.active /\ shown.home[w] \in GroupIds(shown))
      BY <1>3, <2>1, <2>6
    <3>2. w \notin left
      BY <3>1 DEF Emptied, Refuges
    <3> QED BY <2>2, <2>6, <3>2
  <2> QED BY <2>4, <2>5, <2>6
<1>5. left \subseteq known[t]
  BY DEF Emptied
<1> DEFINE jumping == {i \in 1 .. Len(closed) :
                         Verdict(closed[i], view, recent).kind = "Jump"}
<1>6. /\ outcome.kind \in {"NoOp", "Jump"}
      /\ outcome.kind = "Jump" <=> jumping # {}
      /\ jumping # {} =>
           \E i \in jumping : outcome = Verdict(closed[i], view, recent)
  BY <1>2, TriggerByCases
<1> HIDE DEF view, outcome, left, target
<1>7. \A i \in 1 .. Len(closed) : closed[i] \in known[t]
  BY <1>2, ElementOfSeq
<1>8. left # {} => jumping # {}
  <2> SUFFICES ASSUME NEW w \in left PROVE jumping # {}
    OBVIOUS
  <2>1. PICK i \in 1 .. Len(closed) : w = closed[i]
    BY <1>2, <1>5 DEF Range
  <2> QED BY <1>4, <1>5, <2>1
<1>9. ASSUME NEW i \in jumping
      PROVE  closed[i] \in left
             /\ Verdict(closed[i], view, recent).target \in Refuges(closed[i], rest)
  BY <1>4, <1>7
<1>10. /\ outcome.kind \in {"NoOp", "Jump"}
       /\ outcome.kind = "Jump" <=> left # {}
       /\ outcome.kind = "Jump" =>
            \E w \in left : outcome.target \in Refuges(w, rest)
  BY <1>6, <1>8, <1>9
<1> QED BY <1>10 DEF view, outcome, left

LEMMA JumpIfEmptiedType ==
  ASSUME OwnTypeOK, NEW t \in DOMAIN known, NEW rest, JumpIfEmptied(t, rest)
  PROVE  LET left == {w \in Emptied(t, rest) : Refuges(w, rest) # {}}
         IN /\ requests' \in Seq(Request)
            /\ IF left # {}
                 THEN \E x \in Ids :
                        /\ requests' = Append(requests, Activate(x))
                        /\ RegisterActivation(x)
                        /\ \E w \in left : x \in Refuges(w, rest)
                 ELSE SendsNothing
<1> DEFINE left == {w \in Emptied(t, rest) : Refuges(w, rest) # {}}
<1>1. requests \in Seq(Request)
  BY DEF OwnTypeOK
<1>2. PICK closed \in SetToSeqs(known[t]) :
        LET outcome == EvaluateTrigger(closed, TriggerView(rest), recent)
        IN \/ outcome.kind = "NoOp" /\ SendsNothing
           \/ /\ outcome.kind = "Jump"
              /\ requests' = Append(requests, Activate(outcome.target))
              /\ RegisterActivation(outcome.target)
  BY DEF JumpIfEmptied
<1> DEFINE outcome == EvaluateTrigger(closed, TriggerView(rest), recent)
<1>3. /\ outcome.kind \in {"NoOp", "Jump"}
      /\ outcome.kind = "Jump" <=> left # {}
      /\ outcome.kind = "Jump" =>
           \E w \in left : outcome.target \in Refuges(w, rest)
  BY TriggerIsSound
<1>4. \/ outcome.kind = "NoOp" /\ SendsNothing
      \/ /\ outcome.kind = "Jump"
         /\ requests' = Append(requests, Activate(outcome.target))
         /\ RegisterActivation(outcome.target)
  BY <1>2
<1> HIDE DEF outcome, left
<1>5. \A w : Refuges(w, rest) \subseteq Ids
  <2>1. DOMAIN shown.home \subseteq Ids
    BY WorldType DEF OwnTypeOK
  <2> QED BY <2>1 DEF Refuges
<1>6. CASE left = {}
  BY <1>1, <1>3, <1>4, <1>6 DEF left, SendsNothing
<1>7. CASE left # {}
  <2>1. /\ outcome.target \in Ids
        /\ requests' = Append(requests, Activate(outcome.target))
        /\ RegisterActivation(outcome.target)
        /\ \E w \in left : outcome.target \in Refuges(w, rest)
    BY <1>3, <1>4, <1>5, <1>7
  <2>2. Activate(outcome.target) \in Request
    BY <2>1 DEF Activate, Request
  <2>3. requests' \in Seq(Request)
    BY <1>1, <2>1, <2>2, AppendProperties
  <2> QED BY <1>7, <2>1, <2>3 DEF left
<1> QED BY <1>6, <1>7

LEMMA EvictedOthers ==
  ASSUME pending \in Seq(PendingPlacement), NEW t, NEW r, r = Evicted(t)
  PROVE  /\ r \in Seq(PendingPlacement)
         /\ \E from \in [1 .. Len(r) -> 1 .. Len(pending)] :
              /\ \A i \in 1 .. Len(r) :
                   r[i] = pending[from[i]] /\ r[i].window # t
              /\ \A i, j \in 1 .. Len(r) : from[i] = from[j] => i = j
<1> DEFINE K == {p \in Range(pending) : p.window # t}
<1>1. r = Retained(pending, K)
  BY DEF Evicted
<1> HIDE DEF K
<1>2. PICK from : IsFrom(pending, K, r, Len(pending), from)
  BY <1>1, RetainedSources
<1>3. r \in Seq(PendingPlacement) /\ Len(r) \in Nat /\ Len(pending) \in Nat
  BY <1>1, RetainedSources, LenProperties
<1>4. from \in [1 .. Len(r) -> 1 .. Len(pending)]
  BY <1>2 DEF IsFrom
<1>5. ASSUME NEW i \in 1 .. Len(r), NEW j \in 1 .. Len(r), from[i] = from[j]
      PROVE  i = j
  <2>1. i < j => from[i] < from[j]
    BY <1>2 DEF IsFrom
  <2>2. j < i => from[j] < from[i]
    BY <1>2 DEF IsFrom
  <2>3. from[i] \in Nat /\ from[j] \in Nat /\ i \in Nat /\ j \in Nat
    BY <1>3, <1>4
  <2> QED BY <1>5, <2>1, <2>2, <2>3
<1>6. \A i \in 1 .. Len(r) : r[i] = pending[from[i]] /\ r[i].window # t
  BY <1>2 DEF IsFrom, K
<1> QED BY <1>3, <1>4, <1>5, <1>6

LEMMA ToplevelClosedInv == IInv /\ (\E t \in Windows : ToplevelClosed(t)) => IInv'
<1> SUFFICES ASSUME IInv, NEW t \in Windows, ToplevelClosed(t) PROVE IInv'
  OBVIOUS
<1> DEFINE rest == Restrict(known, DOMAIN known \ {t})
<1>1. /\ OwnTypeOK /\ PendingsAreLive /\ MovedAtMostOnce
      /\ hist \in History /\ requests \in Seq(Request)
      /\ pending \in Seq(PendingPlacement) /\ t \in DOMAIN known
      /\ hist.targets \in [Windows -> Seq(Ids)]
  BY DEF IInv, OwnTypeOK, ToplevelClosed, History
<1>2. /\ known' = rest /\ handled' = handled \ {t} /\ pending' = Evicted(t)
      /\ phase' = [phase EXCEPT ![t] = "gone"]
      /\ hist' = [hist EXCEPT !.targets = [hist.targets EXCEPT ![t] = << >>]]
      /\ UNCHANGED <<world, next_workspace, dirty, place, shown, config, warned,
                     recent, last_known, scan>>
      /\ scan = 0
  BY <1>1 DEF ToplevelClosed, History
<1>3. requests' \in Seq(Request)
  BY <1>1, JumpIfEmptiedType DEF ToplevelClosed, SendsNothing
<1>4. /\ DOMAIN known' = DOMAIN known \ {t} /\ DOMAIN known' \subseteq Windows
      /\ known' \in [DOMAIN known' -> SUBSET Ids]
  BY <1>1, <1>2 DEF OwnTypeOK, Restrict
<1>5. /\ pending' \in Seq(PendingPlacement) /\ Len(pending') \in Nat
      /\ DOMAIN pending' = 1 .. Len(pending') /\ DOMAIN pending = 1 .. Len(pending)
  BY <1>1, <1>2, EvictedOthers, LenProperties
<1>6. hist' \in History /\ \A s \in Windows :
        hist'.targets[s] = IF s = t THEN << >> ELSE hist.targets[s]
  <2> DEFINE fresh == [hist.targets EXCEPT ![t] = << >>]
  <2>1. /\ fresh \in [Windows -> Seq(Ids)]
        /\ \A s \in Windows : fresh[s] = IF s = t THEN << >> ELSE hist.targets[s]
    BY <1>1, EmptySeq
  <2>2. hist' = [hist EXCEPT !.targets = fresh]
    BY <1>2
  <2> HIDE DEF fresh
  <2>3. hist' \in History /\ hist'.targets = fresh
    BY <1>1, <2>1, <2>2 DEF History
  <2> QED BY <2>1, <2>3
<1>7. OwnTypeOK'
  <2>1. /\ phase' \in [Windows -> {"unborn", "open", "closed", "gone"}]
        /\ handled' \subseteq Windows /\ scan' \in 0 .. Len(pending')
    BY <1>1, <1>2, <1>5 DEF OwnTypeOK
  <2>2. hist' \in History
    BY <1>6
  <2> QED BY <1>1, <1>2, <1>3, <1>4, <1>5, <2>1, <2>2 DEF OwnTypeOK
<1>8. PendingsAreLive'
  <2>1. PICK from \in [1 .. Len(pending') -> 1 .. Len(pending)] :
          /\ \A i \in 1 .. Len(pending') :
               pending'[i] = pending[from[i]] /\ pending'[i].window # t
          /\ \A i, j \in 1 .. Len(pending') : from[i] = from[j] => i = j
    BY <1>1, <1>2, EvictedOthers
  <2>2. handled' = DOMAIN known'
    BY <1>1, <1>2, <1>4 DEF PendingsAreLive
  <2>3. ASSUME NEW i \in DOMAIN pending'
        PROVE  /\ pending'[i].window \in handled'
               /\ hist'.targets[pending'[i].window] = << >>
    <3>1. /\ from[i] \in DOMAIN pending /\ pending'[i] = pending[from[i]]
          /\ pending'[i].window # t
      BY <1>5, <2>1
    <3>2. /\ pending[from[i]].window \in handled
          /\ hist.targets[pending[from[i]].window] = << >>
      BY <1>1, <3>1 DEF PendingsAreLive
    <3>3. handled \subseteq Windows
      BY <1>1 DEF OwnTypeOK
    <3> QED BY <1>2, <1>6, <3>1, <3>2, <3>3
  <2>4. ASSUME NEW i \in DOMAIN pending', NEW j \in DOMAIN pending',
               pending'[i].window = pending'[j].window
        PROVE  i = j
    <3>1. /\ from[i] \in DOMAIN pending /\ pending'[i] = pending[from[i]]
          /\ from[j] \in DOMAIN pending /\ pending'[j] = pending[from[j]]
      BY <1>5, <2>1
    <3>2. from[i] = from[j]
      BY <1>1, <2>4, <3>1 DEF PendingsAreLive
    <3> QED BY <1>5, <2>1, <3>2
  <2> QED BY <2>2, <2>3, <2>4 DEF PendingsAreLive
<1>9. MovedAtMostOnce'
  <2> SUFFICES ASSUME NEW s \in Windows PROVE Len(hist'.targets[s]) <= 1
    BY DEF MovedAtMostOnce
  <2>1. CASE s = t
    BY <1>6, <2>1, EmptySeq
  <2>2. CASE s # t
    <3>1. hist'.targets[s] = hist.targets[s]
      BY <1>6, <2>2
    <3>2. Len(hist.targets[s]) <= 1
      BY <1>1 DEF MovedAtMostOnce
    <3> QED BY <3>1, <3>2, Zenon
  <2> QED BY <2>1, <2>2
<1>10. \A s \in Windows \ DOMAIN known' : hist'.targets[s] = << >>
  BY <1>4, <1>6 DEF IInv
<1>11. scan' \in {0, 1}
  BY <1>2
<1> QED BY <1>7, <1>8, <1>9, <1>10, <1>11 DEF IInv

(* The (group, active workspace) pairs, and what the MRU producer makes of
   them. *)
LEMMA CurrentActiveType ==
  ASSUME NEW view, IsWorld(view)
  PROVE  CurrentActive(view) \in Seq([group : Nat, workspace : Ids])
<1> DEFINE actives(g) == Retained(Members(view, g), view.active)
           lit == Retained(view.groups,
                           {g \in Range(view.groups) : actives(g.id) # << >>})
           current == [i \in DOMAIN lit |->
                         [group |-> lit[i].id, workspace |-> actives(lit[i].id)[1]]]
<1>1. view.groups \in Seq(AllGroups)
  BY DEF IsWorld
<1>2. \A g : actives(g) \in Seq(Ids)
  BY MembersType, RetainedSources
<1>3. /\ lit \in Seq(AllGroups) /\ Len(lit) \in Nat /\ DOMAIN lit = 1 .. Len(lit)
      /\ Range(lit) \subseteq {g \in Range(view.groups) : actives(g.id) # << >>}
  <2> DEFINE K == {g \in Range(view.groups) : actives(g.id) # << >>}
  <2> HIDE DEF K
  <2>1. /\ Retained(view.groups, K) \in Seq(AllGroups)
        /\ Range(Retained(view.groups, K)) = Range(view.groups) \intersect K
    BY <1>1, RetainedSources, RetainedRange
  <2>2. Range(Retained(view.groups, K)) \subseteq K
    BY <2>1
  <2> QED BY <2>1, <2>2, LenProperties DEF K
<1> HIDE DEF actives, lit
<1>4. ASSUME NEW i \in 1 .. Len(lit)
      PROVE  lit[i].id \in Nat /\ actives(lit[i].id)[1] \in Ids
  <2>1. lit[i] \in AllGroups
    BY <1>3, ElementOfSeq
  <2>2. lit[i] \in Range(lit)
    BY <1>3 DEF Range
  <2>3. actives(lit[i].id) # << >>
    BY <1>3, <2>2
  <2>4. Len(actives(lit[i].id)) \in Nat \ {0}
    BY <1>2, <2>3, EmptySeq
  <2>5. 1 \in 1 .. Len(actives(lit[i].id))
    BY <2>4
  <2>6. actives(lit[i].id)[1] \in Ids
    BY <1>2, <2>5, ElementOfSeq
  <2> QED BY <2>1, <2>6, WorldsAssumption
<1>5. current \in [1 .. Len(lit) -> [group : Nat, workspace : Ids]]
  BY <1>3, <1>4
<1>6. current \in Seq([group : Nat, workspace : Ids])
  BY <1>3, <1>5, SeqDef
<1> QED BY <1>6 DEF CurrentActive, actives, lit

LEMMA UpdateMruType ==
  ASSUME OwnTypeOK, UpdateMru
  PROVE  /\ recent' \in Seq(Ids) /\ Len(recent') <= MruCap
         /\ Range(last_known') \subseteq Ids
<1> DEFINE current == CurrentActive(world)
           new == Transitions(last_known, current)
<1>1. /\ recent \in Seq(Ids) /\ Len(recent) <= MruCap /\ IsWorld(world)
      /\ Range(last_known) \subseteq Ids
  BY DEF OwnTypeOK
<1>2. /\ current \in Seq([group : Nat, workspace : Ids])
      /\ DOMAIN current = 1 .. Len(current) /\ Len(current) \in Nat
      /\ \A i \in 1 .. Len(current) : current[i].workspace \in Ids
  <2>1. current \in Seq([group : Nat, workspace : Ids])
    BY <1>1, CurrentActiveType
  <2> HIDE DEF current
  <2>2. \A i \in 1 .. Len(current) : current[i] \in [group : Nat, workspace : Ids]
    BY <2>1, ElementOfSeq
  <2> QED BY <2>1, <2>2, LenProperties
<1> HIDE DEF current
<1>3. Len(new) \in Nat /\ \A i \in 1 .. Len(new) : new[i].workspace \in Ids
  <2>1. new \in Seq([group : Nat, workspace : Ids])
    BY <1>2, RetainedSources DEF Transitions
  <2> HIDE DEF new
  <2>2. \A i \in 1 .. Len(new) : new[i] \in [group : Nat, workspace : Ids]
    BY <2>1, ElementOfSeq
  <2> QED BY <2>1, <2>2, LenProperties
<1> HIDE DEF new
<1>4. /\ RecordAll(recent, new, MruCap) \in Seq(Ids)
      /\ Len(RecordAll(recent, new, MruCap)) <= MruCap
  BY <1>1, <1>3, RecordAllType, SessionAssumption
<1>5. Range(UpdateLast(last_known, current)) \subseteq Ids
  <2> SUFFICES ASSUME NEW g \in DOMAIN UpdateLast(last_known, current)
               PROVE  UpdateLast(last_known, current)[g] \in Ids
    BY DEF Range
  <2>1. CASE \E i \in DOMAIN current : current[i].group = g
    <3> DEFINE own == {i \in 1 .. Len(current) : current[i].group = g}
    <3>1. own # {} /\ own \subseteq Nat
      BY <1>2, <2>1
    <3>2. ActiveIn(current, g) = current[Min(own)].workspace
      <4>1. SelectInSeq(current, LAMBDA c : c.group = g) = Min(own)
        BY <3>1 DEF SelectInSeq
      <4> QED BY <4>1 DEF ActiveIn
    <3>3. Min(own) \in own
      BY <3>1, MinIsLeast
    <3>4. UpdateLast(last_known, current)[g] = ActiveIn(current, g)
      BY <2>1 DEF UpdateLast
    <3> QED BY <1>2, <3>2, <3>3, <3>4
  <2>2. CASE ~\E i \in DOMAIN current : current[i].group = g
    <3>1. g \in DOMAIN last_known /\ UpdateLast(last_known, current)[g] = last_known[g]
      BY <2>2 DEF UpdateLast
    <3> QED BY <1>1, <3>1 DEF Range
  <2> QED BY <2>1, <2>2
<1>6. CASE config.jump_on_empty
  BY <1>4, <1>5, <1>6 DEF UpdateMru, current, new
<1>7. CASE ~config.jump_on_empty
  BY <1>1, <1>7 DEF UpdateMru
<1> QED BY <1>6, <1>7

LEMMA WorkspaceDoneInv == IInv /\ WorkspaceDone => IInv'
<1> SUFFICES ASSUME IInv, WorkspaceDone PROVE IInv'
  OBVIOUS
<1>1. /\ OwnTypeOK /\ PendingsAreLive /\ MovedAtMostOnce
      /\ pending \in Seq(PendingPlacement) /\ Len(pending) \in Nat
      /\ DOMAIN pending = 1 .. Len(pending)
  BY LenProperties DEF IInv, OwnTypeOK
<1>2. /\ shown' = world /\ dirty' = FALSE
      /\ pending' = [i \in DOMAIN pending |->
                       [pending[i] EXCEPT !.before = @ \intersect Live]]
      /\ scan' = ScanFrom(1, pending)
      /\ UNCHANGED <<world, next_workspace, phase, place, requests, known, config,
                     handled, warned, hist>>
  BY DEF WorkspaceDone
<1>3. /\ recent' \in Seq(Ids) /\ Len(recent') <= MruCap
      /\ Range(last_known') \subseteq Ids
  BY <1>1, UpdateMruType DEF WorkspaceDone
<1>4. \A i \in 1 .. Len(pending) :
        /\ pending'[i] \in PendingPlacement
        /\ pending'[i].window = pending[i].window
  <2> SUFFICES ASSUME NEW i \in 1 .. Len(pending)
               PROVE  /\ pending'[i] \in PendingPlacement
                      /\ pending'[i].window = pending[i].window
    OBVIOUS
  <2>1. pending[i] \in PendingPlacement
    BY <1>1, ElementOfSeq
  <2>2. pending'[i] = [pending[i] EXCEPT !.before = @ \intersect Live]
    BY <1>1, <1>2
  <2> QED BY <2>1, <2>2 DEF PendingPlacement
<1>5. /\ pending' \in Seq(PendingPlacement) /\ Len(pending') = Len(pending)
      /\ DOMAIN pending' = 1 .. Len(pending)
  <2>1. DOMAIN pending' = 1 .. Len(pending)
    BY <1>1, <1>2
  <2>2. pending' \in [1 .. Len(pending) -> PendingPlacement]
    BY <1>2, <1>4, <2>1
  <2>3. pending' \in Seq(PendingPlacement)
    BY <1>1, <2>2, SeqDef
  <2>4. DOMAIN pending' = 1 .. Len(pending') /\ Len(pending') \in Nat
    BY <2>3, LenProperties
  <2> QED BY <1>1, <2>1, <2>3, <2>4
<1>6. scan' \in {0, 1} /\ scan' \in 0 .. Len(pending')
  BY <1>1, <1>2, <1>5 DEF ScanFrom
<1>7. OwnTypeOK'
  BY <1>1, <1>2, <1>3, <1>5, <1>6 DEF OwnTypeOK
<1>8. PendingsAreLive'
  BY <1>1, <1>2, <1>4, <1>5 DEF PendingsAreLive
<1>9. MovedAtMostOnce' /\ \A t \in Windows \ DOMAIN known' : hist'.targets[t] = << >>
  BY <1>2 DEF IInv, MovedAtMostOnce
<1> QED BY <1>6, <1>7, <1>8, <1>9 DEF IInv

(* What the scan does to the placement it is at: it never keeps it waiting,
   for its first cycle is already over, and sends its window nowhere but to a
   workspace that is new to it or not reported to be occupied. *)
LEMMA ScanSettlesOne ==
  ASSUME IInv, ScanPending
  PROVE  /\ scan = 1 /\ 1 \in 1 .. Len(pending)
         /\ pending' = SubSeq([pending EXCEPT ![1] = pending[Len(pending)]],
                              1, Len(pending) - 1)
         /\ scan' = ScanFrom(1, pending') /\ warned' \subseteq WarnKinds
         /\ \/ SendsNothing /\ UNCHANGED hist
            \/ \E w \in Ids : /\ hist' = NoteTarget(pending[1].window, w)
                              /\ PlaceNow(pending[1].window, w)
                              /\ (w \notin pending[1].before \/ w \notin Occupied(known))
<1>1. /\ OwnTypeOK /\ IsWorld(shown) /\ warned \subseteq WarnKinds
      /\ pending \in Seq(PendingPlacement) /\ Len(pending) \in Nat
      /\ scan = 1 /\ 1 \in 1 .. Len(pending)
  <2>1. scan = 1 /\ scan \in 0 .. Len(pending)
    BY DEF IInv, OwnTypeOK, ScanPending
  <2> QED BY <2>1, LenProperties DEF IInv, OwnTypeOK
<1>2. pending[1] \in PendingPlacement
  BY <1>1, ElementOfSeq
<1> DEFINE p == [pending[scan] EXCEPT !.cycles_waited = @ + 1]
           rows == Rows(shown, known, p.group)
           decision == IF p.group \notin GroupIds(shown)
                         THEN [kind |-> "GroupGone", index |-> 0]
                         ELSE EvaluatePending(p.before, rows, p.cycles_waited)
<1>3. /\ p.window = pending[1].window /\ p.before = pending[1].before
      /\ p.cycles_waited \in Nat /\ p.cycles_waited # 0
  BY <1>1, <1>2 DEF PendingPlacement
<1>4. IF decision.kind = "KeepWaiting"
        THEN /\ pending' = [pending EXCEPT ![scan] = p]
             /\ scan' = ScanFrom(scan + 1, pending)
             /\ UNCHANGED <<warned, hist>>
             /\ SendsNothing
        ELSE Resolve(p, decision)
  BY DEF ScanPending
<1>5. /\ ListedRows(rows)
      /\ \A i \in DOMAIN rows :
           rows[i].id \in Ids /\ (rows[i].occupied <=> rows[i].id \in Occupied(known))
  BY <1>1, RowsListed
<1> HIDE DEF p, rows
<1>6. /\ decision.kind \in {"GroupGone", "UseNew", "DegradeAndWarn"}
      /\ decision.index # 0 =>
           /\ decision.index \in DOMAIN rows
           /\ \/ rows[decision.index].id \notin p.before
              \/ ~rows[decision.index].occupied
  <2> DEFINE answer_ == EvaluatePending(p.before, rows, p.cycles_waited)
  <2>1. /\ answer_.kind = "UseNew" =>
             answer_.index \in {i \in DOMAIN rows : rows[i].id \notin p.before}
        /\ answer_.kind = "UseNew" <=> {i \in DOMAIN rows : rows[i].id \notin p.before} # {}
        /\ answer_.kind = "DegradeAndWarn" =>
             (answer_.index # 0 =>
                answer_.index \in DOMAIN rows /\ ~rows[answer_.index].occupied)
        /\ answer_.kind = "KeepWaiting" => p.cycles_waited = 0
    BY <1>3, <1>5, EvaluatePendingIsSound
  <2>2. answer_.kind \in {"UseNew", "DegradeAndWarn", "KeepWaiting"}
    BY DEF EvaluatePending
  <2> HIDE DEF answer_
  <2>3. CASE p.group \notin GroupIds(shown)
    BY <2>3
  <2>4. CASE p.group \in GroupIds(shown)
    <3>1. decision = answer_
      BY <2>4 DEF answer_
    <3> HIDE DEF decision
    <3> QED BY <1>3, <2>1, <2>2, <3>1
  <2> QED BY <2>3, <2>4
<1> HIDE DEF decision
<1>7. Resolve(p, decision)
  BY <1>4, <1>6
<1>8. /\ pending' = SwapRemove(pending, 1) /\ scan' = ScanFrom(1, pending')
      /\ warned' \subseteq WarnKinds
  BY <1>1, <1>7 DEF Resolve, Warn, WarnKinds
<1>9. \/ SendsNothing /\ UNCHANGED hist
      \/ \E w \in Ids : /\ hist' = NoteTarget(pending[1].window, w)
                        /\ PlaceNow(pending[1].window, w)
                        /\ (w \notin pending[1].before \/ w \notin Occupied(known))
  <2>1. CASE decision.index = 0
    BY <1>7, <2>1 DEF Resolve
  <2>2. CASE decision.index # 0
    <3> DEFINE w == rows[decision.index].id
    <3>1. w \in Ids /\ (w \notin p.before \/ w \notin Occupied(known))
      BY <1>5, <1>6, <2>2
    <3>2. hist' = NoteTarget(p.window, w) /\ PlaceNow(p.window, w)
      BY <1>7, <2>2 DEF Resolve, rows
    <3> QED BY <1>3, <3>1, <3>2
  <2> QED BY <2>1, <2>2
<1> QED BY <1>1, <1>8, <1>9 DEF SwapRemove

LEMMA ScanPendingInv == IInv /\ ScanPending => IInv'
<1> SUFFICES ASSUME IInv, ScanPending PROVE IInv'
  OBVIOUS
<1>1. /\ OwnTypeOK /\ PendingsAreLive /\ MovedAtMostOnce
      /\ hist \in History /\ requests \in Seq(Request)
      /\ pending \in Seq(PendingPlacement) /\ Len(pending) \in Nat
      /\ DOMAIN pending = 1 .. Len(pending)
  BY LenProperties DEF IInv, OwnTypeOK
<1>2. /\ scan = 1 /\ 1 \in 1 .. Len(pending)
      /\ scan' = ScanFrom(1, pending') /\ warned' \subseteq WarnKinds
      /\ UNCHANGED <<compositor, shown, known, config, handled, recent, last_known>>
  BY ScanSettlesOne DEF ScanPending
<1> DEFINE t == pending[1].window
<1>3. /\ pending' \in Seq(PendingPlacement) /\ Len(pending') = Len(pending) - 1
      /\ DOMAIN pending' = 1 .. Len(pending')
      /\ \A j \in 1 .. Len(pending') :
           pending'[j] = pending[IF j = 1 THEN Len(pending) ELSE j]
  <2> HIDE DEF t
  <2>1. pending' = SubSeq([pending EXCEPT ![1] = pending[Len(pending)]],
                          1, Len(pending) - 1)
    BY ScanSettlesOne
  <2>2. /\ pending' \in Seq(PendingPlacement) /\ Len(pending') = Len(pending) - 1
        /\ \A j \in 1 .. Len(pending') :
             pending'[j] = pending[IF j = 1 THEN Len(pending) ELSE j]
    BY <1>1, <1>2, <2>1, SwapRemoveKeepsOthers
  <2> QED BY <2>2, LenProperties
<1>4. t \in handled /\ t \in Windows /\ hist.targets[t] = << >> /\ t \in DOMAIN known
  BY <1>1, <1>2 DEF PendingsAreLive, OwnTypeOK
<1>5. requests' \in Seq(Request) /\ hist' \in History
  <2>1. CASE UNCHANGED <<requests, hist>>
    BY <1>1, <2>1
  <2>2. CASE \E w \in Ids : hist' = NoteTarget(t, w) /\ PlaceNow(t, w)
    <3> HIDE DEF t
    <3> QED BY <1>1, <1>4, <2>2, NoteTargetType, PlaceNowType
  <2> QED BY <2>1, <2>2, ScanSettlesOne DEF SendsNothing
<1>6. /\ MovedAtMostOnce'
      /\ \A s \in Windows \ {t} : hist'.targets[s] = hist.targets[s]
  <2>1. CASE UNCHANGED <<requests, hist>>
    BY <1>1, <2>1 DEF MovedAtMostOnce
  <2>2. CASE \E w \in Ids : hist' = NoteTarget(t, w) /\ PlaceNow(t, w)
    <3>1. PICK w \in Ids : hist' = NoteTarget(t, w)
      BY <2>2
    <3> HIDE DEF t
    <3>2. MovedAtMostOnce'
      BY <1>1, <1>4, <3>1, NoteTargetOnce
    <3>3. \A s \in Windows : hist'.targets[s] =
            IF s = t THEN Append(hist.targets[t], w) ELSE hist.targets[s]
      BY <1>1, <1>4, <3>1, NoteTargetType
    <3> QED BY <3>2, <3>3
  <2> QED BY <2>1, <2>2, ScanSettlesOne DEF SendsNothing
<1> HIDE DEF t
<1>7. scan' \in {0, 1} /\ scan' \in 0 .. Len(pending')
  BY <1>1, <1>2, <1>3 DEF ScanFrom
<1>8. OwnTypeOK'
  BY <1>1, <1>2, <1>3, <1>5, <1>7 DEF OwnTypeOK, compositor
<1>9. PendingsAreLive'
  <2> DEFINE from(j) == IF j = 1 THEN Len(pending) ELSE j
  <2>1. ASSUME NEW j \in DOMAIN pending'
        PROVE  /\ pending'[j] = pending[from(j)] /\ from(j) \in DOMAIN pending
               /\ from(j) # 1
    <3>1. j \in 1 .. Len(pending) - 1
      BY <1>3
    <3>2. from(j) \in 2 .. Len(pending)
      BY <1>1, <3>1
    <3> QED BY <1>1, <1>3, <3>2
  <2>2. ASSUME NEW j \in DOMAIN pending', NEW k \in DOMAIN pending', from(j) = from(k)
        PROVE  j = k
    <3>1. j \in 1 .. Len(pending) - 1 /\ k \in 1 .. Len(pending) - 1
      BY <1>3
    <3> QED BY <1>1, <2>2, <3>1
  <2> HIDE DEF from
  <2>3. handled' = DOMAIN known'
    BY <1>1, <1>2 DEF PendingsAreLive
  <2>4. \A j \in DOMAIN pending' :
          /\ pending'[j].window \in handled'
          /\ hist'.targets[pending'[j].window] = << >>
    <3> SUFFICES ASSUME NEW j \in DOMAIN pending'
                 PROVE  /\ pending'[j].window \in handled'
                        /\ hist'.targets[pending'[j].window] = << >>
      OBVIOUS
    <3>1. /\ pending[from(j)].window \in handled
          /\ hist.targets[pending[from(j)].window] = << >>
      BY <1>1, <2>1 DEF PendingsAreLive
    <3>2. pending[from(j)].window # t
      BY <1>1, <1>2, <2>1 DEF PendingsAreLive, t
    <3>3. pending[from(j)].window \in Windows \ {t}
      BY <1>1, <3>1, <3>2 DEF OwnTypeOK
    <3> QED BY <1>2, <1>6, <2>1, <3>1, <3>3
  <2>5. ASSUME NEW j \in DOMAIN pending', NEW k \in DOMAIN pending',
               pending'[j].window = pending'[k].window
        PROVE  j = k
    <3>1. from(j) = from(k)
      BY <1>1, <2>1, <2>5 DEF PendingsAreLive
    <3> QED BY <2>2, <3>1
  <2> QED BY <2>3, <2>4, <2>5 DEF PendingsAreLive
<1>10. \A s \in Windows \ DOMAIN known' : hist'.targets[s] = << >>
  BY <1>2, <1>4, <1>6 DEF IInv
<1> QED BY <1>6, <1>7, <1>8, <1>9, <1>10 DEF IInv

LEMMA TimerFiresInv == IInv /\ TimerFires => IInv'
BY DEF TimerFires, compositor, appdata, IInv, OwnTypeOK, PendingsAreLive,
       MovedAtMostOnce

LEMMA ReconnectInv == IInv /\ Reconnect => IInv'
<1> SUFFICES ASSUME IInv, Reconnect PROVE IInv'
  OBVIOUS
<1> DEFINE none == [t \in Windows |-> << >>]
<1>1. OwnTypeOK /\ hist \in History
  BY DEF IInv, OwnTypeOK
<1>2. none \in [Windows -> Seq(Ids)] /\ \A t \in Windows : none[t] = << >>
  BY EmptySeq
<1>3. /\ hist' = [hist EXCEPT !.sessions = @ + 1, !.targets = none]
      /\ phase' = [t \in Windows |-> IF phase[t] = "closed" THEN "gone"
                                     ELSE phase[t]]
      /\ dirty' = TRUE /\ requests' = << >> /\ shown' = Nothing
      /\ known' = << >> /\ handled' = {} /\ pending' = << >> /\ warned' = {}
      /\ recent' = << >> /\ last_known' = << >> /\ scan = 0
      /\ UNCHANGED <<world, next_workspace, place, scan, config>>
  BY DEF Reconnect
<1> HIDE DEF none
<1>4. hist' \in History /\ hist'.targets = none
  <2> DEFINE n == hist.sessions + 1
  <2>1. n \in Nat
    BY <1>1 DEF History
  <2>2. hist' = [hist EXCEPT !.sessions = n, !.targets = none]
    BY <1>3
  <2> HIDE DEF n
  <2> QED BY <1>1, <1>2, <2>1, <2>2 DEF History
<1>5. IsWorld(shown')
  <2>1. << >> \in Seq(AllGroups) /\ << >> \in Seq(Ids)
    BY EmptySeq
  <2>2. Range(<< >>) = {} /\ << >> \in [{} -> Nat \union {NoGroup}]
    BY DEF Range
  <2> QED BY <1>3, <2>1, <2>2 DEF Nothing, IsWorld
<1>6. DOMAIN known' = {} /\ DOMAIN pending' = {} /\ Range(last_known') = {}
  BY <1>3 DEF Range
<1>7. OwnTypeOK'
  <2>1. /\ requests' \in Seq(Request) /\ pending' \in Seq(PendingPlacement)
        /\ recent' \in Seq(Ids) /\ Len(recent') <= MruCap
        /\ scan' \in 0 .. Len(pending')
    BY <1>3, EmptySeq, SessionAssumption
  <2>2. known' \in [DOMAIN known' -> SUBSET Ids]
    BY <1>3, <1>6
  <2>3. phase' \in [Windows -> {"unborn", "open", "closed", "gone"}]
    BY <1>1, <1>3 DEF OwnTypeOK
  <2> QED BY <1>1, <1>3, <1>4, <1>5, <1>6, <2>1, <2>2, <2>3 DEF OwnTypeOK
<1>8. PendingsAreLive'
  BY <1>3, <1>6 DEF PendingsAreLive
<1>9. MovedAtMostOnce' /\ \A t \in Windows \ DOMAIN known' : hist'.targets[t] = << >>
  BY <1>2, <1>4, EmptySeq DEF MovedAtMostOnce
<1> QED BY <1>3, <1>7, <1>8, <1>9 DEF IInv

LEMMA NextInv == IInv /\ [Next]_vars => IInv'
<1> SUFFICES ASSUME IInv, [Next]_vars PROVE IInv'
  OBVIOUS
<1>1. CASE UNCHANGED vars
  BY <1>1 DEF vars, compositor, appdata, IInv, OwnTypeOK, PendingsAreLive,
              MovedAtMostOnce
<1>2. CASE Next
  BY <1>2, NewToplevelInv, UpdateToplevelInv, ToplevelClosedInv,
     WorkspaceDoneInv, ScanPendingInv, TimerFiresInv, ReconnectInv, OpenInv,
     CloseInv, UserSwitchesInv, DecorateInv, AddWorkspaceInv,
     RemoveWorkspaceInv, UnplugInv, ProcessRequestInv DEF Next
<1> QED BY <1>1, <1>2

THEOREM InductiveInvariant == Spec => []IInv
<1>1. Init => IInv
  BY InitInv
<1>2. IInv /\ [Next]_vars => IInv'
  BY NextInv
<1> QED BY <1>1, <1>2, PTL DEF Spec

(* A deferred placement waits only for a window the daemon knows, has not
   moved and waits for once, whatever the compositor does. *)
THEOREM QueueIsLive == Spec => []PendingsAreLive
BY InductiveInvariant, PTL DEF IInv

(* No window is moved twice. *)
THEOREM MovesAreUnique == Spec => []MovedAtMostOnce
BY InductiveInvariant, PTL DEF IInv

-----------------------------------------------------------------------------
(* What a step may never do. *)

(* One done of the workspace handler empties the queue of deferred
   placements. *)
THEOREM ScanEmptiesQueue == Spec => OneDoneSettlesAll
<1>1. ASSUME IInv, [Next]_vars
      PROVE  [scan # 0 /\ scan' = 0 => pending' = << >>]_vars
  <2> SUFFICES ASSUME scan # 0, scan' = 0 PROVE pending' = << >>
    BY DEF vars
  <2>1. CASE ScanPending
    <3>1. scan' = ScanFrom(1, pending')
      BY <1>1, <2>1, ScanSettlesOne
    <3>2. pending' \in Seq(PendingPlacement) /\ Len(pending') \in Nat
      <4>1. IInv'
        BY <1>1, NextInv
      <4> QED BY <4>1, LenProperties DEF IInv, OwnTypeOK
    <3>3. Len(pending') = 0
      BY <3>1, <3>2 DEF ScanFrom
    <3> QED BY <3>2, <3>3, EmptySeq
  <2>2. CASE UNCHANGED vars
    BY <2>2 DEF vars, appdata
  <2>3. CASE Next /\ ~ScanPending
    BY <2>3 DEF Next, NewToplevel, UpdateToplevel, ToplevelClosed,
       WorkspaceDone, TimerFires, Reconnect, Open, Close, UserSwitches,
       Decorate, AddWorkspace, RemoveWorkspace, Unplug, ProcessRequest,
       appdata, daemon
  <2> QED BY <1>1, <2>1, <2>2, <2>3
<1> QED BY <1>1, InductiveInvariant, PTL DEF Spec, OneDoneSettlesAll

LEMMA WhoLearns ==
  ASSUME [Next]_vars
  PROVE  \/ known' = known
         \/ \E t \in Windows, info \in Infos : NewToplevel(t, info)
         \/ \E t \in Windows : UpdateToplevel(t)
         \/ \E t \in Windows : ToplevelClosed(t)
         \/ Reconnect
<1>1. CASE UNCHANGED vars
  BY <1>1 DEF vars
<1>2. CASE Next
  BY <1>2 DEF Next, WorkspaceDone, ScanPending, TimerFires, Open, Close,
     UserSwitches, Decorate, AddWorkspace, RemoveWorkspace, Unplug,
     ProcessRequest, appdata, daemon
<1> QED BY <1>1, <1>2

(* Closing a window jumps exactly when it left an active workspace of its group
   empty and there is another to go to. *)
THEOREM JumpsGoToRefuges == Spec => JumpsAreSound
<1> DEFINE Sound(t) ==
      ClosesHandled(t) =>
        LET left == {w \in Emptied(t, known') : Refuges(w, known') # {}}
        IN IF config.jump_on_empty /\ left # {}
             THEN /\ Len(requests') = Len(requests) + 1
                  /\ \E w \in left : requests'[Len(requests')].workspace
                                       \in Refuges(w, known')
             ELSE requests' = requests
<1>1. ASSUME IInv, [Next]_vars PROVE \A t \in Windows : Sound(t)
  <2> SUFFICES ASSUME NEW t \in Windows, ClosesHandled(t) PROVE Sound(t)
    OBVIOUS
  <2>1. PICK s \in Windows : ToplevelClosed(s)
    <3>1. known' # known /\ t \in DOMAIN known /\ t \notin DOMAIN known'
          /\ hist'.sessions = hist.sessions
      BY DEF ClosesHandled
    <3>2. ~\E r \in Windows, info \in Infos : NewToplevel(r, info)
      BY <3>1 DEF NewToplevel, Known
    <3>3. ~\E r \in Windows : UpdateToplevel(r)
      BY <3>1 DEF UpdateToplevel, Known
    <3>4. ~Reconnect
      <4> SUFFICES ASSUME Reconnect PROVE FALSE
        OBVIOUS
      <4>1. hist \in History /\ hist.sessions \in Nat
        BY <1>1 DEF IInv, OwnTypeOK, History
      <4>2. hist'.sessions = hist.sessions + 1
        BY <4>1 DEF Reconnect, History
      <4> QED BY <3>1, <4>1, <4>2
    <3> QED BY <1>1, <3>1, <3>2, <3>3, <3>4, WhoLearns
  <2>2. s = t /\ known' = Restrict(known, DOMAIN known \ {t})
    BY <2>1 DEF ToplevelClosed, ClosesHandled, Restrict
  <2>3. OwnTypeOK /\ t \in DOMAIN known /\ requests \in Seq(Request)
    BY <1>1 DEF ClosesHandled, IInv, OwnTypeOK
  <2> DEFINE rest == known'
             left == {w \in Emptied(t, rest) : Refuges(w, rest) # {}}
  <2>4. CASE config.jump_on_empty
    <3>1. JumpIfEmptied(t, known')
      BY <2>1, <2>2, <2>4 DEF ToplevelClosed
    <3>2. IF left # {}
            THEN \E x \in Ids :
                   /\ requests' = Append(requests, Activate(x))
                   /\ \E w \in left : x \in Refuges(w, rest)
            ELSE requests' = requests
      <4>1. IF left # {}
              THEN \E x \in Ids :
                     /\ requests' = Append(requests, Activate(x))
                     /\ RegisterActivation(x)
                     /\ \E w \in left : x \in Refuges(w, rest)
              ELSE SendsNothing
        BY <2>3, <3>1, JumpIfEmptiedType
      <4> QED BY <4>1 DEF SendsNothing
    <3>3. CASE left = {}
      BY <3>2, <3>3
    <3>4. CASE left # {}
      <4>1. PICK x \in Ids : /\ requests' = Append(requests, Activate(x))
                            /\ \E w \in left : x \in Refuges(w, rest)
        BY <3>2, <3>4
      <4>2. Activate(x) \in Request /\ Activate(x).workspace = x
        BY DEF Activate, Request
      <4> DEFINE a == Activate(x)
      <4> HIDE DEF a, left
      <4>3. /\ Len(requests') = Len(requests) + 1
            /\ requests'[Len(requests')] = a
        <5>1. /\ requests' = Append(requests, a) /\ a \in Request
          BY <4>1, <4>2 DEF a
        <5>2. /\ Len(Append(requests, a)) = Len(requests) + 1
              /\ Append(requests, a)[Len(requests) + 1] = a
          BY <2>3, <5>1, AppendProperties
        <5> QED BY <5>1, <5>2
      <4> QED BY <2>4, <3>4, <4>1, <4>2, <4>3 DEF a, left
    <3> QED BY <3>3, <3>4
  <2>5. CASE ~config.jump_on_empty
    BY <2>1, <2>5 DEF ToplevelClosed, SendsNothing
  <2> QED BY <2>4, <2>5
<1>2. IInv /\ [Next]_vars => [\A t \in Windows : Sound(t)]_vars
  BY <1>1
<1> QED BY <1>2, InductiveInvariant, PTL DEF Spec, JumpsAreSound

(* Who sends a window to a workspace: the handler of a window that appears, or
   the scan. *)
LEMMA WhoSends ==
  ASSUME IInv, [Next]_vars, NEW t \in Windows, IsSent(t)
  PROVE  (\E info \in Infos : NewToplevel(t, info)) \/ ScanPending
<1>1. /\ hist \in History /\ hist'.targets # hist.targets
      /\ hist'.targets[t] # hist.targets[t] /\ hist'.targets[t] # << >>
  BY DEF IInv, OwnTypeOK, IsSent
<1>2. ~UNCHANGED hist
  BY <1>1
<1>3. hist'.targets \notin {[s \in Windows |-> << >>], [hist.targets EXCEPT ![t] = << >>]}
  BY <1>1 DEF History
<1>4. ASSUME NEW s \in Windows, ToplevelClosed(s)
      PROVE  FALSE
  <2>1. hist'.targets = [hist.targets EXCEPT ![s] = << >>]
    BY <1>1, <1>4 DEF ToplevelClosed, History
  <2>2. hist'.targets[t] \in {<< >>, hist.targets[t]}
    BY <1>1, <2>1 DEF History
  <2> QED BY <1>1, <2>2
<1>5. ~Reconnect
  BY <1>1, <1>3 DEF Reconnect, History
<1>6. ~(\E w \in Ids, g \in GroupIds(world) : AddWorkspace(w, g))
  BY <1>1 DEF AddWorkspace, NewWorkspace, History
<1>7. ~ProcessRequest
  BY <1>1 DEF ProcessRequest, Honour, Ignore, NewWorkspace, History
<1>8. ~Decorate /\ ~(\E s \in Windows : Open(s))
  BY <1>1 DEF Decorate, Open, History
<1>9. \/ \E s \in Windows, info \in Infos : NewToplevel(s, info)
      \/ ScanPending
  BY <1>2, <1>4, <1>5, <1>6, <1>7, <1>8 DEF Next, vars, UpdateToplevel,
     WorkspaceDone, TimerFires, Close, UserSwitches, RemoveWorkspace, Unplug
<1>10. ASSUME NEW s \in Windows, NEW info \in Infos, NewToplevel(s, info)
       PROVE  s = t
  <2>1. \E w \in Ids : hist' = NoteTarget(s, w)
    <3> DEFINE action == Decide(config, info, Stub(shown, Known(s)), handled, s).action
    <3>1. action.kind = "Existing" /\ hist' = NoteTarget(s, action.workspace)
      BY <1>2, <1>10 DEF NewToplevel
    <3> HIDE DEF action
    <3>2. action.kind = "Existing" => action.workspace \in Ids
      BY DecideOnViews DEF IInv, OwnTypeOK, action
    <3> QED BY <3>1, <3>2
  <2>2. PICK w \in Ids : hist' = NoteTarget(s, w)
    BY <2>1
  <2>3. hist'.targets[t] = IF t = s THEN Append(hist.targets[s], w) ELSE hist.targets[t]
    BY <1>1, <2>2, NoteTargetType
  <2> QED BY <1>1, <2>3
<1> QED BY <1>9, <1>10

(* A workspace that no report names is one whose windows have reports that are
   missing or out of date. *)
LEMMA UnreportedAreBehind ==
  ASSUME NEW w, w \notin Occupied(known)',
         NEW s \in Windows, w \in place'[s]
  PROVE  Behind(s)'
BY DEF Occupied, Range, Behind

(* Windows come to share a workspace only where a report is behind, or where a
   waiting window takes a workspace that is new to it. *)
THEOREM SharingIsThroughStaleness == Spec => SharingNeedsStaleness
<1> DEFINE Told(t) == IsSent(t) =>
      LET w == hist'.targets[t][1]
      IN \/ IsNewTo(t, w)
         \/ \A s \in Windows : phase[s] = "open" /\ w \in place[s] => Behind(s)'
<1>1. ASSUME IInv, [Next]_vars PROVE \A t \in Windows : Told(t)
  <2> SUFFICES ASSUME NEW t \in Windows, IsSent(t) PROVE Told(t)
    OBVIOUS
  <2>1. /\ OwnTypeOK /\ PendingsAreLive /\ MovedAtMostOnce
        /\ hist \in History /\ IsWorld(shown)
        /\ hist'.targets[t] # hist.targets[t]
    BY <1>1 DEF IInv, OwnTypeOK, IsSent
  <2>2. CASE \E info \in Infos : NewToplevel(t, info)
    <3>1. PICK info \in Infos : NewToplevel(t, info)
      BY <2>2
    <3> DEFINE action == Decide(config, info, Stub(shown, Known(t)), handled, t).action
    <3>2. action.kind = "Existing" /\ hist' = NoteTarget(t, action.workspace)
      BY <2>1, <3>1 DEF NewToplevel
    <3>3. known' = Known(t) /\ place' = place /\ hist.targets[t] = << >>
      BY <1>1, <3>1 DEF NewToplevel, compositor, Unseen, IInv
    <3> HIDE DEF action
    <3>4. action.workspace \in Ids /\ action.workspace \notin Occupied(Known(t))
      <4>1. action.kind = "Existing" =>
              action.workspace \in Ids /\ action.workspace \notin Occupied(Known(t))
        BY <2>1, DecideOnViews DEF action
      <4> QED BY <3>2, <4>1
    <3>5. hist'.targets[t] = <<action.workspace>>
      BY <2>1, <3>2, <3>3, <3>4, NoteTargetOnce
    <3>6. hist'.targets[t][1] = action.workspace
      BY <3>5
    <3>7. action.workspace \notin Occupied(known)'
      BY <3>3, <3>4 DEF Occupied
    <3> QED BY <3>3, <3>6, <3>7, UnreportedAreBehind
  <2>3. CASE ScanPending
    <3>1. /\ 1 \in DOMAIN pending /\ known' = known /\ place' = place
          /\ pending[1].window \in Windows /\ hist.targets[pending[1].window] = << >>
      <4>1. /\ 1 \in 1 .. Len(pending) /\ pending \in Seq(PendingPlacement)
            /\ known' = known /\ place' = place
        BY <1>1, <2>1, <2>3, ScanSettlesOne DEF ScanPending, compositor, OwnTypeOK
      <4>2. 1 \in DOMAIN pending /\ pending[1] \in PendingPlacement
        BY <4>1, ElementOfSeq, LenProperties
      <4> QED BY <2>1, <4>1, <4>2 DEF PendingPlacement, PendingsAreLive
    <3>2. PICK w \in Ids : /\ hist' = NoteTarget(pending[1].window, w)
                           /\ (w \notin pending[1].before \/ w \notin Occupied(known))
      BY <1>1, <2>1, <2>3, ScanSettlesOne
    <3> DEFINE r == pending[1].window
    <3>3. r \in Windows /\ hist.targets[r] = << >> /\ hist' = NoteTarget(r, w)
      BY <3>1, <3>2
    <3> HIDE DEF r
    <3>4. hist'.targets[t] = IF t = r THEN Append(hist.targets[r], w) ELSE hist.targets[t]
      BY <2>1, <3>3, NoteTargetType
    <3>5. t = r
      BY <2>1, <3>4
    <3>6. hist'.targets[t] = <<w>>
      BY <2>1, <3>3, <3>5, NoteTargetOnce
    <3>7. hist'.targets[t][1] = w
      BY <3>6
    <3>8. CASE w \notin pending[1].before
      BY <3>1, <3>5, <3>7, <3>8 DEF IsNewTo, r
    <3>9. CASE w \notin Occupied(known)
      <4>1. w \notin Occupied(known)'
        BY <3>1, <3>9 DEF Occupied
      <4> QED BY <3>1, <3>7, <4>1, UnreportedAreBehind
    <3> QED BY <3>2, <3>8, <3>9
  <2> QED BY <1>1, <2>2, <2>3, WhoSends
<1>2. IInv /\ [Next]_vars => [\A t \in Windows : Told(t)]_vars
  BY <1>1
<1> QED BY <1>2, InductiveInvariant, PTL DEF Spec, SharingNeedsStaleness
=============================================================================
