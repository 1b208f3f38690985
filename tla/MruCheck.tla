------------------------------ MODULE MruCheck ------------------------------
(***************************************************************************)
(* The MRU list as done() batches feed it (update_mru_from_active_         *)
(* transitions), and the jump target it yields, against what a user would  *)
(* call the most recently visited workspace.                               *)
(***************************************************************************)
EXTENDS MruJump, FiniteSets

CONSTANTS
  Groups,         \* workspace groups
  Workspaces,     \* workspace ids, numbers
  GroupOf(_),     \* the group a workspace belongs to
  CoordinatesOf,  \* the rank of each workspace's coordinates
  Cap,            \* MRU_CAP
  MaxVisits       \* bound: how many visits one behaviour may record

(* Groups come in a list; ids and coordinates are unsigned numbers. *)
ASSUME MruAssumption ==
  /\ Cap \in Nat \ {0}
  /\ IsFiniteSet(Groups)
  /\ \A w \in Workspaces : GroupOf(w) \in Groups
  /\ Workspaces \subseteq Nat /\ NoWorkspace \notin Workspaces
  /\ CoordinatesOf \in [Workspaces -> Nat]

VARIABLES
  recent,         \* AppData.recent_workspaces
  last_known,     \* AppData.last_known_active
  visits          \* history: every workspace that became active, in order

vars == <<recent, last_known, visits>>

Members(g) == {w \in Workspaces : GroupOf(w) = g}

TypeOK ==
  /\ recent \in Seq(Workspaces) /\ Len(recent) <= Cap
  /\ \A g \in DOMAIN last_known : g \in Groups /\ last_known[g] \in Members(g)

Init ==
  /\ recent = << >>
  /\ last_known = << >>
  /\ visits = << >>

(* One done() batch: shown gives the workspace each group shows as active;
   groups without one are not in it.  Listed in some order of the groups. *)
Listings(shown) ==
  {s \in [1 .. Cardinality(DOMAIN shown) -> DOMAIN shown] :
     \A i, j \in DOMAIN s : s[i] = s[j] => i = j}

Batch(shown, order) ==
  LET current == [i \in DOMAIN order |->
                    [group |-> order[i], workspace |-> shown[order[i]]]]
      new == Transitions(last_known, current)
  IN /\ Len(visits) + Len(new) <= MaxVisits
     /\ recent' = RecordAll(recent, new, Cap)
     /\ last_known' = UpdateLast(last_known, current)
     /\ visits' = visits \o [i \in DOMAIN new |-> new[i].workspace]

Next ==
  \E G \in SUBSET Groups :
    \E shown \in {f \in [G -> Workspaces] : \A g \in G : GroupOf(f[g]) = g} :
      \E order \in Listings(shown) : Batch(shown, order)

Spec == Init /\ [][Next]_vars

-----------------------------------------------------------------------------
LastVisitIn(v, w) ==
  LET V == {i \in DOMAIN v : v[i] = w}
  IN IF V = {} THEN 0 ELSE CHOOSE i \in V : \A j \in V : j <= i

LastVisit(w) == LastVisitIn(visits, w)

(* The list holds the Cap workspaces visited last, each once, the latest
   first: no visit is lost or counted twice, whatever the groups did at the
   same time. *)
ListIsTheRecentVisits ==
  /\ \A i, j \in DOMAIN recent :
       i < j => LastVisit(recent[i]) > LastVisit(recent[j])
  /\ \A w \in Workspaces :
       (\E i \in DOMAIN recent : recent[i] = w) <=>
         /\ LastVisit(w) > 0
         /\ Cardinality({x \in Workspaces : LastVisit(x) > LastVisit(w)}) < Cap

(* The two structures tell the same story: of a group's workspaces in the list
   the first is the one last seen active there, also after the group was
   without an active workspace for a while. *)
FirstIsLastKnown ==
  \A i \in DOMAIN recent :
    LET g == GroupOf(recent[i]) IN
    (\A j \in 1 .. i - 1 : GroupOf(recent[j]) # g) =>
      g \in DOMAIN last_known /\ last_known[g] = recent[i]

(* The jump target: occupied, in the group, not the workspace left; and no
   other such workspace was visited later, nor, when none of them is in the
   list, has lower coordinates. *)
JumpIsBest ==
  \A current \in Workspaces : \A occupied \in SUBSET Workspaces :
    LET g == GroupOf(current)
        S == (Members(g) \intersect occupied) \ {current}
        target == SelectJumpTarget(current, Members(g), occupied, recent,
                                   CoordinatesOf)
        listed == {w \in S : \E i \in DOMAIN recent : recent[i] = w}
    IN IF S = {} THEN target = NoWorkspace
       ELSE /\ target \in S
            /\ listed # {} =>
                 \A w \in S : LastVisit(w) <= LastVisit(target)
            /\ listed = {} =>
                 \A w \in S : CoordinatesOf[target] <= CoordinatesOf[w]

-----------------------------------------------------------------------------
(* The inductive strengthening behind the proofs. *)

(* The list r tells of the visits v: the latest first, and what it is silent
   about is older than all of a full list. *)
TellsOf(r, v) ==
  /\ r \in Seq(Workspaces) /\ Len(r) <= Cap /\ v \in Seq(Workspaces)
  /\ \A i \in 1 .. Len(r) : LastVisitIn(v, r[i]) > 0
  /\ \A i, j \in 1 .. Len(r) :
       i < j => LastVisitIn(v, r[i]) > LastVisitIn(v, r[j])
  /\ \A w \in Workspaces :
       (LastVisitIn(v, w) > 0 /\ \A i \in 1 .. Len(r) : r[i] # w) =>
         /\ Len(r) = Cap
         /\ \A i \in 1 .. Len(r) : LastVisitIn(v, r[i]) > LastVisitIn(v, w)

(* Of a group's workspaces none was visited after its last known one. *)
LastKnownIsLatest ==
  \A w \in Workspaces : LastVisit(w) > 0 =>
    /\ GroupOf(w) \in DOMAIN last_known
    /\ LastVisit(w) <= LastVisit(last_known[GroupOf(w)])

IInv == TypeOK /\ TellsOf(recent, visits) /\ LastKnownIsLatest
=============================================================================
