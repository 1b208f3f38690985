------------------------------ MODULE MruJump -------------------------------
(***************************************************************************)
(* The JUMP_ON_EMPTY decisions, src/mru_jump.rs, as operators.  A          *)
(* workspace's coordinates, compared lexicographically by the code, are    *)
(* represented by their rank in that order.                                *)
(***************************************************************************)
EXTENDS Retain, SequencesExt

CONSTANT NoWorkspace     \* Option::None of a workspace

(* select_jump_target: the most recent eligible workspace, or else the
   eligible one with the lowest coordinates, the lowest id breaking ties. *)
(* Mutant: empty workspaces are eligible. *)
EligibleThoughEmpty(current, group_workspaces, occupied) ==
  group_workspaces \ {current}

Eligible(current, group_workspaces, occupied) ==
  (group_workspaces \intersect occupied) \ {current}

Lowest(S, coordinates) ==
  CHOOSE w \in S : \A x \in S :
    \/ coordinates[w] < coordinates[x]
    \/ coordinates[w] = coordinates[x] /\ w <= x

SelectJumpTarget(current, group_workspaces, occupied, recent, coordinates) ==
  LET S == Eligible(current, group_workspaces, occupied)
      i == SelectInSeq(recent, LAMBDA w : w \in S)
  IN IF i # 0 THEN recent[i]
     ELSE IF S # {} THEN Lowest(S, coordinates)
     ELSE NoWorkspace

(* record_mru_transition: to the front, once, and at most cap entries. *)
(* Mutants: the list is not capped; an earlier visit stays in it. *)
RecordTransitionUncapped(recent, w, cap) ==
  <<w>> \o Retained(recent, Range(recent) \ {w})

RecordTransitionTwice(recent, w, cap) ==
  SubSeq(<<w>> \o recent, 1, IF Len(recent) < cap THEN Len(recent) + 1 ELSE cap)

RecordTransition(recent, w, cap) ==
  LET moved == <<w>> \o Retained(recent, Range(recent) \ {w})
  IN SubSeq(moved, 1, IF Len(moved) <= cap THEN Len(moved) ELSE cap)

(* detect_transitions_and_update, on the active workspace of each group that
   has one (current, a sequence of records group, workspace).  Groups that
   are not in current keep their entry in last. *)
ActiveIn(current, g) ==
  current[SelectInSeq(current, LAMBDA c : c.group = g)].workspace

Transitions(last, current) ==
  Retained(current, {c \in Range(current) : \/ c.group \notin DOMAIN last
                                            \/ last[c.group] # c.workspace})

(* Mutant: groups without an active workspace are forgotten. *)
UpdateLastForgets(last, current) ==
  [g \in {current[i].group : i \in DOMAIN current} |-> ActiveIn(current, g)]

UpdateLast(last, current) ==
  [g \in DOMAIN last \union {current[i].group : i \in DOMAIN current} |->
     IF \E i \in DOMAIN current : current[i].group = g
       THEN ActiveIn(current, g) ELSE last[g]]

RecordAll(recent, transitions, cap) ==
  LET after[n \in 0 .. Len(transitions)] ==
        IF n = 0 THEN recent
        ELSE RecordTransition(after[n - 1], transitions[n].workspace, cap)
  IN after[Len(transitions)]

(* evaluate_trigger.  closed is the sequence of workspaces the closed window
   was on; view gives for each whether it is active, its occupants but for
   the closed window, its group, and the group's workspaces and occupied
   workspaces.  A jump, or the reason there is none. *)
NoOp(reason) == [kind |-> "NoOp", reason |-> reason]
Jump(source, target) == [kind |-> "Jump", source |-> source, target |-> target]

JumpFrom(w, view, recent) ==
  SelectJumpTarget(w, view.members[view.group[w]], view.occupied, recent,
                   view.coordinates)

Verdict(w, view, recent) ==
  IF w \notin view.active THEN NoOp("NotActive")
  ELSE IF w \in view.occupied THEN NoOp("StillOccupied")
  ELSE IF w \notin DOMAIN view.group THEN NoOp("NoGroup")
  ELSE IF JumpFrom(w, view, recent) = NoWorkspace THEN NoOp("NoTarget")
  ELSE Jump(w, JumpFrom(w, view, recent))

EvaluateTrigger(closed, view, recent) ==
  LET first == SelectInSeq(closed,
                 LAMBDA w : Verdict(w, view, recent).kind = "Jump")
  IN IF closed = << >> THEN NoOp("NoWorkspace")
     ELSE IF first # 0 THEN Verdict(closed[first], view, recent)
     ELSE IF Len(closed) > 1 THEN NoOp("MultiWorkspaceNoMatch")
     ELSE Verdict(closed[1], view, recent)
=============================================================================
