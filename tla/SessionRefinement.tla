------------------------- MODULE SessionRefinement --------------------------
(***************************************************************************)
(* Session implements ActivationVerifier and WindowPlacement: proofs that  *)
(* each of its steps is one of theirs, or changes nothing of theirs.       *)
(***************************************************************************)
EXTENDS SessionProofs

(* The theorems of ActivationVerifier, over the variables of a session. *)
AVP == INSTANCE ActivationVerifierProofs WITH Handles <- Ids, hist <- verify_hist

-----------------------------------------------------------------------------
(* The verifier. *)

LEMMA RegisterActivationIsAStep ==
  ASSUME NEW w \in Ids, RegisterActivation(w)
  PROVE  AV!Next
BY DEF RegisterActivation, AV!Next

LEMMA PlaceNowIsAStep ==
  ASSUME NEW t, NEW w \in Ids, PlaceNow(t, w)
  PROVE  AV!Next \/ UNCHANGED verification
BY RegisterActivationIsAStep DEF PlaceNow

LEMMA VerifierSteps ==
  ASSUME IInv, [Next]_vars
  PROVE  AV!Next \/ UNCHANGED verification \/ Reconnect
<1>1. OwnTypeOK /\ IsWorld(shown) /\ IsWorld(world)
  BY DEF IInv, OwnTypeOK
<1>2. ASSUME NEW t \in Windows, NEW info \in Infos, NewToplevel(t, info)
      PROVE  AV!Next \/ UNCHANGED verification
  <2> DEFINE action == Decide(config, info, Stub(shown, Known(t)), handled, t).action
  <2>1. action.kind = "Existing" => action.workspace \in Ids
    BY <1>1, DecideOnViews
  <2>2. \/ UNCHANGED verification
        \/ action.kind = "Existing" /\ PlaceNow(t, action.workspace)
    BY <1>2 DEF NewToplevel, SendsNothing
  <2> HIDE DEF action
  <2> QED BY <2>1, <2>2, PlaceNowIsAStep
<1>3. ASSUME NEW t \in Windows, ToplevelClosed(t)
      PROVE  AV!Next \/ UNCHANGED verification
  <2> DEFINE rest == Restrict(known, DOMAIN known \ {t})
  <2>1. JumpIfEmptied(t, rest) \/ SendsNothing
    BY <1>3 DEF ToplevelClosed
  <2>2. t \in DOMAIN known
    BY <1>3 DEF ToplevelClosed
  <2> HIDE DEF rest
  <2>3. (\E x \in Ids : RegisterActivation(x)) \/ SendsNothing
    BY <1>1, <2>1, <2>2, JumpIfEmptiedType
  <2> QED BY <2>3, RegisterActivationIsAStep DEF SendsNothing
<1>4. ASSUME WorkspaceDone PROVE AV!Next
  <2>1. world.active \in SUBSET Ids
    BY <1>1, WorldType
  <2> QED BY <1>4, <2>1 DEF WorkspaceDone, AV!Next
<1>5. ASSUME ScanPending PROVE AV!Next \/ UNCHANGED verification
  BY <1>5, ScanSettlesOne, PlaceNowIsAStep DEF SendsNothing
<1>6. ASSUME TimerFires PROVE AV!Next
  BY <1>6 DEF TimerFires, AV!Next
<1>7. CASE UNCHANGED vars
  BY <1>7 DEF vars
<1>8. CASE Next
  BY <1>2, <1>3, <1>4, <1>5, <1>6, <1>8
  DEF Next, UpdateToplevel, SendsNothing, Open, Close, UserSwitches, Decorate,
      AddWorkspace, RemoveWorkspace, Unplug, ProcessRequest, daemon
<1> QED BY <1>7, <1>8

LEMMA SameCardinality ==
  /\ \A S : AV!Cardinality(S) = AVP!Cardinality(S)
  /\ \A S : AV!IsFiniteSet(S) <=> AVP!IsFiniteSet(S)
<1>1. ASSUME NEW S PROVE AV!Cardinality(S) = AVP!Cardinality(S)
  BY Zenon DEF AV!Cardinality, AVP!Cardinality
<1>2. ASSUME NEW S PROVE AV!IsFiniteSet(S) <=> AVP!IsFiniteSet(S)
  BY Zenon DEF AV!IsFiniteSet, AVP!IsFiniteSet
<1> QED BY <1>1, <1>2

(* The definitions of the two instances of the verifier are the same. *)
LEMMA SameVerifier ==
  /\ AV!Init <=> AVP!Init
  /\ AV!Next <=> AVP!Next
  /\ AV!IInv <=> AVP!IInv
<1>1. AV!Init <=> AVP!Init
  BY DEF AV!Init, AVP!Init, AV!NewVerifier, AVP!NewVerifier
<1>2. AV!Next <=> AVP!Next
  BY SameCardinality DEF AV!Next, AVP!Next,
         AV!ActivateUnverified, AV!ActivateWithTimer, AV!ActivateTimerRefused,
         AV!TimerFires, AV!Done, AV!RecordAttempt, AV!RecordTimeout,
         AV!TimeoutEvent, AV!LogsWarn, AV!InfoFires, AV!WarnFires,
         AV!InsertToken, AV!DropTokens, AV!CancelTimers, AV!ConfirmAll,
         AV!RecordConfirm,
         AVP!ActivateUnverified, AVP!ActivateWithTimer, AVP!ActivateTimerRefused,
         AVP!TimerFires, AVP!Done, AVP!RecordAttempt, AVP!RecordTimeout,
         AVP!TimeoutEvent, AVP!LogsWarn, AVP!InfoFires, AVP!WarnFires,
         AVP!InsertToken, AVP!DropTokens, AVP!CancelTimers, AVP!ConfirmAll,
         AVP!RecordConfirm
<1>3. AV!IInv <=> AVP!IInv
  BY SameCardinality DEF AV!IInv, AV!TypeOK, AV!TablesAgree, AV!TokensAreFresh,
         AV!CleanTimersAreTracked, AV!CleanAnswersAreBelieved,
         AV!AttemptsAreCounted, AV!WarnIsLatched, AV!VerifierState, AV!Timer,
         AV!History,
         AVP!IInv, AVP!TypeOK, AVP!TablesAgree, AVP!TokensAreFresh,
         AVP!CleanTimersAreTracked, AVP!CleanAnswersAreBelieved,
         AVP!AttemptsAreCounted, AVP!WarnIsLatched, AVP!VerifierState,
         AVP!Timer, AVP!History
<1> QED BY <1>1, <1>2, <1>3

LEMMA SameVerifierNext ==
  /\ AV!IInv' <=> AVP!IInv'
  /\ AV!Init' <=> AVP!Init'
<1>1. AV!IInv' <=> AVP!IInv'
  BY SameCardinality DEF AV!IInv, AV!TypeOK, AV!TablesAgree, AV!TokensAreFresh,
         AV!CleanTimersAreTracked, AV!CleanAnswersAreBelieved,
         AV!AttemptsAreCounted, AV!WarnIsLatched, AV!VerifierState, AV!Timer,
         AV!History,
         AVP!IInv, AVP!TypeOK, AVP!TablesAgree, AVP!TokensAreFresh,
         AVP!CleanTimersAreTracked, AVP!CleanAnswersAreBelieved,
         AVP!AttemptsAreCounted, AVP!WarnIsLatched, AVP!VerifierState,
         AVP!Timer, AVP!History
<1>2. AV!Init' <=> AVP!Init'
  BY DEF AV!Init, AVP!Init, AV!NewVerifier, AVP!NewVerifier
<1> QED BY <1>1, <1>2

LEMMA VerifierInit == AV!Init => AV!IInv
BY SameVerifier, AVP!InitEstablishesIInv, SessionAssumption

LEMMA VerifierInitNext == AV!Init' => AV!IInv'
<1>1. AVP!Init => AVP!IInv
  BY AVP!InitEstablishesIInv, SessionAssumption
<1>2. AVP!Init' => AVP!IInv'
  BY <1>1, PTL
<1> QED BY <1>2, SameVerifierNext

LEMMA VerifierNext == AV!IInv /\ AV!Next => AV!IInv'
<1>1. AVP!IInv /\ AVP!Next => AVP!IInv'
  BY AVP!StepKeepsIInv, SessionAssumption
<1> QED BY <1>1, SameVerifier, SameVerifierNext

LEMMA VerifierStutters ==
  ASSUME AV!IInv, UNCHANGED verification
  PROVE  AV!IInv'
BY DEF verification, AV!IInv, AV!TypeOK, AV!TablesAgree, AV!TokensAreFresh,
       AV!CleanTimersAreTracked, AV!CleanAnswersAreBelieved,
       AV!AttemptsAreCounted, AV!WarnIsLatched

(* connect_and_run makes AppData anew: what the next session starts from is
   what the first one started from. *)
LEMMA ReconnectRestartsVerifier ==
  ASSUME AV!IInv, Reconnect
  PROVE  AV!Init'
<1>1. verify_timeout' = verify_timeout /\ verify_timeout \in BOOLEAN
  BY DEF Reconnect, AV!IInv, AV!TypeOK
<1> QED BY <1>1 DEF Reconnect, AV!Init

LEMMA InitIsVerifierInit == Init => AV!Init
BY DEF Init

(* The verifier of a session is ActivationVerifier, started anew with every
   session: no handler of toplevels, workspaces or requests touches its tables
   in a way that module does not have. *)
THEOREM SessionsRunVerifiers ==
  Spec => /\ AV!Init
          /\ [][AV!Next \/ AV!Init']_verification
          /\ []AV!IInv
<1>1. IInv /\ AV!IInv /\ [Next]_vars => [AV!Next \/ AV!Init']_verification
  BY VerifierSteps, ReconnectRestartsVerifier
<1>2. IInv /\ AV!IInv /\ [Next]_vars => AV!IInv'
  <2> SUFFICES ASSUME IInv, AV!IInv, [Next]_vars PROVE AV!IInv'
    OBVIOUS
  <2>1. CASE AV!Next
    BY <2>1, VerifierNext
  <2>2. CASE UNCHANGED verification
    BY <2>2, VerifierStutters
  <2>3. CASE Reconnect
    BY <2>3, ReconnectRestartsVerifier, VerifierInitNext
  <2> QED BY <2>1, <2>2, <2>3, VerifierSteps
<1> QED BY <1>1, <1>2, InductiveInvariant, InitIsVerifierInit, VerifierInit, PTL
        DEF Spec

(* Every variable of a session keeps its type, those of the verifier included. *)
THEOREM SessionTypeCorrect == Spec => []TypeOK
<1>1. IInv /\ AV!IInv => TypeOK
  BY DEF IInv, AV!IInv, TypeOK
<1> QED BY <1>1, InductiveInvariant, SessionsRunVerifiers, PTL

(* So what is proved of ActivationVerifier holds in every session, whichever
   handler activates: the tables agree, and the WARN is rare. *)
THEOREM SessionsVerifySoundly == Spec => [](AV!TablesAgree /\ AV!WarnIsRare)
<1>1. AV!IInv => AV!TablesAgree /\ AV!WarnIsRare
  BY DEF AV!IInv, AV!WarnIsLatched, AV!WarnIsRare
<1> QED BY <1>1, SessionsRunVerifiers, PTL

(* Within one session, a session implements ActivationVerifier. *)
THEOREM SessionImplementsVerifier ==
  "reconnect" \notin Upheavals => (Spec => VerifierIsImplemented)
<1> SUFFICES ASSUME "reconnect" \notin Upheavals PROVE Spec => VerifierIsImplemented
  OBVIOUS
<1>1. IInv /\ [Next]_vars => [AV!Next]_AV!vars
  BY VerifierSteps DEF Reconnect, verification, AV!vars
<1> QED BY <1>1, InductiveInvariant, InitIsVerifierInit, PTL
        DEF Spec, VerifierIsImplemented, AV!Spec

-----------------------------------------------------------------------------
(* The placements: what the requests under way say to windows. *)

MovesOf(q) ==
  LET moving == Retained(q, {r \in Range(q) : r.op = "move"})
  IN [i \in DOMAIN moving |-> moving[i].window]

MoveRequests == {r \in Request : r.op = "move"}

LEMMA MovesOfRetained ==
  ASSUME NEW q \in Seq(Request)
  PROVE  LET moving == Retained(q, MoveRequests)
         IN /\ MovesOf(q) = [i \in DOMAIN moving |-> moving[i].window]
            /\ moving \in Seq(Request)
            /\ MovesOf(q) \in Seq({r.window : r \in MoveRequests})
            /\ Len(MovesOf(q)) = Len(moving)
<1> DEFINE K == {r \in Range(q) : r.op = "move"}
           moving == Retained(q, MoveRequests)
           W == {r.window : r \in MoveRequests}
<1>1. DOMAIN q = 1 .. Len(q) /\ \A i \in 1 .. Len(q) : q[i] \in Request
  BY LenProperties, ElementOfSeq
<1>2. \A i \in 1 .. Len(q) : q[i] \in K <=> q[i] \in MoveRequests
  BY <1>1 DEF MoveRequests, Range
<1> HIDE DEF K
<1>3. Retained(q, K) = moving
  BY <1>2, RetainedAgree
<1>4. MovesOf(q) = [i \in DOMAIN moving |-> moving[i].window]
  BY <1>3 DEF MovesOf, K
<1>5. moving \in Seq(MoveRequests) /\ moving \in Seq(Request)
  <2>1. Retained(q, MoveRequests) \in Seq(Request \intersect MoveRequests)
    BY RetainedRange
  <2>2. Request \intersect MoveRequests = MoveRequests
    BY DEF MoveRequests
  <2> QED BY <2>1, <2>2, RetainedSources
<1>6. /\ DOMAIN moving = 1 .. Len(moving) /\ Len(moving) \in Nat
      /\ \A i \in 1 .. Len(moving) : moving[i] \in MoveRequests
  BY <1>5, LenProperties, ElementOfSeq
<1> HIDE DEF moving
<1>7. MovesOf(q) \in [1 .. Len(moving) -> W]
  BY <1>4, <1>6
<1> HIDE DEF W
<1>8. MovesOf(q) \in Seq(W)
  BY <1>6, <1>7, SeqDef
<1>9. Len(MovesOf(q)) = Len(moving)
  BY <1>6, <1>7, <1>8, LenProperties
<1> QED BY <1>4, <1>5, <1>8, <1>9 DEF moving, W

(* One more request is one more move if it is one. *)
LEMMA MovesOfAppend ==
  ASSUME NEW q \in Seq(Request), NEW r \in Request
  PROVE  MovesOf(Append(q, r)) =
           IF r.op = "move" THEN Append(MovesOf(q), r.window) ELSE MovesOf(q)
<1> DEFINE moving == Retained(q, MoveRequests)
           more == Retained(Append(q, r), MoveRequests)
<1>1. Append(q, r) \in Seq(Request)
  BY AppendProperties
<1>2. /\ more = IF r \in MoveRequests THEN Append(moving, r) ELSE moving
      /\ r \in MoveRequests <=> r.op = "move"
  BY RetainedAppend DEF MoveRequests
<1>3. /\ MovesOf(q) = [i \in DOMAIN moving |-> moving[i].window]
      /\ moving \in Seq(Request)
      /\ MovesOf(q) \in Seq({x.window : x \in MoveRequests})
      /\ Len(MovesOf(q)) = Len(moving)
  BY MovesOfRetained
<1>4. MovesOf(Append(q, r)) = [i \in DOMAIN more |-> more[i].window]
  BY <1>1, MovesOfRetained
<1> HIDE DEF moving, more
<1>5. CASE r.op # "move"
  BY <1>2, <1>3, <1>4, <1>5
<1>6. CASE r.op = "move"
  <2> DEFINE n == Len(moving)
             W == {x.window : x \in MoveRequests}
             longer == Append(MovesOf(q), r.window)
  <2>1. /\ more \in Seq(Request) /\ Len(more) = n + 1 /\ n \in Nat
        /\ DOMAIN more = 1 .. n + 1
        /\ \A i \in 1 .. n : more[i] = moving[i]
        /\ more[n + 1] = r
    <3>1. more = Append(moving, r)
      BY <1>2, <1>6
    <3> QED BY <1>3, <3>1, AppendProperties, LenProperties
  <2>2. r.window \in W
    BY <1>2, <1>6
  <2> HIDE DEF W
  <2>3. /\ longer \in Seq(W) /\ DOMAIN longer = 1 .. n + 1
        /\ \A i \in 1 .. n : longer[i] = MovesOf(q)[i]
        /\ longer[n + 1] = r.window
    <3>1. MovesOf(q) \in Seq(W)
      BY <1>3 DEF W
    <3> QED BY <1>3, <2>1, <2>2, <3>1, AppendProperties, LenProperties
  <2>4. \A i \in 1 .. n : MovesOf(q)[i] = moving[i].window
    BY <1>3, LenProperties
  <2> DEFINE now == MovesOf(Append(q, r))
  <2>5. now = [i \in 1 .. n + 1 |-> more[i].window]
    BY <1>4, <2>1
  <2> HIDE DEF now, longer
  <2>6. ASSUME NEW i \in 1 .. n + 1 PROVE now[i] = longer[i]
    <3>1. CASE i = n + 1
      BY <2>1, <2>3, <2>5, <3>1
    <3>2. CASE i # n + 1
      <4>1. i \in 1 .. n
        BY <2>1, <3>2
      <4> QED BY <2>1, <2>3, <2>4, <2>5, <4>1
    <3> QED BY <3>1, <3>2
  <2>7. longer = [i \in 1 .. n + 1 |-> longer[i]]
    <3>1. longer \in [1 .. n + 1 -> W]
      BY <2>3, LenProperties
    <3> QED BY <3>1
  <2>8. now = longer
    BY <2>5, <2>6, <2>7
  <2> QED BY <1>6, <2>8 DEF now, longer
<1> QED BY <1>5, <1>6

(* The oldest request carried out is the oldest move gone if it is one. *)
LEMMA MovesOfTail ==
  ASSUME NEW q \in Seq(Request), q # << >>
  PROVE  IF q[1].op = "move"
           THEN MovesOf(q) # << >> /\ MovesOf(Tail(q)) = Tail(MovesOf(q))
           ELSE MovesOf(Tail(q)) = MovesOf(q)
<1> DEFINE moving == Retained(q, MoveRequests)
           fewer == Retained(Tail(q), MoveRequests)
           W == {x.window : x \in MoveRequests}
<1>1. Tail(q) \in Seq(Request) /\ q[1] \in Request
  BY HeadTailProperties
<1>2. q[1] \in MoveRequests <=> q[1].op = "move"
  BY <1>1 DEF MoveRequests
<1>3. IF q[1].op = "move" THEN moving # << >> /\ fewer = Tail(moving)
      ELSE fewer = moving
  BY <1>2, RetainedTail
<1> HIDE DEF W
<1>4. /\ MovesOf(q) = [i \in DOMAIN moving |-> moving[i].window]
      /\ moving \in Seq(Request) /\ MovesOf(q) \in Seq(W)
      /\ Len(MovesOf(q)) = Len(moving)
  BY MovesOfRetained DEF W
<1>5. /\ MovesOf(Tail(q)) = [i \in DOMAIN fewer |-> fewer[i].window]
      /\ fewer \in Seq(Request) /\ MovesOf(Tail(q)) \in Seq(W)
      /\ Len(MovesOf(Tail(q))) = Len(fewer)
  BY <1>1, MovesOfRetained DEF W
<1> DEFINE all == MovesOf(q)
           left == MovesOf(Tail(q))
<1> HIDE DEF moving, fewer
<1>6. CASE q[1].op # "move"
  BY <1>3, <1>4, <1>5, <1>6
<1>7. CASE q[1].op = "move"
  <2> DEFINE n == Len(fewer)
  <2>1. /\ moving # << >> /\ fewer = Tail(moving)
        /\ n \in Nat /\ Len(moving) = n + 1
        /\ DOMAIN moving = 1 .. n + 1 /\ DOMAIN fewer = 1 .. n
        /\ \A i \in 1 .. n : fewer[i] = moving[i + 1]
    <3>1. moving # << >> /\ fewer = Tail(moving) /\ moving \in Seq(Request)
      BY <1>3, <1>4, <1>7
    <3>2. /\ Len(fewer) \in Nat /\ Len(moving) = Len(fewer) + 1
          /\ \A i \in 1 .. Len(fewer) : fewer[i] = moving[i + 1]
      BY <3>1, HeadTailProperties, LenProperties, EmptySeq
    <3>3. DOMAIN moving = 1 .. Len(moving) /\ DOMAIN fewer = 1 .. Len(fewer)
      BY <1>4, <1>5, LenProperties
    <3> QED BY <3>1, <3>2, <3>3
  <2> HIDE DEF all, left
  <2>2. /\ all \in Seq(W) /\ Len(all) = n + 1 /\ left \in Seq(W) /\ Len(left) = n
        /\ all = [i \in 1 .. n + 1 |-> moving[i].window]
        /\ left = [i \in 1 .. n |-> fewer[i].window]
    BY <1>4, <1>5, <2>1 DEF all, left
  <2>3. all # << >>
    BY <2>1, <2>2, EmptySeq
  <2>4. /\ Tail(all) \in Seq(W) /\ Len(Tail(all)) = n
        /\ \A i \in 1 .. n : Tail(all)[i] = all[i + 1]
    BY <2>1, <2>2, <2>3, HeadTailProperties
  <2>5. ASSUME NEW i \in 1 .. n PROVE left[i] = Tail(all)[i]
    <3>1. i + 1 \in 1 .. n + 1
      BY <2>1
    <3> QED BY <2>1, <2>2, <2>4, <3>1
  <2>6. Tail(all) \in [1 .. n -> W] /\ left \in [1 .. n -> W]
    BY <2>2, <2>4, LenProperties
  <2>7. left = Tail(all)
    BY <2>5, <2>6
  <2> QED BY <1>7, <2>3, <2>7 DEF all, left
<1> QED BY <1>6, <1>7

(* A placement sends one move and nothing else that is one. *)
LEMMA PlaceNowMovesOne ==
  ASSUME requests \in Seq(Request), NEW t \in Windows, NEW w \in Ids,
         PlaceNow(t, w)
  PROVE  Moves' = Append(Moves, t)
<1> DEFINE first == Append(requests, Move(t, w))
           second == IF config.switch_to_workspace
                       THEN Append(first, Activate(w)) ELSE first
           third == IF config.maximize
                      THEN Append(second, Maximize(t)) ELSE second
<1>1. /\ Move(t, w) \in Request /\ Move(t, w).op = "move" /\ Move(t, w).window = t
      /\ Activate(w) \in Request /\ Activate(w).op # "move"
      /\ Maximize(t) \in Request /\ Maximize(t).op # "move"
  BY DEF Move, Activate, Maximize, Request
<1> DEFINE m == Move(t, w)
           a == Activate(w)
           x == Maximize(t)
<1> HIDE DEF Request
<1>2. requests' = third
  <2>1. requests' = requests \o <<m>> \o PostPlace(t, w)
    BY DEF PlaceNow
  <2>2. PostPlace(t, w) = (IF config.switch_to_workspace THEN <<a>> ELSE << >>)
                            \o (IF config.maximize THEN <<x>> ELSE << >>)
    BY DEF PostPlace
  <2> HIDE DEF m, a, x
  <2>3. m \in Request /\ a \in Request /\ x \in Request
    BY <1>1 DEF m, a, x
  <2>4. ASSUME NEW q \in Seq(Request), NEW r \in Request
        PROVE  q \o <<r>> = Append(q, r) /\ Append(q, r) \in Seq(Request)
    BY AppendIsConcat, AppendProperties
  <2>5. ASSUME NEW q \in Seq(Request)
        PROVE  q \o << >> = q /\ << >> \o q = q
    BY ConcatEmptySeq
  <2>6. <<a>> \in Seq(Request) /\ <<x>> \in Seq(Request) /\ << >> \in Seq(Request)
    BY <2>3
  <2>7. requests \o <<m>> = Append(requests, m) /\ Append(requests, m) \in Seq(Request)
    BY <2>3, <2>4
  <2> DEFINE sent == Append(requests, m)
  <2> HIDE DEF sent
  <2>8. /\ sent \in Seq(Request) /\ requests' = sent \o PostPlace(t, w)
        /\ first = sent
    BY <2>1, <2>7 DEF sent, m
  <2>9. /\ Append(sent, a) \in Seq(Request) /\ sent \o <<a>> = Append(sent, a)
        /\ sent \o <<x>> = Append(sent, x) /\ sent \o << >> = sent
        /\ Append(sent, a) \o <<x>> = Append(Append(sent, a), x)
        /\ << >> \o <<x>> = <<x>> /\ <<a>> \o << >> = <<a>>
        /\ << >> \o << >> = << >>
    BY <2>3, <2>4, <2>5, <2>6, <2>8
  <2>10. sent \o (<<a>> \o <<x>>) = (sent \o <<a>>) \o <<x>>
    BY <2>6, <2>8, ConcatAssociative
  <2>11. third = IF config.maximize
                   THEN Append(IF config.switch_to_workspace
                                 THEN Append(sent, a) ELSE sent, x)
                   ELSE IF config.switch_to_workspace
                          THEN Append(sent, a) ELSE sent
    BY <2>8 DEF a, x
  <2> HIDE DEF third
  <2> DEFINE S == config.switch_to_workspace
             M == config.maximize
  <2>12. CASE S /\ M
    BY <2>2, <2>8, <2>9, <2>10, <2>11, <2>12, Zenon
  <2>13. CASE S /\ ~M
    BY <2>2, <2>8, <2>9, <2>11, <2>13, Zenon
  <2>14. CASE ~S /\ M
    BY <2>2, <2>8, <2>9, <2>11, <2>14, Zenon
  <2>15. CASE ~S /\ ~M
    BY <2>2, <2>8, <2>9, <2>11, <2>15, Zenon
  <2> QED BY <2>12, <2>13, <2>14, <2>15
<1>3. first \in Seq(Request) /\ second \in Seq(Request)
  BY <1>1, AppendProperties
<1>4. MovesOf(first) = Append(MovesOf(requests), t)
  BY <1>1, MovesOfAppend
<1> HIDE DEF first
<1>5. MovesOf(second) = MovesOf(first)
  BY <1>1, <1>3, MovesOfAppend
<1> HIDE DEF second
<1>6. MovesOf(third) = MovesOf(second)
  BY <1>1, <1>3, MovesOfAppend
<1> HIDE DEF third
<1>7. Moves = MovesOf(requests) /\ Moves' = MovesOf(requests')
  BY DEF Moves, MovesOf
<1> QED BY <1>2, <1>4, <1>5, <1>6, <1>7

-----------------------------------------------------------------------------
(* The fate of each window, and what the actions do to it. *)

Fates   == [t \in Windows |-> Fate(t)]
Waiting == {pending[i].window : i \in DOMAIN pending}

FateIs(t, is_known, is_waiting, targets) ==
  IF ~is_known THEN "unseen"
  ELSE IF is_waiting THEN "waiting"
  ELSE IF targets # << >> THEN "sent" ELSE "left"

LEMMA FateByCases ==
  /\ \A t \in Windows : Fates[t] =
       FateIs(t, t \in DOMAIN known, t \in Waiting, hist.targets[t])
  /\ \A t \in Windows : Fates'[t] =
       FateIs(t, t \in DOMAIN known', t \in Waiting', hist'.targets[t])
BY DEF Fates, Fate, FateIs, Waiting

LEMMA FatesTypes ==
  /\ Fates = [t \in Windows |-> Fates[t]]
  /\ Fates' = [t \in Windows |-> Fates'[t]]
BY DEF Fates

(* Of a step that only concerns one window. *)
LEMMA OneFateChanges ==
  ASSUME NEW t \in Windows, NEW fate,
         \A s \in Windows \ {t} :
           /\ s \in DOMAIN known' <=> s \in DOMAIN known
           /\ s \in Waiting' <=> s \in Waiting
           /\ hist'.targets[s] = hist.targets[s],
         Fates'[t] = fate
  PROVE  Fates' = [Fates EXCEPT ![t] = fate]
<1>1. \A s \in Windows \ {t} : Fates'[s] = Fates[s]
  BY FateByCases DEF FateIs
<1>2. [Fates EXCEPT ![t] = fate] =
        [s \in Windows |-> IF s = t THEN fate ELSE Fates[s]]
  BY DEF Fates
<1> QED BY <1>1, <1>2, FatesTypes

LEMMA NoFateChanges ==
  ASSUME DOMAIN known' = DOMAIN known, Waiting' = Waiting,
         hist'.targets = hist.targets
  PROVE  Fates' = Fates
<1>1. \A s \in Windows : Fates'[s] = Fates[s]
  BY FateByCases DEF FateIs
<1> QED BY <1>1, FatesTypes

(* The steps of the promise, over Fates and Moves. *)
LEMMA PromiseSettles ==
  ASSUME NEW t \in Windows, NEW how \in {"sent", "left"},
         Fates[t] \in {"unseen", "waiting"},
         Fates' = [Fates EXCEPT ![t] = how],
         Moves' = IF how = "sent" THEN Append(Moves, t) ELSE Moves
  PROVE  Promise!Next
<1>1. Promise!Decide(t, how) \/ Promise!Resolve(t, how)
  BY DEF Promise!Decide, Promise!Resolve, Promise!Settle, Fates
<1> QED BY <1>1 DEF Promise!Next

LEMMA PromisePutsOff ==
  ASSUME NEW t \in Windows, Fates[t] = "unseen",
         Fates' = [Fates EXCEPT ![t] = "waiting"], Moves' = Moves
  PROVE  Promise!Next
<1>1. Promise!PutOff(t)
  BY DEF Promise!PutOff, Fates
<1> QED BY <1>1 DEF Promise!Next

LEMMA PromiseForgets ==
  ASSUME NEW t \in Windows, Fates[t] # "unseen",
         Fates' = [Fates EXCEPT ![t] = "unseen"], Moves' = Moves
  PROVE  Promise!Next
<1>1. Promise!Forget(t)
  BY DEF Promise!Forget, Fates
<1> QED BY <1>1 DEF Promise!Next

LEMMA PromiseDelivers ==
  ASSUME Fates' = Fates, Moves # << >>, Moves' = Tail(Moves)
  PROVE  Promise!Next
<1>1. Promise!Deliver
  BY DEF Promise!Deliver, Fates
<1> QED BY <1>1 DEF Promise!Next

LEMMA PromiseStutters ==
  ASSUME Fates' = Fates, Moves' = Moves
  PROVE  UNCHANGED Promise!vars
BY DEF Promise!vars, Fates

LEMMA MovesFollowRequests ==
  /\ Moves = MovesOf(requests)
  /\ Moves' = MovesOf(requests')
BY DEF Moves, MovesOf

-----------------------------------------------------------------------------
(* The promise is kept: one lemma per action. *)

LEMMA NewToplevelKeepsPromise ==
  ASSUME IInv, NEW t \in Windows, NEW info \in Infos, NewToplevel(t, info)
  PROVE  Promise!Next
<1> DEFINE decision == Decide(config, info, Stub(shown, Known(t)), handled, t)
           action == decision.action
<1>1. /\ OwnTypeOK /\ PendingsAreLive /\ MovedAtMostOnce /\ hist \in History
      /\ requests \in Seq(Request) /\ pending \in Seq(PendingPlacement)
      /\ IsWorld(shown) /\ hist.targets[t] = << >> /\ t \notin DOMAIN known
  BY DEF IInv, OwnTypeOK, NewToplevel, Unseen
<1>2. action.kind = "Existing" => action.workspace \in Ids
  BY <1>1, DecideOnViews
<1>3. \/ UNCHANGED <<pending, hist, requests>>
      \/ /\ action.kind = "Existing"
         /\ hist' = NoteTarget(t, action.workspace)
         /\ PlaceNow(t, action.workspace) /\ pending' = pending
      \/ hist' = hist /\ \E i \in GroupsFor(info) : CreatePlacement(t, i)
  BY DEF NewToplevel, SendsNothing
<1>4. DOMAIN known' = DOMAIN known \union {t}
  BY <1>1, KnownType DEF NewToplevel
<1> HIDE DEF action, decision
<1>5. Fates[t] = "unseen" /\ t \notin Waiting
  BY <1>1, FateByCases DEF FateIs, Waiting, PendingsAreLive
<1>6. CASE UNCHANGED <<pending, hist, requests>>
  <2>1. Waiting' = Waiting
    BY <1>6 DEF Waiting
  <2>2. Fates'[t] = "left"
    BY <1>1, <1>4, <1>5, <1>6, <2>1, FateByCases DEF FateIs
  <2>3. Fates' = [Fates EXCEPT ![t] = "left"]
    BY <1>4, <1>6, <2>1, <2>2, OneFateChanges
  <2>4. Moves' = Moves
    BY <1>6, MovesFollowRequests
  <2> QED BY <1>5, <2>3, <2>4, PromiseSettles
<1>7. CASE /\ action.kind = "Existing"
           /\ hist' = NoteTarget(t, action.workspace)
           /\ PlaceNow(t, action.workspace) /\ pending' = pending
  <2> DEFINE w == action.workspace
  <2>1. w \in Ids
    BY <1>2, <1>7
  <2>2. Waiting' = Waiting
    BY <1>7 DEF Waiting
  <2>3. \A s \in Windows : hist'.targets[s] =
          IF s = t THEN Append(hist.targets[t], w) ELSE hist.targets[s]
    BY <1>1, <1>7, <2>1, NoteTargetType
  <2>4. hist'.targets[t] # << >>
    <3>1. hist'.targets[t] = <<w>>
      BY <1>1, <1>7, <2>1, NoteTargetOnce
    <3> HIDE DEF w
    <3> QED BY <3>1
  <2>5. Fates'[t] = "sent"
    BY <1>4, <1>5, <2>2, <2>4, FateByCases DEF FateIs
  <2>6. Fates' = [Fates EXCEPT ![t] = "sent"]
    BY <1>4, <2>2, <2>3, <2>5, OneFateChanges
  <2>7. Moves' = Append(Moves, t)
    BY <1>1, <1>7, <2>1, PlaceNowMovesOne
  <2> QED BY <1>5, <2>6, <2>7, PromiseSettles
<1>8. CASE hist' = hist /\ \E i \in GroupsFor(info) : CreatePlacement(t, i)
  <2>1. CASE UNCHANGED <<pending, requests>>
    BY <1>6, <1>8, <2>1
  <2>2. CASE \E p \in PendingPlacement, g \in Nat :
               /\ p.window = t
               /\ pending' = Append(pending, p)
               /\ requests' = Append(requests, CreateIn(g))
    <3>1. PICK p \in PendingPlacement, g \in Nat :
            /\ p.window = t
            /\ pending' = Append(pending, p)
            /\ requests' = Append(requests, CreateIn(g))
      BY <2>2
    <3>2. Waiting' = Waiting \union {t}
      <4> DEFINE n == Len(pending)
      <4>1. /\ n \in Nat /\ DOMAIN pending = 1 .. n /\ DOMAIN pending' = 1 .. n + 1
            /\ \A i \in 1 .. n : pending'[i] = pending[i]
            /\ pending'[n + 1].window = t
        BY <1>1, <3>1, AppendProperties, LenProperties
      <4> HIDE DEF n
      <4>2. Waiting = {pending[i].window : i \in 1 .. n}
        BY <4>1 DEF Waiting
      <4>3. Waiting' = {pending'[i].window : i \in 1 .. n + 1}
        BY <4>1 DEF Waiting
      <4>4. 1 .. n + 1 = (1 .. n) \union {n + 1}
        BY <4>1
      <4> QED BY <4>1, <4>2, <4>3, <4>4
    <3>3. CreateIn(g) \in Request /\ CreateIn(g).op # "move"
      BY DEF CreateIn, Request
    <3> HIDE DEF Request
    <3>4. Moves' = Moves
      BY <1>1, <3>1, <3>3, MovesOfAppend, MovesFollowRequests
    <3>5. Fates'[t] = "waiting"
      BY <1>4, <3>2, FateByCases DEF FateIs
    <3>6. Fates' = [Fates EXCEPT ![t] = "waiting"]
      BY <1>4, <1>8, <3>2, <3>5, OneFateChanges
    <3> QED BY <1>5, <3>4, <3>6, PromisePutsOff
  <2> QED BY <1>1, <1>8, <2>1, <2>2, CreatePlacementType
<1> QED BY <1>3, <1>6, <1>7, <1>8

LEMMA ToplevelClosedKeepsPromise ==
  ASSUME IInv, NEW t \in Windows, ToplevelClosed(t)
  PROVE  Promise!Next
<1> DEFINE rest == Restrict(known, DOMAIN known \ {t})
<1>1. /\ OwnTypeOK /\ hist \in History /\ requests \in Seq(Request)
      /\ pending \in Seq(PendingPlacement) /\ t \in DOMAIN known
      /\ hist.targets \in [Windows -> Seq(Ids)]
  BY DEF IInv, OwnTypeOK, ToplevelClosed, History
<1>2. DOMAIN known' = DOMAIN known \ {t} /\ pending' = Evicted(t)
  BY DEF ToplevelClosed, Restrict
<1>3. \A s \in Windows \ {t} : hist'.targets[s] = hist.targets[s]
  BY <1>1 DEF ToplevelClosed, History
<1>4. \A s \in Windows \ {t} : s \in Waiting' <=> s \in Waiting
  <2> DEFINE K == {p \in Range(pending) : p.window # t}
             kept == Retained(pending, K)
  <2>1. pending' = kept
    BY <1>2 DEF Evicted
  <2> HIDE DEF K
  <2>2. Range(kept) = Range(pending) \intersect K /\ kept \in Seq(PendingPlacement)
    BY <1>1, RetainedRange, RetainedSources
  <2>3. Waiting = {p.window : p \in Range(pending)}
    BY DEF Waiting, Range
  <2>4. Waiting' = {p.window : p \in Range(kept)}
    BY <2>1 DEF Waiting, Range
  <2> QED BY <2>2, <2>3, <2>4 DEF K
<1>5. Moves' = Moves
  <2>1. \/ requests' = requests
        \/ \E x \in Ids : requests' = Append(requests, Activate(x))
    <3>1. JumpIfEmptied(t, rest) \/ SendsNothing
      BY DEF ToplevelClosed
    <3> HIDE DEF rest
    <3> QED BY <1>1, <3>1, JumpIfEmptiedType DEF SendsNothing
  <2>2. ASSUME NEW x \in Ids
        PROVE  Activate(x) \in Request /\ Activate(x).op # "move"
    BY DEF Activate, Request
  <2> HIDE DEF Request
  <2> QED BY <1>1, <2>1, <2>2, MovesOfAppend, MovesFollowRequests
<1>6. Fates[t] # "unseen" /\ Fates'[t] = "unseen"
  BY <1>1, <1>2, FateByCases DEF FateIs
<1>7. Fates' = [Fates EXCEPT ![t] = "unseen"]
  BY <1>2, <1>3, <1>4, <1>6, OneFateChanges
<1> QED BY <1>5, <1>6, <1>7, PromiseForgets

LEMMA WorkspaceDoneKeepsPromise ==
  ASSUME IInv, WorkspaceDone
  PROVE  UNCHANGED Promise!vars
<1>1. /\ UNCHANGED <<requests, known, hist>>
      /\ pending' = [i \in DOMAIN pending |->
                       [pending[i] EXCEPT !.before = @ \intersect Live]]
      /\ pending \in Seq(PendingPlacement)
  BY DEF WorkspaceDone, IInv, OwnTypeOK
<1>2. DOMAIN pending' = DOMAIN pending
  BY <1>1
<1>3. ASSUME NEW i \in DOMAIN pending PROVE pending'[i].window = pending[i].window
  <2>1. pending[i] \in PendingPlacement
    BY <1>1, ElementOfSeq, LenProperties
  <2>2. pending'[i] = [pending[i] EXCEPT !.before = @ \intersect Live]
    BY <1>1
  <2> QED BY <2>1, <2>2 DEF PendingPlacement
<1>4. Waiting' = Waiting
  BY <1>2, <1>3 DEF Waiting
<1> QED BY <1>1, <1>4, NoFateChanges, MovesFollowRequests, PromiseStutters

LEMMA ScanPendingKeepsPromise ==
  ASSUME IInv, ScanPending
  PROVE  Promise!Next
<1> DEFINE t == pending[1].window
           N == Len(pending)
<1>1. /\ OwnTypeOK /\ PendingsAreLive /\ MovedAtMostOnce /\ hist \in History
      /\ requests \in Seq(Request) /\ pending \in Seq(PendingPlacement)
      /\ N \in Nat /\ DOMAIN pending = 1 .. N
  BY LenProperties DEF IInv, OwnTypeOK
<1>2. /\ 1 \in 1 .. N /\ known' = known
      /\ pending' = SubSeq([pending EXCEPT ![1] = pending[N]], 1, N - 1)
      /\ \/ SendsNothing /\ UNCHANGED hist
         \/ \E w \in Ids : hist' = NoteTarget(t, w) /\ PlaceNow(t, w)
  BY ScanSettlesOne DEF ScanPending
<1>3. /\ pending' \in Seq(PendingPlacement) /\ Len(pending') = N - 1
      /\ DOMAIN pending' = 1 .. N - 1
      /\ \A j \in 1 .. N - 1 : pending'[j] = pending[IF j = 1 THEN N ELSE j]
  BY <1>1, <1>2, SwapRemoveKeepsOthers, LenProperties
<1>4. /\ t \in Windows /\ t \in DOMAIN known /\ hist.targets[t] = << >>
      /\ \A j \in DOMAIN pending : pending[j].window = t => j = 1
  BY <1>1, <1>2 DEF PendingsAreLive, OwnTypeOK
<1>5. Waiting' = Waiting \ {t}
  <2>1. ASSUME NEW j \in DOMAIN pending'
        PROVE  pending'[j].window \in Waiting \ {t}
    <3> DEFINE k == IF j = 1 THEN N ELSE j
    <3>1. k \in 1 .. N /\ k # 1 /\ pending'[j] = pending[k]
      BY <1>1, <1>3, <2>1
    <3> QED BY <1>1, <1>4, <3>1 DEF Waiting
  <2>2. ASSUME NEW k \in DOMAIN pending, pending[k].window # t
        PROVE  \E j \in DOMAIN pending' : pending'[j].window = pending[k].window
    <3>1. k # 1 /\ k \in 1 .. N
      BY <1>1, <2>2
    <3>2. CASE k = N
      <4>1. 1 \in 1 .. N - 1 /\ pending'[1] = pending[k]
        BY <1>1, <1>3, <3>1, <3>2
      <4> QED BY <1>3, <4>1
    <3>3. CASE k # N
      <4>1. k \in 1 .. N - 1 /\ pending'[k] = pending[k]
        BY <1>1, <1>3, <3>1, <3>3
      <4> QED BY <1>3, <4>1
    <3> QED BY <3>2, <3>3
  <2> QED BY <2>1, <2>2 DEF Waiting
<1>6. Fates[t] = "waiting" /\ t \in Waiting
  <2>1. t \in Waiting
    BY <1>1, <1>2 DEF Waiting
  <2> QED BY <1>4, <2>1, FateByCases DEF FateIs
<1> HIDE DEF t
<1>7. CASE SendsNothing /\ UNCHANGED hist
  <2>1. Fates'[t] = "left"
    BY <1>2, <1>4, <1>5, <1>7, FateByCases DEF FateIs
  <2>2. Fates' = [Fates EXCEPT ![t] = "left"]
    BY <1>2, <1>4, <1>5, <1>7, <2>1, OneFateChanges
  <2>3. Moves' = Moves
    BY <1>7, MovesFollowRequests DEF SendsNothing
  <2> QED BY <1>4, <1>6, <2>2, <2>3, PromiseSettles
<1>8. CASE \E w \in Ids : hist' = NoteTarget(t, w) /\ PlaceNow(t, w)
  <2>1. PICK w \in Ids : hist' = NoteTarget(t, w) /\ PlaceNow(t, w)
    BY <1>8
  <2>2. \A s \in Windows : hist'.targets[s] =
          IF s = t THEN Append(hist.targets[t], w) ELSE hist.targets[s]
    BY <1>1, <1>4, <2>1, NoteTargetType
  <2>3. hist'.targets[t] # << >>
    <3>1. hist'.targets[t] = <<w>>
      BY <1>1, <1>4, <2>1, NoteTargetOnce
    <3> QED BY <3>1
  <2>4. Fates'[t] = "sent"
    BY <1>2, <1>4, <1>5, <2>3, FateByCases DEF FateIs
  <2>5. Fates' = [Fates EXCEPT ![t] = "sent"]
    BY <1>2, <1>4, <1>5, <2>2, <2>4, OneFateChanges
  <2>6. Moves' = Append(Moves, t)
    BY <1>1, <1>4, <2>1, PlaceNowMovesOne
  <2> QED BY <1>4, <1>6, <2>5, <2>6, PromiseSettles
<1> QED BY <1>2, <1>7, <1>8

LEMMA NoRequestsNoMoves == MovesOf(<< >>) = << >>
<1> DEFINE none == << >>
           moving == Retained(none, MoveRequests)
<1>1. none \in Seq(Request) /\ Range(none) = {}
  BY EmptySeq DEF Range
<1> HIDE DEF none
<1>2. moving \in Seq(Request) /\ Range(moving) = Range(none) \intersect MoveRequests
  BY <1>1, RetainedRange, RetainedSources
<1>3. /\ MovesOf(none) \in Seq({r.window : r \in MoveRequests})
      /\ Len(MovesOf(none)) = Len(moving)
  BY <1>1, MovesOfRetained
<1> HIDE DEF moving
<1>4. Len(moving) = 0
  <2>1. Len(moving) \in Nat /\ DOMAIN moving = 1 .. Len(moving)
    BY <1>2, LenProperties
  <2>2. Range(moving) = {}
    BY <1>1, <1>2
  <2>3. 1 \notin DOMAIN moving
    BY <2>2 DEF Range
  <2> QED BY <2>1, <2>3
<1>5. MovesOf(none) = << >>
  BY <1>3, <1>4, EmptySeq
<1> QED BY <1>5 DEF none

(* The compositor takes up a move, or a request that is none. *)
LEMMA ProcessRequestKeepsPromise ==
  ASSUME IInv, ProcessRequest
  PROVE  [Promise!Next]_Promise!vars
<1> DEFINE r == Head(requests)
<1>1. /\ IsWorld(world) /\ next_workspace \in Nat /\ hist \in History
      /\ requests \in Seq(Request) /\ requests # << >> /\ r = requests[1]
      /\ r \in Request /\ requests' = Tail(requests)
      /\ UNCHANGED <<known, pending>>
  BY HeadTailProperties DEF IInv, OwnTypeOK, ProcessRequest, appdata
<1>2. Honour(r) \/ Ignore(r)
  BY DEF ProcessRequest
<1> HIDE DEF r
<1>3. hist'.targets = hist.targets
  <2>1. CASE Ignore(r)
    BY <1>1, <2>1 DEF Ignore, History
  <2>2. CASE Honour(r) /\ r.op = "create"
    <3>1. PICK w \in Ids : NewWorkspace(w, r.group)
      BY <2>2 DEF Honour
    <3>2. r.group \in Nat
      BY <1>1, <2>2 DEF Request
    <3> QED BY <1>1, <3>1, <3>2, NewWorkspaceType
  <2>3. CASE Honour(r) /\ r.op # "create"
    BY <2>3 DEF Honour
  <2> QED BY <1>2, <2>1, <2>2, <2>3
<1>4. Fates' = Fates
  BY <1>1, <1>3, NoFateChanges DEF Waiting
<1> HIDE DEF Request
<1>5. IF r.op = "move" THEN Moves # << >> /\ Moves' = Tail(Moves) ELSE Moves' = Moves
  BY <1>1, MovesOfTail, MovesFollowRequests
<1>6. CASE r.op = "move"
  BY <1>4, <1>5, <1>6, PromiseDelivers
<1>7. CASE r.op # "move"
  BY <1>4, <1>5, <1>7, PromiseStutters
<1> QED BY <1>6, <1>7

LEMMA ReconnectKeepsPromise ==
  ASSUME Reconnect
  PROVE  Promise!Next
<1>1. Fates' = [t \in Windows |-> "unseen"]
  <2>1. DOMAIN known' = {}
    BY DEF Reconnect
  <2>2. \A t \in Windows : Fates'[t] = "unseen"
    BY <2>1, FateByCases DEF FateIs
  <2> QED BY <2>2, FatesTypes
<1>2. Moves' = << >>
  BY NoRequestsNoMoves, MovesFollowRequests DEF Reconnect
<1>3. Promise!NewSession
  BY <1>1, <1>2 DEF Promise!NewSession, Promise!Nowhere, Fates
<1> QED BY <1>3 DEF Promise!Next

LEMMA InitIsPromiseInit == Init => Promise!Init
<1> SUFFICES ASSUME Init PROVE Promise!Init
  OBVIOUS
<1>1. requests = << >> /\ << >> \in Seq(Request) /\ DOMAIN known = {}
  BY EmptySeq DEF Init
<1>2. Fates = [t \in Windows |-> "unseen"]
  BY <1>1, FateByCases, FatesTypes DEF FateIs
<1>3. Moves = << >>
  BY <1>1, MovesFollowRequests, NoRequestsNoMoves
<1> QED BY <1>2, <1>3 DEF Promise!Init, Promise!Nowhere, Fates

(* What the user and the compositor do, and the other handlers, is nothing to
   a window's placement. *)
LEMMA OthersKeepPromise ==
  ASSUME UNCHANGED <<requests, pending>>, DOMAIN known' = DOMAIN known,
         hist'.targets = hist.targets
  PROVE  UNCHANGED Promise!vars
<1>1. Waiting' = Waiting
  BY DEF Waiting
<1> QED BY <1>1, NoFateChanges, MovesFollowRequests, PromiseStutters

LEMMA StepKeepsPromise ==
  ASSUME IInv, [Next]_vars
  PROVE  [Promise!Next]_Promise!vars
<1>1. /\ OwnTypeOK /\ hist \in History /\ IsWorld(world) /\ next_workspace \in Nat
  BY DEF IInv, OwnTypeOK
<1>2. ASSUME NEW t \in Windows, UpdateToplevel(t) PROVE UNCHANGED Promise!vars
  <2>1. DOMAIN known' = DOMAIN known
    BY <1>1, <1>2, KnownType DEF UpdateToplevel
  <2> QED BY <1>2, <2>1, OthersKeepPromise DEF UpdateToplevel, SendsNothing, appdata
<1>3. ASSUME TimerFires PROVE UNCHANGED Promise!vars
  BY <1>3, OthersKeepPromise DEF TimerFires, appdata
<1>4. ASSUME NEW t \in Windows, Open(t) PROVE UNCHANGED Promise!vars
  BY <1>1, <1>4, OthersKeepPromise DEF Open, daemon, appdata, History
<1>5. ASSUME Decorate PROVE UNCHANGED Promise!vars
  BY <1>1, <1>5, OthersKeepPromise DEF Decorate, daemon, appdata, History
<1>6. ASSUME NEW w \in Ids, NEW g \in GroupIds(world), AddWorkspace(w, g)
      PROVE  UNCHANGED Promise!vars
  <2>1. NewWorkspace(w, g) /\ g \in Nat
    BY <1>1, <1>6, GroupIdsType DEF AddWorkspace
  <2>2. hist'.targets = hist.targets
    BY <1>1, <2>1, NewWorkspaceType
  <2> QED BY <1>6, <2>2, OthersKeepPromise DEF AddWorkspace, daemon, appdata
<1>7. ASSUME \/ \E t \in Windows : Close(t)
             \/ \E w \in Ids : UserSwitches(w)
             \/ \E w \in Ids : RemoveWorkspace(w)
             \/ \E g \in GroupIds(world), h \in GroupIds(world) \union {NoGroup} :
                  Unplug(g, h)
             \/ UNCHANGED vars
      PROVE  UNCHANGED Promise!vars
  BY <1>7, OthersKeepPromise
  DEF Close, UserSwitches, RemoveWorkspace, Unplug, vars, daemon, appdata
<1> QED BY <1>2, <1>3, <1>4, <1>5, <1>6, <1>7, NewToplevelKeepsPromise,
           ToplevelClosedKeepsPromise, WorkspaceDoneKeepsPromise,
           ScanPendingKeepsPromise, ProcessRequestKeepsPromise,
           ReconnectKeepsPromise
        DEF Next

(* To a window the daemon's part is that of WindowPlacement, whatever happens
   to workspaces and groups meanwhile, however late the compositor takes up
   the requests, and across sessions. *)
THEOREM SessionImplementsPlacement == Spec => PlacementIsImplemented
<1>1. IInv /\ [Next]_vars => [Promise!Next]_Promise!vars
  BY StepKeepsPromise
<1> QED BY <1>1, InitIsPromiseInit, InductiveInvariant, PTL
        DEF Spec, PlacementIsImplemented, Promise!Spec
=============================================================================
