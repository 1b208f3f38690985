----------------------------- MODULE MruProofs ------------------------------
(***************************************************************************)
(* Proofs about MruCheck, for every set of groups and workspaces, every    *)
(* length of the list and any number of visits.  A done batch is taken     *)
(* apart into its visits: each keeps what the list tells of them, so by    *)
(* induction does the batch.                                               *)
(***************************************************************************)
EXTENDS MruCheck, OperatorProofs

(* What LastVisitIn returns: the last position of w, or 0. *)
LEMMA LastVisitIs ==
  ASSUME NEW v \in Seq(Workspaces), NEW w
  PROVE  /\ LastVisitIn(v, w) \in 0 .. Len(v) /\ Len(v) \in Nat
         /\ LastVisitIn(v, w) # 0 => v[LastVisitIn(v, w)] = w
         /\ \A i \in 1 .. Len(v) : v[i] = w => i <= LastVisitIn(v, w)
<1> DEFINE V == {i \in DOMAIN v : v[i] = w}
<1>1. Len(v) \in Nat /\ DOMAIN v = 1 .. Len(v)
  BY LenProperties
<1>2. CASE V = {}
  BY <1>1, <1>2 DEF LastVisitIn
<1>3. CASE V # {}
  <2> DEFINE D == {Len(v) - i : i \in V}
  <2>1. D \subseteq Nat /\ D # {}
    BY <1>1, <1>3
  <2>2. PICK d \in D : \A e \in D : d <= e
    BY <2>1, LeastExists
  <2>3. PICK m \in V : d = Len(v) - m
    BY <2>2
  <2>4. \A j \in V : j <= m
    <3> SUFFICES ASSUME NEW j \in V PROVE j <= m
      OBVIOUS
    <3>1. Len(v) - m <= Len(v) - j
      BY <2>2, <2>3
    <3> QED BY <1>1, <3>1
  <2>5. LastVisitIn(v, w) = CHOOSE i \in V : \A j \in V : j <= i
    BY <1>3 DEF LastVisitIn
  <2> HIDE DEF V, D
  <2>6. LastVisitIn(v, w) \in V /\ \A j \in V : j <= LastVisitIn(v, w)
    BY <2>3, <2>4, <2>5
  <2> QED BY <1>1, <2>6 DEF V
<1> QED BY <1>2, <1>3

(* And it is the only such position. *)
LEMMA LastVisitUnique ==
  ASSUME NEW v \in Seq(Workspaces), NEW w, NEW n \in 0 .. Len(v),
         n # 0 => v[n] = w,
         \A i \in 1 .. Len(v) : v[i] = w => i <= n
  PROVE  LastVisitIn(v, w) = n
<1> DEFINE m == LastVisitIn(v, w)
<1>1. /\ m \in 0 .. Len(v) /\ Len(v) \in Nat
      /\ m # 0 => v[m] = w
      /\ \A i \in 1 .. Len(v) : v[i] = w => i <= m
  BY LastVisitIs
<1>2. CASE n = 0
  <2>1. m = 0
    BY <1>1, <1>2
  <2> QED BY <1>2, <2>1
<1>3. CASE n # 0
  <2>1. n \in 1 .. Len(v) /\ v[n] = w
    BY <1>1, <1>3
  <2>2. n <= m
    BY <1>1, <2>1
  <2>3. m \in 1 .. Len(v) /\ v[m] = w
    BY <1>1, <2>1, <2>2
  <2>4. m <= n
    BY <2>3
  <2> QED BY <1>1, <2>1, <2>2, <2>4
<1> QED BY <1>2, <1>3

(* Two workspaces were not visited last at the same time. *)
LEMMA LastVisitsDiffer ==
  ASSUME NEW v \in Seq(Workspaces), NEW w, NEW x,
         LastVisitIn(v, w) = LastVisitIn(v, x), LastVisitIn(v, w) # 0
  PROVE  w = x
BY LastVisitIs

(* One more visit. *)
LEMMA LastVisitAppend ==
  ASSUME NEW v \in Seq(Workspaces), NEW w \in Workspaces, NEW x
  PROVE  LastVisitIn(Append(v, w), x) =
           IF x = w THEN Len(v) + 1 ELSE LastVisitIn(v, x)
<1> DEFINE u == Append(v, w)
           n == IF x = w THEN Len(v) + 1 ELSE LastVisitIn(v, x)
<1>1. /\ u \in Seq(Workspaces) /\ Len(u) = Len(v) + 1 /\ Len(v) \in Nat
      /\ u[Len(v) + 1] = w /\ \A i \in 1 .. Len(v) : u[i] = v[i]
  BY AppendProperties, LenProperties
<1>2. /\ LastVisitIn(v, x) \in 0 .. Len(v)
      /\ LastVisitIn(v, x) # 0 => v[LastVisitIn(v, x)] = x
      /\ \A i \in 1 .. Len(v) : v[i] = x => i <= LastVisitIn(v, x)
  BY LastVisitIs
<1> HIDE DEF u
<1>3. n \in 0 .. Len(u) /\ (n # 0 => u[n] = x)
  BY <1>1, <1>2
<1>4. \A i \in 1 .. Len(u) : u[i] = x => i <= n
  <2> SUFFICES ASSUME NEW i \in 1 .. Len(u), u[i] = x PROVE i <= n
    OBVIOUS
  <2>1. CASE i = Len(v) + 1
    BY <1>1, <2>1
  <2>2. CASE i # Len(v) + 1
    <3>1. i \in 1 .. Len(v)
      BY <1>1, <2>2
    <3> QED BY <1>1, <1>2, <3>1
  <2> QED BY <2>1, <2>2
<1> HIDE DEF n
<1>5. LastVisitIn(u, x) = n
  BY <1>1, <1>3, <1>4, LastVisitUnique
<1> QED BY <1>5 DEF u, n

-----------------------------------------------------------------------------
(* The list. *)

(* What the list tells has no repetitions. *)
LEMMA ToldOnce ==
  ASSUME NEW r, NEW v, TellsOf(r, v)
  PROVE  \A i, j \in 1 .. Len(r) : r[i] = r[j] => i = j
<1> SUFFICES ASSUME NEW i \in 1 .. Len(r), NEW j \in 1 .. Len(r), r[i] = r[j]
             PROVE  i = j
  OBVIOUS
<1>1. v \in Seq(Workspaces) /\ Len(r) \in Nat
  BY LenProperties DEF TellsOf
<1>2. LastVisitIn(v, r[i]) \in Nat
  BY <1>1, LastVisitIs
<1>3. ~(i < j) /\ ~(j < i)
  BY <1>2 DEF TellsOf
<1> QED BY <1>1, <1>3

(* record_mru_transition keeps it true: one more visit, one more entry. *)
LEMMA OneMoreVisit ==
  ASSUME NEW r, NEW v, TellsOf(r, v), NEW w \in Workspaces
  PROVE  TellsOf(RecordTransition(r, w, Cap), Append(v, w))
<1> DEFINE new == RecordTransition(r, w, Cap)
           u == Append(v, w)
           V(x) == LastVisitIn(v, x)
           U(x) == LastVisitIn(u, x)
<1>1. /\ r \in Seq(Workspaces) /\ Len(r) <= Cap /\ v \in Seq(Workspaces)
      /\ \A i \in 1 .. Len(r) : V(r[i]) > 0
      /\ \A i, j \in 1 .. Len(r) : i < j => V(r[i]) > V(r[j])
      /\ \A x \in Workspaces :
           (V(x) > 0 /\ \A i \in 1 .. Len(r) : r[i] # x) =>
             /\ Len(r) = Cap
             /\ \A i \in 1 .. Len(r) : V(r[i]) > V(x)
      /\ Cap \in Nat \ {0}
  BY MruAssumption DEF TellsOf
<1>2. u \in Seq(Workspaces) /\ Len(v) \in Nat /\ Len(r) \in Nat
  BY <1>1, AppendProperties, LenProperties
<1>3. \A x : U(x) = IF x = w THEN Len(v) + 1 ELSE V(x)
  BY <1>1, LastVisitAppend
<1>4. \A x : V(x) \in 0 .. Len(v)
  BY <1>1, LastVisitIs
<1> HIDE DEF U, V, u
<1>5. /\ new \in Seq(Workspaces) /\ Len(new) \in 1 .. Cap /\ new[1] = w
      /\ Len(new) = Cap \/ Len(new) >= Len(r)
      /\ \E from : ComesFrom(new, r, w, Cap, from)
  <2>1. \A i, j \in 1 .. Len(r) : r[i] = r[j] => i = j
    BY ToldOnce
  <2>2. Cap \in Nat \ {0} /\ r \in Seq(Workspaces)
    BY <1>1
  <2>3. ASSUME NEW q, q = RecordTransition(r, w, Cap)
        PROVE  /\ q \in Seq(Workspaces) /\ Len(q) \in 1 .. Cap /\ q[1] = w
               /\ Len(q) = Cap \/ Len(q) >= Len(r)
               /\ \E from : ComesFrom(q, r, w, Cap, from)
    <3>1. q \in Seq(Workspaces) /\ Len(q) \in 1 .. Cap /\ q[1] = w
      BY <2>2, <2>3, RecordTransitionType
    <3>2. Len(q) = Cap \/ Len(q) >= Len(r)
      BY <2>1, <2>2, <2>3, RecordTransitionSources
    <3>3. \E from : ComesFrom(q, r, w, Cap, from)
      BY <2>1, <2>2, <2>3, RecordTransitionSources
    <3> QED BY <3>1, <3>2, <3>3
  <2> QED BY <2>3
<1> HIDE DEF new
<1>6. PICK from : ComesFrom(new, r, w, Cap, from)
  BY <1>5
<1>7. \A i \in 2 .. Len(new) : /\ from[i] \in 1 .. Len(r) /\ new[i] = r[from[i]]
                               /\ U(new[i]) = V(r[from[i]])
  BY <1>3, <1>6 DEF ComesFrom
<1>8. U(new[1]) = Len(v) + 1
  BY <1>3, <1>5
<1>9. \A i \in 1 .. Len(new) : U(new[i]) > 0
  <2> SUFFICES ASSUME NEW i \in 1 .. Len(new) PROVE U(new[i]) > 0
    OBVIOUS
  <2>1. CASE i = 1
    BY <1>2, <1>8, <2>1
  <2>2. CASE i # 1
    <3>1. i \in 2 .. Len(new)
      BY <1>5, <2>2
    <3> QED BY <1>1, <1>7, <3>1
  <2> QED BY <2>1, <2>2
<1>10. ASSUME NEW i \in 1 .. Len(new), NEW j \in 1 .. Len(new), i < j
       PROVE  U(new[i]) > U(new[j])
  <2>1. j \in 2 .. Len(new)
    BY <1>5, <1>10
  <2>2. CASE i = 1
    <3>1. V(r[from[j]]) \in 0 .. Len(v)
      BY <1>4
    <3> QED BY <1>2, <1>7, <1>8, <2>1, <2>2, <3>1
  <2>3. CASE i # 1
    <3>1. i \in 2 .. Len(new)
      BY <1>5, <2>3
    <3>2. from[i] < from[j]
      BY <1>6, <1>10, <2>1, <3>1 DEF ComesFrom
    <3> QED BY <1>1, <1>7, <2>1, <3>1, <3>2
  <2> QED BY <2>2, <2>3
<1>11. ASSUME NEW x \in Workspaces, U(x) > 0, \A i \in 1 .. Len(new) : new[i] # x
       PROVE  /\ Len(new) = Cap
              /\ \A i \in 1 .. Len(new) : U(new[i]) > U(x)
  <2>1. x # w /\ U(x) = V(x) /\ V(x) \in 0 .. Len(v)
    BY <1>3, <1>4, <1>5, <1>11
  <2>2. U(new[1]) > U(x)
    BY <1>2, <1>8, <2>1
  <2>3. CASE \A k \in 1 .. Len(r) : r[k] # x
    <3>1. Len(r) = Cap /\ \A k \in 1 .. Len(r) : V(r[k]) > V(x)
      BY <1>1, <1>11, <2>1, <2>3
    <3>2. Len(new) = Cap
      BY <1>1, <1>5, <3>1
    <3>3. \A i \in 2 .. Len(new) : U(new[i]) > U(x)
      BY <1>7, <2>1, <3>1
    <3> QED BY <1>5, <2>2, <3>2, <3>3
  <2>4. CASE \E k \in 1 .. Len(r) : r[k] = x
    <3>1. PICK k \in 1 .. Len(r) : r[k] = x
      BY <2>4
    <3>2. ~(\E i \in 2 .. Len(new) : from[i] = k)
      BY <1>5, <1>7, <1>11, <3>1
    <3>3. Len(new) = Cap /\ \A i \in 2 .. Len(new) : from[i] < k
      BY <1>6, <2>1, <3>1, <3>2 DEF ComesFrom
    <3>4. \A i \in 2 .. Len(new) : U(new[i]) > U(x)
      BY <1>1, <1>7, <2>1, <3>1, <3>3
    <3> QED BY <1>5, <2>2, <3>3, <3>4
  <2> QED BY <2>3, <2>4
<1>12. Len(new) <= Cap
  BY <1>1, <1>5
<1> QED BY <1>2, <1>5, <1>9, <1>10, <1>11, <1>12 DEF TellsOf, U, u, new

(* Writing out one entry more of a list. *)
LEMMA OneEntryMore ==
  ASSUME NEW S, NEW v \in Seq(S), NEW t, NEW n \in Nat,
         \A i \in 1 .. n + 1 : t[i].workspace \in S
  PROVE  /\ v \o [i \in 1 .. n |-> t[i].workspace] \in Seq(S)
         /\ v \o [i \in 1 .. n + 1 |-> t[i].workspace] =
              Append(v \o [i \in 1 .. n |-> t[i].workspace],
                     t[n + 1].workspace)
<1> DEFINE a == [i \in 1 .. n |-> t[i].workspace]
           b == [i \in 1 .. n + 1 |-> t[i].workspace]
           e == t[n + 1].workspace
<1>1. e \in S /\ a \in [1 .. n -> S] /\ b \in [1 .. n + 1 -> S]
  OBVIOUS
<1>2. a \in Seq(S) /\ b \in Seq(S)
  BY <1>1, SeqDef
<1>3. Len(a) = n /\ Len(b) = n + 1
  BY <1>1, <1>2, LenProperties
<1>4. \A i \in 1 .. n : b[i] = a[i]
  OBVIOUS
<1>5. b[n + 1] = e
  OBVIOUS
<1> HIDE DEF a, b, e
<1>6. b = Append(a, e)
  <2>1. /\ Append(a, e) \in Seq(S) /\ Len(Append(a, e)) = n + 1
        /\ \A i \in 1 .. n : Append(a, e)[i] = a[i]
        /\ Append(a, e)[n + 1] = e
    BY <1>1, <1>2, <1>3, AppendProperties
  <2>2. \A i \in 1 .. n + 1 : b[i] = Append(a, e)[i]
    BY <1>4, <1>5, <2>1
  <2> QED BY <1>2, <1>3, <2>1, <2>2, SeqEqual
<1>7. v \o a \in Seq(S)
  BY <1>2, ConcatProperties
<1>8. v \o b = Append(v \o a, e)
  <2>1. <<e>> \in Seq(S)
    BY <1>1, SeqDef
  <2>2. Append(a, e) = a \o <<e>> /\ Append(v \o a, e) = (v \o a) \o <<e>>
    BY <1>1, <1>2, <1>7, AppendIsConcat
  <2>3. v \o (a \o <<e>>) = (v \o a) \o <<e>>
    BY <1>2, <2>1, ConcatAssociative
  <2> QED BY <1>6, <2>2, <2>3
<1> QED BY <1>7, <1>8 DEF a, b, e

(* So does a batch of visits. *)
LEMMA MoreVisits ==
  ASSUME NEW r, NEW v, TellsOf(r, v), NEW new, Len(new) \in Nat,
         \A i \in 1 .. Len(new) : new[i].workspace \in Workspaces
  PROVE  TellsOf(RecordAll(r, new, Cap),
                 v \o [i \in 1 .. Len(new) |-> new[i].workspace])
<1>1. PICK f : /\ Records(r, new, Cap, Len(new), f)
               /\ RecordAll(r, new, Cap) = f[Len(new)]
  BY RecordAllRecords
<1> DEFINE N == Len(new)
           V(n) == v \o [i \in 1 .. n |-> new[i].workspace]
           P == {n \in Nat : n <= N => TellsOf(f[n], V(n))}
<1>2. v \in Seq(Workspaces)
  BY DEF TellsOf
<1> HIDE DEF N
<1>3. N \in Nat /\ \A i \in 1 .. N : new[i].workspace \in Workspaces
  BY DEF N
<1>4. Records(r, new, Cap, N, f) /\ RecordAll(r, new, Cap) = f[N]
  BY <1>1 DEF N
<1>5. 0 \in P
  <2>1. f[0] = r
    <3>1. 0 \in 0 .. N
      BY <1>3
    <3> QED BY <1>4, <3>1, RecordAt
  <2>2. [i \in 1 .. 0 |-> new[i].workspace] = << >>
    OBVIOUS
  <2>3. V(0) = v
    BY <1>2, <2>2, ConcatEmptySeq
  <2> QED BY <2>1, <2>3
<1>6. ASSUME NEW n \in Nat, n \in P PROVE n + 1 \in P
  <2> SUFFICES ASSUME n + 1 <= N PROVE TellsOf(f[n + 1], V(n + 1))
    OBVIOUS
  <2>1. TellsOf(f[n], V(n))
    BY <1>3, <1>6
  <2>2. /\ n + 1 \in 0 .. N /\ n + 1 # 0 /\ (n + 1) - 1 = n
        /\ \A i \in 1 .. n + 1 : new[i].workspace \in Workspaces
    BY <1>3
  <2>3. f[n + 1] = RecordTransition(f[n], new[n + 1].workspace, Cap)
    BY <1>4, <2>2, RecordAt
  <2>4. V(n + 1) = Append(V(n), new[n + 1].workspace)
    BY <1>2, <2>2, OneEntryMore
  <2>5. new[n + 1].workspace \in Workspaces
    BY <2>2
  <2> HIDE DEF V
  <2> QED BY <2>1, <2>3, <2>4, <2>5, OneMoreVisit
<1> HIDE DEF P
<1>7. N \in P
  BY <1>3, <1>5, <1>6, SetInduction
<1>8. TellsOf(f[N], V(N))
  BY <1>3, <1>7 DEF P
<1> QED BY <1>4, <1>8 DEF N

(* What a batch does to the last visits. *)
LEMMA LastVisitConcat ==
  ASSUME NEW v \in Seq(Workspaces), NEW t \in Seq(Workspaces), NEW x
  PROVE  /\ (\E i \in 1 .. Len(t) : t[i] = x) => LastVisitIn(v \o t, x) > Len(v)
         /\ (\A i \in 1 .. Len(t) : t[i] # x) =>
              LastVisitIn(v \o t, x) = LastVisitIn(v, x)
         /\ LastVisitIn(v \o t, x) >= LastVisitIn(v, x)
         /\ LastVisitIn(v \o t, x) \in Nat /\ LastVisitIn(v, x) \in 0 .. Len(v)
<1> DEFINE u == v \o t
<1>1. /\ u \in Seq(Workspaces) /\ Len(u) = Len(v) + Len(t)
      /\ Len(v) \in Nat /\ Len(t) \in Nat
      /\ \A i \in 1 .. Len(v) : u[i] = v[i]
      /\ \A i \in 1 .. Len(t) : u[Len(v) + i] = t[i]
  <2>1. /\ u \in Seq(Workspaces) /\ Len(u) = Len(v) + Len(t)
        /\ \A i \in 1 .. Len(v) + Len(t) :
             u[i] = IF i <= Len(v) THEN v[i] ELSE t[i - Len(v)]
    BY ConcatProperties
  <2>2. Len(v) \in Nat /\ Len(t) \in Nat
    BY LenProperties
  <2> HIDE DEF u
  <2>3. \A i \in 1 .. Len(v) : u[i] = v[i]
    BY <2>1, <2>2
  <2>4. ASSUME NEW i \in 1 .. Len(t) PROVE u[Len(v) + i] = t[i]
    <3>1. /\ Len(v) + i \in 1 .. Len(v) + Len(t) /\ ~(Len(v) + i <= Len(v))
          /\ (Len(v) + i) - Len(v) = i
      BY <2>2
    <3> QED BY <2>1, <3>1
  <2> QED BY <2>1, <2>2, <2>3, <2>4
<1> HIDE DEF u
<1>2. /\ LastVisitIn(u, x) \in 0 .. Len(u)
      /\ LastVisitIn(u, x) # 0 => u[LastVisitIn(u, x)] = x
      /\ \A i \in 1 .. Len(u) : u[i] = x => i <= LastVisitIn(u, x)
  BY <1>1, LastVisitIs
<1>3. /\ LastVisitIn(v, x) \in 0 .. Len(v)
      /\ LastVisitIn(v, x) # 0 => v[LastVisitIn(v, x)] = x
      /\ \A i \in 1 .. Len(v) : v[i] = x => i <= LastVisitIn(v, x)
  BY LastVisitIs
<1>4. ASSUME NEW i \in 1 .. Len(t), t[i] = x PROVE LastVisitIn(u, x) > Len(v)
  <2>1. Len(v) + i \in 1 .. Len(u) /\ u[Len(v) + i] = x
    BY <1>1, <1>4
  <2>2. Len(v) + i <= LastVisitIn(u, x)
    BY <1>2, <2>1
  <2> QED BY <1>1, <1>2, <2>2
<1>5. ASSUME \A i \in 1 .. Len(t) : t[i] # x
      PROVE  LastVisitIn(u, x) = LastVisitIn(v, x)
  <2>1. LastVisitIn(v, x) \in 0 .. Len(u)
    BY <1>1, <1>3
  <2>2. LastVisitIn(v, x) # 0 => u[LastVisitIn(v, x)] = x
    BY <1>1, <1>3
  <2>3. ASSUME NEW i \in 1 .. Len(u), u[i] = x PROVE i <= LastVisitIn(v, x)
    <3>1. CASE i \in 1 .. Len(v)
      BY <1>1, <1>3, <2>3, <3>1
    <3>2. CASE i \notin 1 .. Len(v)
      <4>1. i - Len(v) \in 1 .. Len(t) /\ Len(v) + (i - Len(v)) = i
        BY <1>1, <3>2
      <4>2. t[i - Len(v)] = x
        BY <1>1, <2>3, <4>1
      <4> QED BY <1>5, <4>1, <4>2
    <3> QED BY <3>1, <3>2
  <2> QED BY <1>1, <2>1, <2>2, <2>3, LastVisitUnique
<1>6. LastVisitIn(u, x) >= LastVisitIn(v, x)
  <2>1. CASE \E i \in 1 .. Len(t) : t[i] = x
    <3>1. LastVisitIn(u, x) > Len(v)
      BY <1>4, <2>1
    <3> QED BY <1>1, <1>2, <1>3, <3>1
  <2>2. CASE \A i \in 1 .. Len(t) : t[i] # x
    BY <1>3, <1>5, <2>2
  <2> QED BY <2>1, <2>2
<1>7. LastVisitIn(u, x) \in Nat
  BY <1>1, <1>2
<1> QED BY <1>3, <1>4, <1>5, <1>6, <1>7 DEF u

-----------------------------------------------------------------------------
(* One done batch. *)

(* current lists the groups of G, each once, with the workspace it shows. *)
Shows(G, shown, current) ==
  /\ G \subseteq Groups /\ \A g \in G : shown[g] \in Members(g)
  /\ current \in Seq([group : G, workspace : Workspaces])
  /\ \A i \in 1 .. Len(current) : current[i].workspace = shown[current[i].group]
  /\ \A g \in G : \E i \in 1 .. Len(current) : current[i].group = g

LEMMA BatchShows ==
  ASSUME NEW G \in SUBSET Groups, NEW shown \in [G -> Workspaces],
         \A g \in G : GroupOf(shown[g]) = g, NEW order \in Listings(shown)
  PROVE  Shows(G, shown,
               [i \in DOMAIN order |->
                  [group |-> order[i], workspace |-> shown[order[i]]]])
<1> DEFINE current == [i \in DOMAIN order |->
                         [group |-> order[i], workspace |-> shown[order[i]]]]
           R == [group : G, workspace : Workspaces]
<1>1. IsFiniteSet(G) /\ DOMAIN shown = G
  BY MruAssumption, FS_Subset
<1>2. order \in SetToSeqs(G)
  BY <1>1 DEF Listings, SetToSeqs
<1>3. order \in Seq(G) /\ Len(order) \in Nat /\ Range(order) = G
  BY <1>1, <1>2, InSomeOrder
<1>4. DOMAIN order = 1 .. Len(order) /\ \A i \in 1 .. Len(order) : order[i] \in G
  BY <1>3, LenProperties, ElementOfSeq
<1>5. current \in [1 .. Len(order) -> R]
  BY <1>4
<1>6. current \in Seq(R) /\ Len(current) = Len(order)
  BY <1>3, <1>5, SeqDef, LenProperties
<1>7. \A i \in 1 .. Len(order) : /\ current[i].group = order[i]
                                 /\ current[i].workspace = shown[order[i]]
  BY <1>4
<1> HIDE DEF current
<1>8. \A g \in G : \E i \in 1 .. Len(order) : order[i] = g
  BY <1>3, <1>4 DEF Range
<1>9. \A g \in G : shown[g] \in Members(g)
  BY DEF Members
<1>10. /\ \A i \in 1 .. Len(current) :
             current[i].workspace = shown[current[i].group]
       /\ \A g \in G : \E i \in 1 .. Len(current) : current[i].group = g
  BY <1>6, <1>7, <1>8
<1>11. Shows(G, shown, current)
  BY <1>6, <1>9, <1>10 DEF Shows
<1> QED BY <1>11 DEF current

(* last_known_active then holds what the groups show. *)
LEMMA LastKnownAfter ==
  ASSUME NEW G, NEW shown, NEW current, Shows(G, shown, current),
         NEW last, NEW after, after = UpdateLast(last, current)
  PROVE  /\ \A g : g \in DOMAIN after <=> g \in DOMAIN last \/ g \in G
         /\ \A g \in G : after[g] = shown[g]
         /\ \A g \in DOMAIN last : g \notin G => after[g] = last[g]
<1>1. /\ DOMAIN current = 1 .. Len(current)
      /\ \A i \in 1 .. Len(current) : current[i].group \in G
  <2> DEFINE R == [group : G, workspace : Workspaces]
  <2>1. current \in Seq(R)
    BY DEF Shows
  <2>2. \A i \in 1 .. Len(current) : current[i] \in R
    BY <2>1, ElementOfSeq
  <2> QED BY <2>1, <2>2, LenProperties
<1>2. {current[i].group : i \in DOMAIN current} = G
  BY <1>1 DEF Shows
<1>3. ASSUME NEW g \in G PROVE ActiveIn(current, g) = shown[g]
  <2> DEFINE I == {i \in 1 .. Len(current) : current[i].group = g}
  <2>1. I \subseteq Nat /\ I # {}
    BY DEF Shows
  <2>2. Min(I) \in I
    BY <2>1, MinIsLeast
  <2>3. ActiveIn(current, g) = current[Min(I)].workspace
    BY <2>1 DEF ActiveIn, SelectInSeq
  <2> QED BY <2>2, <2>3 DEF Shows
<1>4. \A g : (\E i \in DOMAIN current : current[i].group = g) <=> g \in G
  BY <1>2
<1> QED BY <1>2, <1>3, <1>4 DEF UpdateLast

(* What it yields are the groups that show something else than before. *)
LEMMA TransitionsAre ==
  ASSUME NEW G, NEW shown, NEW current, Shows(G, shown, current),
         NEW last, NEW new, new = Transitions(last, current)
  PROVE  /\ Len(new) \in Nat /\ DOMAIN new = 1 .. Len(new)
         /\ \A i \in 1 .. Len(new) :
              /\ new[i].workspace \in Workspaces
              /\ GroupOf(new[i].workspace) \in G
              /\ new[i].workspace = shown[GroupOf(new[i].workspace)]
         /\ \A g \in G : (g \notin DOMAIN last \/ last[g] # shown[g]) =>
              \E i \in 1 .. Len(new) : new[i].workspace = shown[g]
<1> DEFINE R == [group : G, workspace : Workspaces]
           K == {c \in Range(current) : \/ c.group \notin DOMAIN last
                                        \/ last[c.group] # c.workspace}
<1>1. current \in Seq(R) /\ Len(current) \in Nat
      /\ DOMAIN current = 1 .. Len(current)
  BY LenProperties DEF Shows
<1>2. new = Retained(current, K)
  BY DEF Transitions
<1>3. new \in Seq(R)
  BY <1>1, <1>2, RetainedSources
<1>4. PICK from : IsFrom(current, K, new, Len(current), from)
  BY <1>1, <1>2, RetainedSources
<1>5. Len(new) \in Nat /\ DOMAIN new = 1 .. Len(new)
  BY <1>3, LenProperties
<1>6. ASSUME NEW i \in 1 .. Len(new)
      PROVE  /\ new[i].workspace \in Workspaces
             /\ GroupOf(new[i].workspace) \in G
             /\ new[i].workspace = shown[GroupOf(new[i].workspace)]
  <2>1. new[i] \in R
    BY <1>3, ElementOfSeq
  <2>2. from[i] \in 1 .. Len(current) /\ new[i] = current[from[i]]
    BY <1>4 DEF IsFrom
  <2>3. new[i].workspace = shown[new[i].group] /\ new[i].group \in G
    BY <2>1, <2>2 DEF Shows
  <2>4. GroupOf(new[i].workspace) = new[i].group
    BY <2>3 DEF Shows, Members
  <2> QED BY <2>1, <2>3, <2>4
<1>7. ASSUME NEW g \in G, g \notin DOMAIN last \/ last[g] # shown[g]
      PROVE  \E i \in 1 .. Len(new) : new[i].workspace = shown[g]
  <2>1. PICK k \in 1 .. Len(current) : current[k].group = g
    BY DEF Shows
  <2>2. current[k].workspace = shown[g]
    BY <2>1 DEF Shows
  <2>3. current[k] \in K
    BY <1>1, <1>7, <2>1, <2>2 DEF Range
  <2>4. PICK i \in 1 .. Len(new) : from[i] = k
    BY <1>4, <2>3 DEF IsFrom
  <2>5. new[i] = current[k]
    BY <1>4, <2>4 DEF IsFrom
  <2> QED BY <2>2, <2>5
<1> QED BY <1>5, <1>6, <1>7

-----------------------------------------------------------------------------
(* The inductive invariant. *)

LEMMA InitIInv == Init => IInv
<1> SUFFICES ASSUME Init PROVE IInv
  OBVIOUS
<1>1. << >> \in Seq(Workspaces) /\ Len(<< >>) = 0
  BY EmptySeq
<1>2. ASSUME NEW w PROVE LastVisitIn(<< >>, w) = 0
  <2>1. DOMAIN << >> = {}
    OBVIOUS
  <2> QED BY <2>1 DEF LastVisitIn
<1>3. TypeOK
  BY <1>1, MruAssumption DEF Init, TypeOK
<1>4. TellsOf(recent, visits)
  BY <1>1, <1>2, MruAssumption DEF Init, TellsOf
<1>5. LastKnownIsLatest
  BY <1>2 DEF Init, LastKnownIsLatest, LastVisit
<1> QED BY <1>3, <1>4, <1>5 DEF IInv

(* A batch, with what it shows and the visits it yields. *)
LEMMA BatchKeepsIInv ==
  ASSUME IInv, NEW G, NEW shown, NEW current, Shows(G, shown, current),
         NEW new, new = Transitions(last_known, current),
         recent' = RecordAll(recent, new, Cap),
         last_known' = UpdateLast(last_known, current),
         visits' = visits \o [i \in DOMAIN new |-> new[i].workspace]
  PROVE  IInv'
<1> DEFINE t == [i \in DOMAIN new |-> new[i].workspace]
<1>1. /\ Len(new) \in Nat /\ DOMAIN new = 1 .. Len(new)
      /\ \A i \in 1 .. Len(new) :
           /\ new[i].workspace \in Workspaces
           /\ GroupOf(new[i].workspace) \in G
           /\ new[i].workspace = shown[GroupOf(new[i].workspace)]
      /\ \A g \in G : (g \notin DOMAIN last_known \/ last_known[g] # shown[g]) =>
           \E i \in 1 .. Len(new) : new[i].workspace = shown[g]
  BY TransitionsAre
<1>2. /\ \A g : g \in DOMAIN last_known' <=> g \in DOMAIN last_known \/ g \in G
      /\ \A g \in G : last_known'[g] = shown[g]
      /\ \A g \in DOMAIN last_known : g \notin G => last_known'[g] = last_known[g]
  BY LastKnownAfter
<1>3. G \subseteq Groups /\ \A g \in G : shown[g] \in Members(g)
  BY DEF Shows
<1>4. TellsOf(recent, visits) /\ TypeOK /\ LastKnownIsLatest
  BY DEF IInv
<1>5. TellsOf(recent', visits')
  <2>1. TellsOf(RecordAll(recent, new, Cap),
                visits \o [i \in 1 .. Len(new) |-> new[i].workspace])
    BY <1>1, <1>4, MoreVisits
  <2> QED BY <1>1, <2>1
<1>6. TypeOK'
  <2>1. recent' \in Seq(Workspaces) /\ Len(recent') <= Cap
    BY <1>5 DEF TellsOf
  <2>2. \A g \in DOMAIN last_known' : /\ g \in Groups
                                      /\ last_known'[g] \in Members(g)
    BY <1>2, <1>3, <1>4 DEF TypeOK
  <2> QED BY <2>1, <2>2 DEF TypeOK
<1>7. /\ visits \in Seq(Workspaces) /\ Len(visits) \in Nat
      /\ t \in Seq(Workspaces) /\ Len(t) = Len(new)
      /\ \A i \in 1 .. Len(new) : t[i] = new[i].workspace
  <2>1. visits \in Seq(Workspaces) /\ Len(visits) \in Nat
    BY <1>4, LenProperties DEF TellsOf
  <2>2. t \in [1 .. Len(new) -> Workspaces]
    BY <1>1
  <2>3. t \in Seq(Workspaces) /\ Len(t) = Len(new)
    BY <1>1, <2>2, SeqDef, LenProperties
  <2> QED BY <1>1, <2>1, <2>3
<1>8. visits' = visits \o t
  OBVIOUS
<1> HIDE DEF t
<1>9. \A x : /\ (\E i \in 1 .. Len(t) : t[i] = x) =>
                  LastVisitIn(visits', x) > Len(visits)
             /\ (\A i \in 1 .. Len(t) : t[i] # x) =>
                  LastVisitIn(visits', x) = LastVisitIn(visits, x)
             /\ LastVisitIn(visits', x) >= LastVisitIn(visits, x)
             /\ LastVisitIn(visits', x) \in Nat
             /\ LastVisitIn(visits, x) \in 0 .. Len(visits)
  BY <1>7, <1>8, LastVisitConcat
<1>10. \A w \in Workspaces : LastVisitIn(visits, w) > 0 =>
         /\ GroupOf(w) \in DOMAIN last_known
         /\ LastVisitIn(visits, w) <= LastVisitIn(visits, last_known[GroupOf(w)])
  BY <1>4 DEF LastKnownIsLatest, LastVisit
<1>11. ASSUME NEW w \in Workspaces, LastVisitIn(visits', w) > 0
       PROVE  /\ GroupOf(w) \in DOMAIN last_known'
              /\ LastVisitIn(visits', w) <=
                   LastVisitIn(visits', last_known'[GroupOf(w)])
  <2> DEFINE g == GroupOf(w)
  <2>1. CASE g \in G /\ w = shown[g]
    <3>1. LastVisitIn(visits', w) \in Nat
      BY <1>9
    <3> QED BY <1>2, <2>1, <3>1
  <2>2. CASE ~(g \in G /\ w = shown[g])
    <3>1. \A i \in 1 .. Len(t) : t[i] # w
      BY <1>1, <1>7, <2>2
    <3>2. LastVisitIn(visits', w) = LastVisitIn(visits, w)
      BY <1>9, <3>1
    <3>3. /\ g \in DOMAIN last_known
          /\ LastVisitIn(visits, w) <= LastVisitIn(visits, last_known[g])
      BY <1>10, <1>11, <3>2
    <3>4. CASE last_known'[g] = last_known[g]
      <4>1. /\ LastVisitIn(visits', last_known[g]) >=
                 LastVisitIn(visits, last_known[g])
            /\ LastVisitIn(visits', last_known[g]) \in Nat
            /\ LastVisitIn(visits, last_known[g]) \in 0 .. Len(visits)
            /\ LastVisitIn(visits, w) \in 0 .. Len(visits)
        BY <1>9
      <4>2. LastVisitIn(visits', w) <= LastVisitIn(visits', last_known[g])
        BY <1>7, <3>2, <3>3, <4>1
      <4> QED BY <1>2, <3>3, <3>4, <4>2
    <3>5. CASE last_known'[g] # last_known[g]
      <4>1. g \in G /\ last_known[g] # shown[g]
        BY <1>2, <3>3, <3>5
      <4>2. PICK i \in 1 .. Len(new) : new[i].workspace = shown[g]
        BY <1>1, <4>1
      <4>3. \E k \in 1 .. Len(t) : t[k] = shown[g]
        BY <1>7, <4>2
      <4>4. /\ LastVisitIn(visits', shown[g]) > Len(visits)
            /\ LastVisitIn(visits', shown[g]) \in Nat
            /\ LastVisitIn(visits, w) \in 0 .. Len(visits)
        BY <1>9, <4>3
      <4>5. LastVisitIn(visits', w) <= LastVisitIn(visits', shown[g])
        BY <1>7, <3>2, <4>4
      <4> QED BY <1>2, <4>1, <4>5
    <3> QED BY <3>4, <3>5
  <2> QED BY <2>1, <2>2
<1>12. LastKnownIsLatest'
  BY <1>11 DEF LastKnownIsLatest, LastVisit
<1> QED BY <1>5, <1>6, <1>12 DEF IInv

LEMMA StepKeepsIInv == IInv /\ [Next]_vars => IInv'
<1> SUFFICES ASSUME IInv, [Next]_vars PROVE IInv'
  OBVIOUS
<1>1. CASE Next
  <2>1. PICK G \in SUBSET Groups :
          \E shown \in {f \in [G -> Workspaces] : \A g \in G : GroupOf(f[g]) = g} :
            \E order \in Listings(shown) : Batch(shown, order)
    BY <1>1 DEF Next
  <2>2. PICK shown \in {f \in [G -> Workspaces] : \A g \in G : GroupOf(f[g]) = g} :
          \E order \in Listings(shown) : Batch(shown, order)
    BY <2>1
  <2>3. PICK order \in Listings(shown) : Batch(shown, order)
    BY <2>2
  <2> DEFINE current == [i \in DOMAIN order |->
                           [group |-> order[i], workspace |-> shown[order[i]]]]
             new == Transitions(last_known, current)
  <2>4. Shows(G, shown, current)
    BY BatchShows
  <2>5. /\ recent' = RecordAll(recent, new, Cap)
        /\ last_known' = UpdateLast(last_known, current)
        /\ visits' = visits \o [i \in DOMAIN new |-> new[i].workspace]
    BY <2>3 DEF Batch
  <2> HIDE DEF current
  <2>6. ASSUME NEW q, q = new PROVE IInv'
    BY <2>4, <2>5, <2>6, BatchKeepsIInv
  <2> QED BY <2>6
<1>2. CASE UNCHANGED vars
  BY <1>2 DEF vars, IInv, TypeOK, LastKnownIsLatest, LastVisit
<1> QED BY <1>1, <1>2

(* What the list tells of the visits, and what a group was last seen to show,
   stay true under any sequence of done batches. *)
THEOREM InductiveInvariant == Spec => []IInv
<1> QED BY InitIInv, StepKeepsIInv, PTL DEF Spec

(* The list is never longer than MRU_CAP, and a group is last known to show
   one of its own workspaces. *)
THEOREM TypeCorrect == Spec => []TypeOK
<1>1. IInv => TypeOK
  BY DEF IInv
<1> QED BY <1>1, InductiveInvariant, PTL

-----------------------------------------------------------------------------
(* What the invariant says of the properties that the runs check. *)

LEMMA ListedFacts ==
  ASSUME IInv
  PROVE  /\ visits \in Seq(Workspaces) /\ Len(visits) \in Nat
         /\ recent \in Seq(Workspaces) /\ Len(recent) \in Nat
         /\ DOMAIN recent = 1 .. Len(recent) /\ Len(recent) <= Cap
         /\ Cap \in Nat \ {0}
         /\ \A w : LastVisit(w) \in Nat
         /\ \A i \in 1 .. Len(recent) : /\ recent[i] \in Workspaces
                                        /\ LastVisit(recent[i]) > 0
         /\ \A i, j \in 1 .. Len(recent) :
              i < j => LastVisit(recent[i]) > LastVisit(recent[j])
         /\ \A i, j \in 1 .. Len(recent) : recent[i] = recent[j] => i = j
         /\ \A w \in Workspaces :
              (LastVisit(w) > 0 /\ \A i \in 1 .. Len(recent) : recent[i] # w) =>
                /\ Len(recent) = Cap
                /\ \A i \in 1 .. Len(recent) :
                     LastVisit(recent[i]) > LastVisit(w)
<1>1. TellsOf(recent, visits)
  BY DEF IInv
<1>2. recent \in Seq(Workspaces) /\ visits \in Seq(Workspaces)
  BY <1>1 DEF TellsOf
<1>3. /\ Len(recent) \in Nat /\ DOMAIN recent = 1 .. Len(recent)
      /\ Len(visits) \in Nat
      /\ \A i \in 1 .. Len(recent) : recent[i] \in Workspaces
  BY <1>2, LenProperties, ElementOfSeq
<1>4. ASSUME NEW w PROVE LastVisitIn(visits, w) \in Nat
  <2>1. LastVisitIn(visits, w) \in 0 .. Len(visits)
    BY <1>2, LastVisitIs
  <2> QED BY <1>3, <2>1
<1>5. \A i, j \in 1 .. Len(recent) : recent[i] = recent[j] => i = j
  BY <1>1, ToldOnce
<1> QED BY <1>1, <1>2, <1>3, <1>4, <1>5, MruAssumption DEF TellsOf, LastVisit

(* Every workspace with a later visit than a listed one is listed before it. *)
LEMMA LaterIsBefore ==
  ASSUME IInv, NEW i \in 1 .. Len(recent), NEW x \in Workspaces,
         LastVisit(x) > LastVisit(recent[i])
  PROVE  \E j \in 1 .. i - 1 : recent[j] = x
<1>1. PICK j \in 1 .. Len(recent) : recent[j] = x
  <2> SUFFICES ASSUME \A j \in 1 .. Len(recent) : recent[j] # x PROVE FALSE
    OBVIOUS
  <2>1. LastVisit(x) \in Nat /\ LastVisit(recent[i]) \in Nat
        /\ LastVisit(recent[i]) > 0
    BY ListedFacts
  <2>2. LastVisit(x) > 0
    BY <2>1
  <2>3. LastVisit(recent[i]) > LastVisit(x)
    BY <2>2, ListedFacts
  <2> QED BY <2>1, <2>3
<1>2. ~(i < j) /\ i # j
  <2>1. LastVisit(x) \in Nat /\ LastVisit(recent[i]) \in Nat
    BY ListedFacts
  <2>2. i < j => LastVisit(recent[i]) > LastVisit(recent[j])
    BY ListedFacts
  <2> QED BY <1>1, <2>1, <2>2
<1>3. j \in 1 .. i - 1
  BY <1>2
<1> QED BY <1>1, <1>3

LEMMA ListedIsRecent ==
  IInv => ListIsTheRecentVisits
<1> SUFFICES ASSUME IInv PROVE ListIsTheRecentVisits
  OBVIOUS
<1> DEFINE Later(w) == {x \in Workspaces : LastVisit(x) > LastVisit(w)}
<1>1. /\ Len(recent) \in Nat /\ DOMAIN recent = 1 .. Len(recent)
      /\ Len(recent) <= Cap /\ Cap \in Nat \ {0}
  BY ListedFacts
<1>2. \A i, j \in DOMAIN recent :
        i < j => LastVisit(recent[i]) > LastVisit(recent[j])
  BY ListedFacts
<1>3. ASSUME NEW i \in 1 .. Len(recent)
      PROVE  /\ LastVisit(recent[i]) > 0
             /\ Cardinality(Later(recent[i])) < Cap
  <2> DEFINE T == Later(recent[i])
  <2>1. \A x \in T : \E j \in 1 .. i - 1 : recent[j] = x
    BY LaterIsBefore
  <2>2. i - 1 \in Nat
    OBVIOUS
  <2> HIDE DEF T
  <2>3. Cardinality(T) \in Nat /\ Cardinality(T) <= i - 1
    BY <2>1, <2>2, ListedIsFinite
  <2>4. Cardinality(T) < Cap
    BY <1>1, <2>3
  <2>5. LastVisit(recent[i]) > 0
    BY ListedFacts
  <2> QED BY <2>4, <2>5 DEF T
<1>4. ASSUME NEW w \in Workspaces, LastVisit(w) > 0,
             \A i \in 1 .. Len(recent) : recent[i] # w
      PROVE  ~(Cardinality(Later(w)) < Cap)
  <2> DEFINE T == Later(w)
  <2>1. /\ Len(recent) = Cap
        /\ \A i \in 1 .. Len(recent) : LastVisit(recent[i]) > LastVisit(w)
    BY <1>4, ListedFacts
  <2>2. \A i \in 1 .. Cap : recent[i] \in T
    <3>1. \A i \in 1 .. Len(recent) : recent[i] \in Workspaces
      BY ListedFacts
    <3> QED BY <2>1, <3>1
  <2>3. \A i, j \in 1 .. Cap : recent[i] = recent[j] => i = j
    BY <2>1, ListedFacts
  <2>4. \A x \in T : \E k \in 1 .. Len(visits) : visits[k] = x
    <3> SUFFICES ASSUME NEW x \in T
                 PROVE  \E k \in 1 .. Len(visits) : visits[k] = x
      OBVIOUS
    <3>1. /\ visits \in Seq(Workspaces) /\ Len(visits) \in Nat
          /\ LastVisit(x) \in Nat /\ LastVisit(w) \in Nat
      BY ListedFacts
    <3>2. LastVisit(x) # 0
      BY <1>4, <3>1
    <3>3. /\ LastVisit(x) \in 0 .. Len(visits)
          /\ visits[LastVisit(x)] = x
      BY <3>1, <3>2, LastVisitIs DEF LastVisit
    <3>4. LastVisit(x) \in 1 .. Len(visits)
      BY <3>1, <3>2, <3>3
    <3> QED BY <3>3, <3>4
  <2>5. Len(visits) \in Nat
    BY ListedFacts
  <2> HIDE DEF T
  <2>6. IsFiniteSet(T) /\ Cardinality(T) \in Nat
    BY <2>4, <2>5, ListedIsFinite
  <2>7. Cap <= Cardinality(T)
    <3>1. Cap \in Nat
      BY <1>1
    <3> QED BY <2>2, <2>3, <2>6, <3>1, DistinctAreCounted
  <2>8. ~(Cardinality(T) < Cap)
    BY <1>1, <2>6, <2>7
  <2> QED BY <2>8 DEF T
<1>5. ASSUME NEW w \in Workspaces
      PROVE  (\E i \in DOMAIN recent : recent[i] = w) <=>
               LastVisit(w) > 0 /\ Cardinality(Later(w)) < Cap
  <2>1. CASE \E i \in DOMAIN recent : recent[i] = w
    <3>1. PICK i \in 1 .. Len(recent) : recent[i] = w
      BY <1>1, <2>1
    <3>2. LastVisit(w) > 0 /\ Cardinality(Later(w)) < Cap
      BY <1>3, <3>1
    <3> QED BY <2>1, <3>2
  <2>2. CASE ~ \E i \in DOMAIN recent : recent[i] = w
    <3>1. ~(LastVisit(w) > 0 /\ Cardinality(Later(w)) < Cap)
      BY <1>1, <1>4, <2>2
    <3> QED BY <2>2, <3>1
  <2> QED BY <2>1, <2>2
<1> QED BY <1>2, <1>5 DEF ListIsTheRecentVisits

LEMMA FirstIsKnown ==
  IInv => FirstIsLastKnown
<1> SUFFICES ASSUME IInv, NEW i \in 1 .. Len(recent),
                    \A j \in 1 .. i - 1 : GroupOf(recent[j]) # GroupOf(recent[i])
             PROVE  /\ GroupOf(recent[i]) \in DOMAIN last_known
                    /\ last_known[GroupOf(recent[i])] = recent[i]
  BY ListedFacts DEF FirstIsLastKnown
<1> DEFINE w == recent[i]
           g == GroupOf(w)
           l == last_known[g]
<1>1. w \in Workspaces /\ LastVisit(w) > 0 /\ LastVisit(w) \in Nat
  BY ListedFacts
<1>2. g \in DOMAIN last_known /\ LastVisit(w) <= LastVisit(l)
  BY <1>1 DEF IInv, LastKnownIsLatest
<1>3. l \in Workspaces /\ GroupOf(l) = g
  BY <1>2 DEF IInv, TypeOK, Members
<1>4. ~(LastVisit(l) > LastVisit(w))
  <2> SUFFICES ASSUME LastVisit(l) > LastVisit(w) PROVE FALSE
    OBVIOUS
  <2>1. PICK j \in 1 .. i - 1 : recent[j] = l
    BY <1>3, LaterIsBefore
  <2> QED BY <1>3, <2>1
<1>5. visits \in Seq(Workspaces) /\ LastVisit(l) \in Nat
  BY ListedFacts
<1> HIDE DEF l
<1>6. LastVisit(w) = LastVisit(l) /\ LastVisit(w) # 0
  BY <1>1, <1>2, <1>4, <1>5
<1>7. w = l
  BY <1>5, <1>6, LastVisitsDiffer DEF LastVisit
<1> QED BY <1>2, <1>7 DEF l

LEMMA JumpTargetIsBest ==
  IInv => JumpIsBest
<1> SUFFICES ASSUME IInv, NEW current \in Workspaces,
                    NEW occupied \in SUBSET Workspaces
             PROVE
               LET g == GroupOf(current)
                   S == (Members(g) \intersect occupied) \ {current}
                   target == SelectJumpTarget(current, Members(g), occupied,
                                              recent, CoordinatesOf)
                   listed == {w \in S : \E i \in DOMAIN recent : recent[i] = w}
               IN IF S = {} THEN target = NoWorkspace
                  ELSE /\ target \in S
                       /\ listed # {} =>
                            \A w \in S : LastVisit(w) <= LastVisit(target)
                       /\ listed = {} =>
                            \A w \in S : CoordinatesOf[target] <= CoordinatesOf[w]
  BY DEF JumpIsBest
<1> DEFINE M == Members(GroupOf(current))
           S == (M \intersect occupied) \ {current}
           seen == {i \in 1 .. Len(recent) : recent[i] \in S}
           target == SelectJumpTarget(current, M, occupied, recent, CoordinatesOf)
           listed == {w \in S : \E i \in DOMAIN recent : recent[i] = w}
<1>1. Eligible(current, M, occupied) = S
  BY DEF Eligible
<1>2. S \subseteq Workspaces /\ S \subseteq Nat
      /\ \A x \in S : CoordinatesOf[x] \in Nat
  BY MruAssumption
<1>3. Len(recent) \in Nat /\ DOMAIN recent = 1 .. Len(recent)
  BY ListedFacts
<1> HIDE DEF M, S
<1>4. /\ S = {} => target = NoWorkspace
      /\ S # {} => target \in S
      /\ seen # {} => \E i \in seen : /\ target = recent[i]
                                      /\ \A j \in seen : i <= j
      /\ (seen = {} /\ S # {}) => target = Lowest(S, CoordinatesOf)
  BY <1>1, <1>2, <1>3, SelectJumpTargetIsBest
<1>5. listed = {} <=> seen = {}
  BY <1>3
<1> HIDE DEF target
<1>6. ASSUME seen # {}, NEW w \in S PROVE LastVisit(w) <= LastVisit(target)
  <2>1. PICK i \in seen : target = recent[i] /\ \A j \in seen : i <= j
    BY <1>4, <1>6
  <2>2. LastVisit(w) \in Nat /\ LastVisit(target) \in Nat
    BY ListedFacts
  <2>3. ~(LastVisit(w) > LastVisit(target))
    <3> SUFFICES ASSUME LastVisit(w) > LastVisit(target) PROVE FALSE
      OBVIOUS
    <3>1. w \in Workspaces /\ i \in 1 .. Len(recent)
      BY <1>2
    <3>2. PICK j \in 1 .. i - 1 : recent[j] = w
      BY <2>1, <3>1, LaterIsBefore
    <3>3. j \in seen
      BY <1>3, <3>1, <3>2
    <3> QED BY <2>1, <3>1, <3>2, <3>3
  <2> QED BY <2>2, <2>3
<1>7. ASSUME seen = {}, NEW w \in S
      PROVE  CoordinatesOf[target] <= CoordinatesOf[w]
  <2>1. target = Lowest(S, CoordinatesOf)
    BY <1>4, <1>7
  <2>2. /\ Lowest(S, CoordinatesOf) \in S
        /\ \/ CoordinatesOf[Lowest(S, CoordinatesOf)] < CoordinatesOf[w]
           \/ CoordinatesOf[Lowest(S, CoordinatesOf)] = CoordinatesOf[w]
    BY <1>2, LowestIsLowest
  <2>3. /\ CoordinatesOf[Lowest(S, CoordinatesOf)] \in Nat
        /\ CoordinatesOf[w] \in Nat
    BY <1>2, <2>2
  <2> QED BY <2>1, <2>2, <2>3
<1> QED BY <1>4, <1>5, <1>6, <1>7 DEF target, S, M

-----------------------------------------------------------------------------
(* The list holds exactly the Cap workspaces visited last, latest first:
   record_mru_transition, fed with whole batches, loses no visit and keeps no
   duplicate. *)
THEOREM ListIsExact == Spec => []ListIsTheRecentVisits
<1> QED BY InductiveInvariant, ListedIsRecent, PTL

(* recent_workspaces and last_known_active agree on the workspace a group
   showed last. *)
THEOREM StructuresAgree == Spec => []FirstIsLastKnown
<1> QED BY InductiveInvariant, FirstIsKnown, PTL

(* select_jump_target picks the occupied workspace of the group that was
   visited last, and without one in the list the one with the lowest
   coordinates. *)
THEOREM JumpsAreBest == Spec => []JumpIsBest
<1> QED BY InductiveInvariant, JumpTargetIsBest, PTL
=============================================================================
