--------------------------- MODULE RangeSetProofs ---------------------------
(***************************************************************************)
(* Proofs about RangeSet: it stands for exactly the integers put in and    *)
(* not taken out. Each call is first shown to do so on one canonical set   *)
(* of ranges; RsInv then carries that through every sequence of calls. A   *)
(* set with a capacity forgets, but never above what it keeps.             *)
(***************************************************************************)
EXTENDS RangeSet, FiniteSetTheorems, WellFoundedInduction, TLAPS

-----------------------------------------------------------------------------
(* The ranges of one set.                                                  *)

\* A range of the instance is the pair of its ends.
LEMMA RangeParts ==
    ASSUME NEW r \in Ranges
    PROVE  r[1] \in Points /\ r[2] \in Points /\ r[1] \in Nat /\ r[2] \in Nat /\ r = <<r[1], r[2]>>
BY RangeSetConstants DEF Ranges

\* A pair of integers of the instance is a range.
LEMMA RangeOf ==
    ASSUME NEW a \in Points, NEW b \in Points
    PROVE  <<a, b>> \in Ranges /\ <<a, b>>[1] = a /\ <<a, b>>[2] = b
BY DEF Ranges

\* A set that is not empty has a range with the least start, which is what
\* BTreeMap::pop_first and the first item of a range query return.
LEMMA LeastStart ==
    ASSUME NEW S \in SUBSET Ranges, S # {}
    PROVE  \E f \in S : \A q \in S : f[1] <= q[1]
<1> DEFINE R == {ss \in Nat \X Nat : ss[1] < ss[2]}
           T == {r[1] : r \in S}
<1>1. IsWellFoundedOn(R, Nat)
  BY NatLessThanWellFounded DEF OpToRel
<1>2. T \subseteq Nat /\ T # {}
  BY RangeParts
<1>3. PICK x \in T : \A y \in T : ~(<<y, x>> \in R)
  BY <1>1, <1>2, WFMin, ZenonT(30)
<1>4. \A y \in T : x <= y
  <2> TAKE y \in T
  <2>1. <<y, x>> \in Nat \X Nat /\ <<y, x>>[1] = y /\ <<y, x>>[2] = x
    BY <1>2
  <2>2. ~(y < x)
    BY <1>3, <2>1
  <2>. QED  BY <2>2, <1>2
<1>. QED  BY <1>4

\* Two ranges of a canonical set are ordered, with a gap between them.
LEMMA Apart ==
    ASSUME NEW S \in SUBSET Ranges, Canonical(S), NEW p \in S, NEW q \in S
    PROVE  /\ p[1] \in Nat /\ p[2] \in Nat /\ q[1] \in Nat /\ q[2] \in Nat
           /\ p[1] < p[2] /\ q[1] < q[2]
           /\ p = q \/ p[2] < q[1] \/ q[2] < p[1]
BY RangeParts DEF Canonical

\* prev_to finds the range that reaches x, if there is one.
LEMMA PrevFinds ==
    ASSUME NEW S \in SUBSET Ranges, Canonical(S), NEW x \in Nat, NEW p \in S,
           p[1] <= x, x <= p[2]
    PROVE  PrevTo(S, x) = {p}
<1>1. ASSUME NEW q \in S, q[1] <= x
      PROVE  q[1] <= p[1] /\ (p[1] <= q[1] => q = p)
  BY <1>1, Apart
<1>. QED  BY <1>1, Apart DEF PrevTo

\* prev_to finds at most one range.
LEMMA PrevOne ==
    ASSUME NEW S \in SUBSET Ranges, Canonical(S), NEW x \in Nat,
           NEW p \in PrevTo(S, x)
    PROVE  p \in S /\ p[1] <= x /\ PrevTo(S, x) = {p}
<1>1. p \in S /\ p[1] <= x /\ \A q \in S : q[1] <= x => q[1] <= p[1]
  BY DEF PrevTo
<1>2. ASSUME NEW q \in PrevTo(S, x)
      PROVE  q = p
  <2>1. q \in S /\ p[1] <= q[1] /\ q[1] <= p[1]
    BY <1>1, <1>2 DEF PrevTo
  <2>. QED  BY <1>1, <2>1, Apart
<1>. QED  BY <1>1, <1>2
\* The integers of a set are those its ranges cover.
LEMMA ElemsAre ==
    ASSUME NEW S, NEW x \in Points
    PROVE  x \in Elems(S) <=> \E r \in S : r[1] <= x /\ x < r[2]
BY DEF Elems, Covers

-----------------------------------------------------------------------------
(* insert(): what merging leaves of the old ranges and what it puts in.    *)

InsertRest(S, r) == S \ (Joined(S, r) \cup Swallowed(S, r))

InsertNew(S, r) == <<JoinedStart(S, r), SwallowedEnd(S, r)>>

\* The start of the merged range: that of the range that reaches r, if any.
LEMMA InsertStart ==
    ASSUME NEW S \in SUBSET Ranges, Canonical(S), NEW r \in Ranges
    PROVE  /\ JoinedStart(S, r) \in Points /\ JoinedStart(S, r) <= r[1]
           /\ \/ JoinedStart(S, r) = r[1] /\ Joined(S, r) = {}
              \/ \E p \in S : Joined(S, r) = {p} /\ p[1] = JoinedStart(S, r) /\ r[1] <= p[2]
           /\ \A q \in S : q[1] <= r[1] /\ r[1] <= q[2] => Joined(S, r) = {q}
<1>0. r[1] \in Nat /\ r[1] \in Points
  BY RangeParts
<1>1. ASSUME NEW q \in S, q[1] <= r[1], r[1] <= q[2]
      PROVE  Joined(S, r) = {q}
  <2>1. PrevTo(S, r[1]) = {q}
    BY <1>0, <1>1, PrevFinds
  <2>. QED  BY <2>1, <1>1, <1>0, RangeParts DEF Joined
<1>2. CASE Joined(S, r) = {}
  BY <1>0, <1>1, <1>2 DEF JoinedStart
<1>3. CASE Joined(S, r) # {}
  <2>1. PICK p \in Joined(S, r) : TRUE
    BY <1>3
  <2>2. p \in PrevTo(S, r[1]) /\ p[2] >= r[1]
    BY <2>1 DEF Joined
  <2>3. p \in S /\ p[1] <= r[1]
    BY <1>0, <2>2, PrevOne
  <2>4. p[1] \in Points /\ p[1] \in Nat /\ p[2] \in Nat /\ r[1] <= p[2]
    BY <1>0, <2>2, <2>3, RangeParts
  <2>5. Joined(S, r) = {p}
    BY <1>1, <2>3, <2>4
  <2>6. JoinedStart(S, r) = p[1]
    BY <2>5 DEF JoinedStart
  <2>. QED  BY <1>1, <2>3, <2>4, <2>5, <2>6
<1>. QED  BY <1>2, <1>3

\* The end of the merged range: the largest of those it takes in.
LEMMA InsertEnd ==
    ASSUME NEW S \in SUBSET Ranges, Canonical(S), NEW r \in Ranges
    PROVE  /\ SwallowedEnd(S, r) \in Points /\ SwallowedEnd(S, r) >= r[2]
           /\ \/ SwallowedEnd(S, r) = r[2]
              \/ \E q \in Swallowed(S, r) : q[2] = SwallowedEnd(S, r)
           /\ \A q \in Swallowed(S, r) : q[2] <= SwallowedEnd(S, r)
<1>0. r[2] \in Nat /\ r[2] \in Points /\ r[1] \in Nat
  BY RangeParts
<1>1. \A q \in Swallowed(S, r) : q \in S /\ r[1] <= q[1] /\ q[1] <= r[2] /\ q[2] \in Nat /\ q[2] \in Points
  BY RangeParts DEF Swallowed
<1>2. CASE \E q \in Swallowed(S, r) : q[2] > r[2]
  <2> DEFINE m == CHOOSE q \in Swallowed(S, r) : q[2] > r[2]
  <2>1. m \in Swallowed(S, r) /\ m[2] > r[2] /\ SwallowedEnd(S, r) = m[2]
    BY <1>2 DEF SwallowedEnd
  <2> HIDE DEF m
  <2>2. ASSUME NEW q \in Swallowed(S, r)
        PROVE  q[2] <= m[2]
    BY <1>0, <1>1, <2>1, Apart
  <2>. QED  BY <1>0, <1>1, <2>1, <2>2
<1>3. CASE ~\E q \in Swallowed(S, r) : q[2] > r[2]
  BY <1>0, <1>1, <1>3 DEF SwallowedEnd
<1>. QED  BY <1>2, <1>3

\* What insert() leaves alone lies apart from the merged range.
LEMMA InsertApart ==
    ASSUME NEW S \in SUBSET Ranges, Canonical(S), NEW r \in Ranges, r[1] < r[2],
           NEW q \in InsertRest(S, r)
    PROVE  q \in S /\ (q[2] < JoinedStart(S, r) \/ SwallowedEnd(S, r) < q[1])
<1>0. q \in S /\ q \notin Joined(S, r) /\ q \notin Swallowed(S, r)
  BY DEF InsertRest
<1>1. q[1] \in Nat /\ q[2] \in Nat /\ r[1] \in Nat /\ r[2] \in Nat
  BY <1>0, RangeParts
<1>2. q[1] < r[1] \/ q[1] > r[2]
  BY <1>0, <1>1 DEF Swallowed
<1>3. CASE q[1] < r[1]
  <2>1. q[2] < r[1]
    BY <1>0, <1>1, <1>3, InsertStart
  <2>2. CASE JoinedStart(S, r) = r[1]
    BY <1>0, <2>1, <2>2
  <2>3. CASE JoinedStart(S, r) # r[1]
    <3>1. PICK p \in S : Joined(S, r) = {p} /\ p[1] = JoinedStart(S, r) /\ r[1] <= p[2]
      BY <2>3, InsertStart
    <3>2. p # q
      BY <1>0, <3>1
    <3>. QED  BY <1>0, <1>1, <1>3, <3>1, <3>2, Apart
  <2>. QED  BY <2>2, <2>3
<1>4. CASE q[1] > r[2]
  <2>1. CASE SwallowedEnd(S, r) = r[2]
    BY <1>0, <1>4, <2>1
  <2>2. CASE SwallowedEnd(S, r) # r[2]
    <3>1. PICK m \in Swallowed(S, r) : m[2] = SwallowedEnd(S, r)
      BY <2>2, InsertEnd
    <3>2. m \in S /\ m[1] <= r[2] /\ m # q
      BY <1>0, <3>1 DEF Swallowed
    <3>. QED  BY <1>0, <1>1, <1>4, <3>1, <3>2, Apart
  <2>. QED  BY <2>1, <2>2
<1>. QED  BY <1>2, <1>3, <1>4

\* The merged range covers what it took in, and r, and nothing else.
LEMMA InsertCovers ==
    ASSUME NEW S \in SUBSET Ranges, Canonical(S), NEW r \in Ranges, r[1] < r[2],
           \A p \in PrevTo(S, r[1]) : p[2] < r[2], NEW x \in Points
    PROVE  (JoinedStart(S, r) <= x /\ x < SwallowedEnd(S, r))
           <=> \/ r[1] <= x /\ x < r[2]
               \/ \E q \in Joined(S, r) \cup Swallowed(S, r) : q[1] <= x /\ x < q[2]
<1>0. x \in Nat /\ r[1] \in Nat /\ r[2] \in Nat /\ JoinedStart(S, r) \in Nat /\ SwallowedEnd(S, r) \in Nat
  BY RangeParts, InsertStart, InsertEnd, RangeSetConstants
<1>1. ASSUME NEW q \in Joined(S, r), q[1] <= x, x < q[2]
      PROVE  JoinedStart(S, r) <= x /\ x < SwallowedEnd(S, r)
  <2>1. q[1] = JoinedStart(S, r)
    BY <1>1, InsertStart
  <2>2. q \in PrevTo(S, r[1]) /\ q \in S
    BY <1>1 DEF Joined, PrevTo
  <2>3. q[2] < r[2] /\ q[2] \in Nat
    BY <2>2, RangeParts
  <2>. QED  BY <1>0, <1>1, <2>1, <2>3, InsertEnd
<1>2. ASSUME NEW q \in Swallowed(S, r), q[1] <= x, x < q[2]
      PROVE  JoinedStart(S, r) <= x /\ x < SwallowedEnd(S, r)
  <2>1. q \in S /\ r[1] <= q[1] /\ q[2] <= SwallowedEnd(S, r)
    BY <1>2, InsertEnd DEF Swallowed
  <2>. QED  BY <1>0, <1>2, <2>1, RangeParts, InsertStart
<1>3. ASSUME JoinedStart(S, r) <= x, x < r[1]
      PROVE  \E q \in Joined(S, r) : q[1] <= x /\ x < q[2]
  <2>1. PICK p \in S : Joined(S, r) = {p} /\ p[1] = JoinedStart(S, r) /\ r[1] <= p[2]
    BY <1>0, <1>3, InsertStart
  <2>. QED  BY <1>0, <1>3, <2>1, RangeParts
<1>4. ASSUME r[2] <= x, x < SwallowedEnd(S, r)
      PROVE  \E q \in Swallowed(S, r) : q[1] <= x /\ x < q[2]
  <2>1. PICK m \in Swallowed(S, r) : m[2] = SwallowedEnd(S, r)
    BY <1>0, <1>4, InsertEnd
  <2>2. m \in S /\ m[1] <= r[2]
    BY <2>1 DEF Swallowed
  <2>. QED  BY <1>0, <1>4, <2>1, <2>2, RangeParts
<1>5. r[1] <= x /\ x < r[2] => JoinedStart(S, r) <= x /\ x < SwallowedEnd(S, r)
  BY <1>0, InsertStart, InsertEnd
<1>. QED  BY <1>0, <1>1, <1>2, <1>3, <1>4, <1>5
\* insert() of a range that is neither empty nor covered.
LEMMA InsertIs ==
    ASSUME NEW S \in SUBSET Ranges, Canonical(S), NEW r \in Ranges, NEW cap
    PROVE  \/ /\ RangeInsert(S, r, cap) = S
              /\ r[2] <= r[1] \/ \E p \in S : p[1] <= r[1] /\ r[2] <= p[2]
           \/ /\ r[1] < r[2] /\ \A p \in PrevTo(S, r[1]) : p[2] < r[2]
              /\ RangeInsert(S, r, cap) = MakeRoom(InsertRest(S, r), cap) \cup {InsertNew(S, r)}
<1>0. r[1] \in Nat /\ r[2] \in Nat
  BY RangeParts
<1>1. \A p \in PrevTo(S, r[1]) : p \in S /\ p[1] <= r[1] /\ p[2] \in Nat
  BY RangeParts DEF PrevTo
<1>2. CASE IsEmptyRange(r) \/ \E p \in PrevTo(S, r[1]) : p[2] >= r[2]
  BY <1>0, <1>1, <1>2 DEF RangeInsert, IsEmptyRange
<1>3. CASE ~(IsEmptyRange(r) \/ \E p \in PrevTo(S, r[1]) : p[2] >= r[2])
  BY <1>0, <1>1, <1>3 DEF RangeInsert, IsEmptyRange, InsertRest, InsertNew
<1>. QED  BY <1>2, <1>3

\* The merged range is a range of the instance and no other range touches it.
LEMMA InsertFits ==
    ASSUME NEW S \in SUBSET Ranges, Canonical(S), NEW r \in Ranges, r[1] < r[2],
           NEW T \in SUBSET InsertRest(S, r)
    PROVE  /\ InsertNew(S, r) \in Ranges
           /\ InsertNew(S, r)[1] = JoinedStart(S, r) /\ InsertNew(S, r)[2] = SwallowedEnd(S, r)
           /\ T \cup {InsertNew(S, r)} \in SUBSET Ranges /\ Canonical(T \cup {InsertNew(S, r)})
<1> DEFINE n == InsertNew(S, r)
<1>1. n \in Ranges /\ n[1] = JoinedStart(S, r) /\ n[2] = SwallowedEnd(S, r)
  BY InsertStart, InsertEnd, RangeOf DEF InsertNew
<1>2. n[1] < n[2]
  BY <1>1, InsertStart, InsertEnd, RangeParts
<1>3. T \subseteq S
  BY DEF InsertRest
<1>4. \A q \in T : q[2] < n[1] \/ n[2] < q[1]
  BY <1>1, InsertApart
<1> HIDE DEF n
<1>5. T \cup {n} \in SUBSET Ranges /\ Canonical(T \cup {n})
  BY <1>1, <1>2, <1>3, <1>4 DEF Canonical
<1>. QED  BY <1>1, <1>5 DEF n

\* insert(): the ranges stay canonical, nothing comes in but what is inserted,
\* and without a capacity nothing goes.
LEMMA InsertSound ==
    ASSUME NEW S \in SUBSET Ranges, Canonical(S), NEW r \in Ranges, NEW cap
    PROVE  /\ RangeInsert(S, r, cap) \in SUBSET Ranges /\ Canonical(RangeInsert(S, r, cap))
           /\ Elems(RangeInsert(S, r, cap)) \subseteq Elems(S) \cup Within(r)
           /\ cap = Absent => Elems(RangeInsert(S, r, cap)) = Elems(S) \cup Within(r)
<1> DEFINE R == RangeInsert(S, r, cap)
           n == InsertNew(S, r)
<1>0. r[1] \in Nat /\ r[2] \in Nat /\ Points \subseteq Nat
  BY RangeParts, RangeSetConstants
<1>1. CASE /\ R = S
           /\ r[2] <= r[1] \/ \E p \in S : p[1] <= r[1] /\ r[2] <= p[2]
  <2>1. ASSUME NEW x \in Points, r[1] <= x, x < r[2]
        PROVE  x \in Elems(S)
    <3>1. PICK p \in S : p[1] <= r[1] /\ r[2] <= p[2]
      BY <1>0, <1>1, <2>1
    <3>2. p[1] <= x /\ x < p[2]
      BY <1>0, <2>1, <3>1, RangeParts
    <3>. QED  BY <3>2, ElemsAre
  <2>2. Within(r) \subseteq Elems(S)
    BY <2>1 DEF Within, Covers
  <2>. QED  BY <1>1, <2>2
<1>2. CASE /\ r[1] < r[2] /\ \A p \in PrevTo(S, r[1]) : p[2] < r[2]
           /\ R = MakeRoom(InsertRest(S, r), cap) \cup {n}
  <2> DEFINE T == MakeRoom(InsertRest(S, r), cap)
  <2>1. T \subseteq InsertRest(S, r) /\ (cap = Absent => T = InsertRest(S, r))
    BY DEF MakeRoom, Full, Present
  <2> HIDE DEF T
  <2>2. R \in SUBSET Ranges /\ Canonical(R)
    BY <1>2, <2>1, InsertFits DEF T
  <2>3. ASSUME NEW x \in Points
        PROVE  /\ x \in Elems(R) => x \in Elems(S) \/ x \in Within(r)
               /\ cap = Absent => (x \in Elems(S) \/ x \in Within(r) => x \in Elems(R))
    <3>1. n[1] <= x /\ x < n[2] <=> \/ r[1] <= x /\ x < r[2]
                                    \/ \E q \in Joined(S, r) \cup Swallowed(S, r) : q[1] <= x /\ x < q[2]
      BY <1>2, InsertFits, InsertCovers, ZenonT(30)
    <3>2. R = T \cup {n}
      BY <1>2 DEF T
    <3>3. Joined(S, r) \cup Swallowed(S, r) \subseteq S
      BY DEF Joined, Swallowed, PrevTo
    <3>4. x \in Within(r) <=> r[1] <= x /\ x < r[2]
      BY DEF Within, Covers
    <3>5. InsertRest(S, r) \cup Joined(S, r) \cup Swallowed(S, r) = S
      BY <3>3 DEF InsertRest
    <3> HIDE DEF n, R
    <3>6. x \in Elems(R) <=> (n[1] <= x /\ x < n[2]) \/ \E q \in T : q[1] <= x /\ x < q[2]
      BY <3>2, ElemsAre
    <3>7. x \in Elems(S) <=> \/ \E q \in InsertRest(S, r) : q[1] <= x /\ x < q[2]
                             \/ \E q \in Joined(S, r) \cup Swallowed(S, r) : q[1] <= x /\ x < q[2]
      BY <3>5, ElemsAre
    <3>. QED  BY <2>1, <3>1, <3>4, <3>6, <3>7
  <2>4. Elems(R) \subseteq Points /\ Elems(S) \subseteq Points /\ Within(r) \subseteq Points
    BY DEF Elems, Within
  <2> HIDE DEF R
  <2>5. Elems(R) \subseteq Elems(S) \cup Within(r)
    BY <2>3, <2>4
  <2>6. cap = Absent => Elems(R) = Elems(S) \cup Within(r)
    BY <2>3, <2>4
  <2>. QED  BY <2>2, <2>5, <2>6 DEF R
<1>. QED  BY <1>1, <1>2, InsertIs

\* The ranges have a last one (RangeSet::max).
HasTop(S) == S # {} => \E m \in S : \A q \in S : q[1] <= m[1]

\* pop_first() of a full set makes room and, as there are two ranges at least,
\* takes nothing from the top.
LEMMA RoomSound ==
    ASSUME NEW T \in SUBSET Ranges, Canonical(T), NEW cap \in Nat \ {0, 1},
           IsFiniteSet(T), Cardinality(T) <= cap
    PROVE  /\ MakeRoom(T, cap) \subseteq T /\ IsFiniteSet(MakeRoom(T, cap))
           /\ Cardinality(MakeRoom(T, cap)) <= cap - 1
           /\ \A m \in T : \E q \in MakeRoom(T, cap) : m[2] <= q[2]
           /\ \A m \in T : m \in MakeRoom(T, cap) \/ \A q \in T : m[1] <= q[1]
<1>0. Cardinality(T) \in Nat
  BY FS_CardinalityType
<1>1. CASE ~Full(T, cap)
  <2>1. Cardinality(T) < cap
    BY <1>0, <1>1 DEF Full, Present, Absent
  <2>. QED  BY <1>0, <1>1, <2>1, RangeParts DEF MakeRoom
<1>2. CASE Full(T, cap)
  <2>1. Cardinality(T) = cap
    BY <1>0, <1>2 DEF Full
  <2>2. T # {}
    BY <2>1, FS_EmptySet
  <2>3. PICK f \in T : \A q \in T : f[1] <= q[1]
    BY <2>2, LeastStart
  <2>4. FirstOf(T) = {f}
    <3>1. f \in FirstOf(T)
      BY <2>3, RangeParts DEF FirstOf
    <3>2. ASSUME NEW g \in FirstOf(T)
          PROVE  g = f
      <4>1. g \in T /\ f[1] >= g[1] /\ g[1] >= f[1]
        BY <2>3, <3>2, RangeParts DEF FirstOf
      <4>. QED  BY <4>1, Apart
    <3>. QED  BY <3>1, <3>2
  <2>5. MakeRoom(T, cap) = T \ {f}
    BY <1>2, <2>4 DEF MakeRoom
  <2>6. IsFiniteSet(T \ {f}) /\ Cardinality(T \ {f}) = cap - 1
    BY <2>1, <2>3, FS_RemoveElement, ZenonT(30)
  <2>7. PICK q \in T \ {f} : TRUE
    BY <2>6, FS_EmptySet
  <2>8. f[2] <= q[2]
    BY <2>3, <2>7, Apart
  <2>9. \A m \in T : \E p \in T \ {f} : m[2] <= p[2]
    <3> TAKE m \in T
    <3>1. CASE m = f
      BY <2>7, <2>8, <3>1
    <3>2. CASE m # f
      BY <3>2, RangeParts
    <3>. QED  BY <3>1, <3>2
  <2>. QED  BY <2>3, <2>5, <2>6, <2>9
<1>. QED  BY <1>1, <1>2
\* insert() into a bounded set: it stays within its capacity, keeps a last
\* range, and nothing above what it keeps was there or came in.
LEMMA InsertBounded ==
    ASSUME NEW S \in SUBSET Ranges, Canonical(S), NEW r \in Ranges, NEW cap \in Nat \ {0, 1},
           IsFiniteSet(S), Cardinality(S) <= cap, HasTop(S)
    PROVE  /\ IsFiniteSet(RangeInsert(S, r, cap)) /\ Cardinality(RangeInsert(S, r, cap)) <= cap
           /\ HasTop(RangeInsert(S, r, cap))
           /\ \A m \in S : \E q \in RangeInsert(S, r, cap) : m[2] <= q[2]
           /\ r[1] < r[2] => \E q \in RangeInsert(S, r, cap) : r[2] <= q[2]
<1> DEFINE R == RangeInsert(S, r, cap)
           U == InsertRest(S, r)
           T == MakeRoom(U, cap)
           n == InsertNew(S, r)
<1>0. r[1] \in Nat /\ r[2] \in Nat
  BY RangeParts
<1>1. CASE /\ R = S
           /\ r[2] <= r[1] \/ \E p \in S : p[1] <= r[1] /\ r[2] <= p[2]
  <2>1. \A m \in S : m[2] <= m[2]
    BY RangeParts
  <2>. QED  BY <1>0, <1>1, <2>1
<1>2. CASE /\ r[1] < r[2] /\ \A p \in PrevTo(S, r[1]) : p[2] < r[2]
           /\ R = T \cup {n}
  <2>1. U \in SUBSET S /\ Canonical(U)
    BY DEF InsertRest, Canonical
  <2>2. IsFiniteSet(U) /\ Cardinality(U) <= Cardinality(S) /\ Cardinality(U) \in Nat /\ Cardinality(S) \in Nat
    BY <2>1, FS_Subset, FS_CardinalityType
  <2>3. /\ T \subseteq U /\ IsFiniteSet(T) /\ Cardinality(T) <= cap - 1
        /\ \A m \in U : \E q \in T : m[2] <= q[2]
        /\ \A m \in U : m \in T \/ \A q \in U : m[1] <= q[1]
    BY <2>1, <2>2, RoomSound
  <2>4. IsFiniteSet(R) /\ Cardinality(R) <= cap
    <3> HIDE DEF T, n
    <3>0. Cardinality(T) \in Nat
      BY <2>3, FS_CardinalityType
    <3>1. IsFiniteSet(T \cup {n}) /\ Cardinality(T \cup {n}) <= Cardinality(T) + 1
      <4>1. /\ IsFiniteSet(T \cup {n})
            /\ Cardinality(T \cup {n}) = IF n \in T THEN Cardinality(T) ELSE Cardinality(T) + 1
        BY <2>3, FS_AddElement, Zenon
      <4>. QED  BY <3>0, <4>1
    <3>2. Cardinality(T \cup {n}) \in Nat
      BY <3>1, FS_CardinalityType
    <3>. QED  BY <1>2, <2>3, <3>0, <3>1, <3>2
  <2>5. /\ n \in Ranges /\ n[1] = JoinedStart(S, r) /\ n[2] = SwallowedEnd(S, r)
        /\ n[1] \in Nat /\ n[2] \in Nat /\ n[1] <= r[1] /\ r[2] <= n[2]
    <3>1. n \in Ranges /\ n[1] = JoinedStart(S, r) /\ n[2] = SwallowedEnd(S, r)
      BY <1>2, InsertFits, ZenonT(30)
    <3>2. JoinedStart(S, r) <= r[1] /\ SwallowedEnd(S, r) >= r[2]
      BY InsertStart, InsertEnd
    <3> HIDE DEF n
    <3>3. n[1] \in Nat /\ n[2] \in Nat
      BY <3>1, RangeParts
    <3>. QED  BY <1>0, <3>1, <3>2, <3>3
  <2>6. ASSUME NEW m \in S, m \notin U
        PROVE  m[2] <= n[2] /\ (n[1] <= m[1] /\ m[1] <= r[2])
    <3>1. CASE m \in Joined(S, r)
      <4>1. m \in PrevTo(S, r[1]) /\ m[1] <= r[1] /\ m[2] < r[2] /\ m[1] = n[1]
        BY <1>2, <2>5, <3>1, InsertStart DEF Joined, PrevTo
      <4>. QED  BY <1>0, <1>2, <2>5, <4>1, RangeParts
    <3>2. CASE m \in Swallowed(S, r)
      BY <1>0, <2>5, <3>2, RangeParts, InsertEnd DEF Swallowed
    <3>. QED  BY <2>6, <3>1, <3>2 DEF InsertRest
  <2>7. \A q \in U : q[2] < n[1] \/ n[2] < q[1]
    BY <1>2, <2>5, InsertApart
  <2> HIDE DEF R, U, T, n
  <2>8. \A m \in S : \E q \in R : m[2] <= q[2]
    <3> TAKE m \in S
    <3>1. CASE m \in U
      BY <1>2, <2>3, <3>1
    <3>2. CASE m \notin U
      BY <1>2, <2>6, <3>2
    <3>. QED  BY <3>1, <3>2
  <2>9. HasTop(R)
    <3>1. CASE T = {}
      BY <1>2, <2>5, <3>1 DEF HasTop
    <3>2. CASE T # {}
      <4>1. PICK m \in S : \A q \in S : q[1] <= m[1]
        BY <2>1, <2>3, <3>2 DEF HasTop
      <4>2. CASE m \in T
        <5>1. CASE n[1] <= m[1]
          BY <1>2, <2>1, <2>3, <4>1, <4>2, <5>1 DEF HasTop
        <5>2. CASE ~(n[1] <= m[1])
          <6>1. \A q \in T : q[1] <= n[1]
            BY <2>1, <2>3, <2>5, <4>1, <5>2, RangeParts
          <6>. QED  BY <1>2, <2>5, <6>1 DEF HasTop
        <5>. QED  BY <5>1, <5>2
      <4>3. CASE m \in U /\ m \notin T
        <5>1. \A q \in U : m[1] <= q[1] /\ q[1] <= m[1]
          BY <2>1, <2>3, <4>1, <4>3
        <5>2. \A q \in U : q = m
          BY <2>1, <4>3, <5>1, Apart
        <5>. QED  BY <2>3, <3>2, <4>3, <5>2
      <4>4. CASE m \notin U
        <5>1. ASSUME NEW q \in T
              PROVE  q[1] <= n[1]
          <6>1. q \in U /\ q \in S /\ q[1] <= m[1] /\ m[1] <= r[2]
            BY <2>1, <2>3, <2>6, <4>1, <4>4
          <6>2. q[2] < n[1] \/ n[2] < q[1]
            BY <2>7, <6>1
          <6>3. q[1] \in Nat /\ q[2] \in Nat /\ q[1] < q[2] /\ m[1] \in Nat
            BY <6>1, Apart
          <6>. QED  BY <1>0, <2>5, <6>1, <6>2, <6>3
        <5>. QED  BY <1>2, <2>5, <5>1 DEF HasTop
      <4>. QED  BY <4>2, <4>3, <4>4
    <3>. QED  BY <3>1, <3>2
  <2>. QED  BY <1>2, <2>4, <2>5, <2>8, <2>9 DEF R
<1>. QED  BY <1>1, <1>2, InsertIs

-----------------------------------------------------------------------------
(* remove(): the ranges that are left, cut where r begins and ends.        *)

Minus(S, r) ==
    {q \in S : q[2] <= r[1] \/ q[1] >= r[2]}
    \cup {<<q[1], r[1]>> : q \in {p \in S : p[1] < r[1] /\ r[1] < p[2]}}
    \cup {<<r[2], q[2]>> : q \in {p \in S : p[1] < r[2] /\ r[2] < p[2]}}

\* The part of S that prev_to and the early return of remove() see.
LEMMA RemoveIs ==
    ASSUME NEW S \in SUBSET Ranges, Canonical(S), NEW r \in Ranges, r[1] < r[2]
    PROVE  RangeRemove(S, r) = Minus(S, r)
<1> DEFINE P == {q \in PrevTo(S, r[1]) : q[2] > r[1]}
           L == {<<q[1], r[1]>> : q \in {q \in P : q[1] < r[1]}}
           H == {<<r[2], q[2]>> : q \in {q \in P : q[2] > r[2]}}
           T == CutPrev(S, r)
<1>0. r[1] \in Nat /\ r[2] \in Nat /\ T = (S \ P) \cup L \cup H
  BY RangeParts DEF CutPrev
<1>1. \A q \in S : q[1] \in Nat /\ q[2] \in Nat /\ q[1] < q[2] /\ q = <<q[1], q[2]>>
  BY RangeParts, Apart
<1>2. \A q \in S : q[1] <= r[1] /\ r[1] < q[2] => P = {q}
  <2> TAKE q \in S
  <2> HAVE q[1] <= r[1] /\ r[1] < q[2]
  <2>1. PrevTo(S, r[1]) = {q}
    BY <1>0, <1>1, PrevFinds
  <2>. QED  BY <2>1, <1>0, <1>1
<1>3. \A q \in P : q \in S /\ q[1] <= r[1] /\ r[1] < q[2]
  BY <1>0, <1>1 DEF PrevTo
<1> DEFINE C == \E p \in PrevTo(S, r[1]) : p[2] > r[1] /\ p[2] >= r[2]
           D(V) == (V \ Swallowed(V, r)) \cup {<<r[2], q[2]>> : q \in {q \in Swallowed(V, r) : q[2] > r[2]}}
<1>i. ~IsEmptyRange(r)
  BY <1>0 DEF IsEmptyRange
<1>c. S # {} => RangeRemove(S, r) = IF C THEN T ELSE D(T)
  BY <1>i, Zenon DEF RangeRemove
<1>4. CASE S = {}
  BY <1>4 DEF RangeRemove, Minus
<1>5. CASE S # {} /\ P = {}
  <2>1. T = S
    BY <1>0, <1>5
  <2>2. RangeRemove(S, r) = D(S)
    <3>1. ~C
      BY <1>5
    <3>. QED  BY <1>c, <1>5, <2>1, <3>1, Zenon
  <2>3. \A q \in S : q[2] <= r[1] \/ r[1] < q[1]
    BY <1>0, <1>1, <1>2, <1>5
  <2>. QED  BY <1>0, <1>1, <2>2, <2>3 DEF Minus, Swallowed
<1>6. CASE S # {} /\ P # {}
  <2>1. PICK p \in S : P = {p} /\ p[1] <= r[1] /\ r[1] < p[2]
    BY <1>2, <1>3, <1>6
  <2>2. \A q \in S : q # p => q[2] < p[1] \/ p[2] < q[1]
    BY <2>1, Apart
  <2>3. CASE p[2] >= r[2]
    <3>1. RangeRemove(S, r) = T
      BY <1>c, <1>0, <1>1, <1>6, <2>1, <2>3
    <3>. QED  BY <1>0, <1>1, <2>1, <2>2, <2>3, <3>1 DEF Minus
  <2>4. CASE p[2] < r[2]
    <3>1. \A q \in PrevTo(S, r[1]) : q = p
      BY <1>0, <2>1, PrevOne
    <3>2. RangeRemove(S, r) = D(T)
      <4>1. ~C
        BY <1>0, <1>1, <2>1, <2>4, <3>1
      <4>. QED  BY <1>c, <1>6, <4>1, Zenon
    <3>3. H = {} /\ T = (S \ {p}) \cup L
      BY <1>0, <1>1, <2>1, <2>4
    <3>4. Swallowed(T, r) = {q \in S \ {p} : r[1] <= q[1] /\ q[1] <= r[2]}
      BY <1>0, <1>1, <2>1, <3>3 DEF Swallowed
    <3> DEFINE W == {q \in S \ {p} : r[1] <= q[1] /\ q[1] <= r[2]}
    <3>5. RangeRemove(S, r) = (((S \ {p}) \cup L) \ W) \cup {<<r[2], q[2]>> : q \in {q \in W : q[2] > r[2]}}
      BY <3>2, <3>3, <3>4, Zenon
    <3>6. L = {<<q[1], r[1]>> : q \in {q \in S : q[1] < r[1] /\ r[1] < q[2]}}
      BY <1>0, <1>1, <2>1, <2>2
    <3>7. (S \ {p}) \ W = {q \in S : q[2] <= r[1] \/ q[1] > r[2]}
      BY <1>0, <1>1, <2>1, <2>2, <2>4
    <3>8. L \cap W = {}
      BY <1>0, <1>1, <2>1
    <3>9. {q \in W : q[2] > r[2]} = {q \in S : q[1] <= r[2] /\ r[2] < q[2]}
      BY <1>0, <1>1, <2>1, <2>2, <2>4
    <3>. QED  BY <1>0, <1>1, <3>5, <3>6, <3>7, <3>8, <3>9 DEF Minus
  <2>. QED  BY <1>0, <1>1, <2>1, <2>3, <2>4
<1>. QED  BY <1>4, <1>5, <1>6
\* remove(): the ranges stay canonical, and exactly the integers of r go.
LEMMA RemoveSound ==
    ASSUME NEW S \in SUBSET Ranges, Canonical(S), NEW r \in Ranges
    PROVE  /\ RangeRemove(S, r) \in SUBSET Ranges /\ Canonical(RangeRemove(S, r))
           /\ Elems(RangeRemove(S, r)) = Elems(S) \ Within(r)
<1>0. r[1] \in Nat /\ r[2] \in Nat /\ r[1] \in Points /\ r[2] \in Points /\ Points \subseteq Nat
  BY RangeParts, RangeSetConstants
<1>1. \A q \in S : /\ q[1] \in Nat /\ q[2] \in Nat /\ q[1] < q[2]
                   /\ q[1] \in Points /\ q[2] \in Points
  BY RangeParts, Apart
<1>2. CASE r[2] <= r[1]
  <2>1. RangeRemove(S, r) = S
    BY <1>2 DEF RangeRemove, IsEmptyRange
  <2>2. Within(r) = {}
    <3>1. \A x \in Points : ~(r[1] <= x /\ x < r[2])
      BY <1>0, <1>2
    <3>. QED  BY <3>1, Zenon DEF Within, Covers
  <2>. QED  BY <2>1, <2>2
<1>3. CASE r[1] < r[2]
  <2> DEFINE M == Minus(S, r)
             Piece(u) == /\ u[1] \in Points /\ u[2] \in Points /\ u \in Ranges /\ u[1] < u[2]
                         /\ u[2] <= r[1] \/ r[2] <= u[1]
                         /\ \E q \in S : /\ q[1] <= u[1] /\ u[2] <= q[2]
                                         /\ u[1] = q[1] \/ u[1] = r[2]
                                         /\ u[2] = q[2] \/ u[2] = r[1]
                                         /\ u = <<u[1], u[2]>>
  <2>1. ASSUME NEW u \in M
        PROVE  Piece(u)
    <3>1. CASE u \in S /\ (u[2] <= r[1] \/ u[1] >= r[2])
      BY <1>0, <1>1, <3>1, RangeParts
    <3>2. ASSUME NEW q \in S, q[1] < r[1], r[1] < q[2], u = <<q[1], r[1]>>
          PROVE  Piece(u)
      BY <1>0, <1>1, <3>2, RangeOf
    <3>3. ASSUME NEW q \in S, q[1] < r[2], r[2] < q[2], u = <<r[2], q[2]>>
          PROVE  Piece(u)
      BY <1>0, <1>1, <3>3, RangeOf
    <3>. QED  BY <2>1, <3>1, <3>2, <3>3 DEF Minus
  <2>2. ASSUME NEW u \in M, NEW v \in M, u # v
        PROVE  u[2] < v[1] \/ v[2] < u[1]
    <3>1. PICK p \in S : /\ p[1] <= u[1] /\ u[2] <= p[2]
                         /\ u[1] = p[1] \/ u[1] = r[2]
                         /\ u[2] = p[2] \/ u[2] = r[1]
                         /\ u = <<u[1], u[2]>>
      BY <2>1
    <3>2. PICK q \in S : /\ q[1] <= v[1] /\ v[2] <= q[2]
                         /\ v[1] = q[1] \/ v[1] = r[2]
                         /\ v[2] = q[2] \/ v[2] = r[1]
                         /\ v = <<v[1], v[2]>>
      BY <2>1
    <3>3. /\ u[1] \in Nat /\ u[2] \in Nat /\ v[1] \in Nat /\ v[2] \in Nat
          /\ u[1] < u[2] /\ v[1] < v[2]
          /\ u[2] <= r[1] \/ r[2] <= u[1]
          /\ v[2] <= r[1] \/ r[2] <= v[1]
      BY <1>0, <2>1
    <3>4. CASE p = q
      <4>1. u[1] # v[1] \/ u[2] # v[2]
        BY <2>2, <3>1, <3>2
      <4>. QED  BY <1>0, <1>1, <1>3, <3>1, <3>2, <3>3, <3>4, <4>1
    <3>5. CASE p # q
      <4>1. p[2] < q[1] \/ q[2] < p[1]
        BY <3>5, Apart
      <4>. QED  BY <1>1, <3>1, <3>2, <3>3, <4>1
    <3>. QED  BY <3>4, <3>5
  <2>3. ASSUME NEW x \in Points
        PROVE  x \in Elems(M) <=> x \in Elems(S) /\ ~(r[1] <= x /\ x < r[2])
    <3>1. ASSUME NEW u \in M, u[1] <= x, x < u[2]
          PROVE  x \in Elems(S) /\ ~(r[1] <= x /\ x < r[2])
      <4>1. PICK q \in S : q[1] <= u[1] /\ u[2] <= q[2]
        BY <2>1
      <4>2. u[1] \in Nat /\ u[2] \in Nat /\ (u[2] <= r[1] \/ r[2] <= u[1]) /\ x \in Nat
        BY <1>0, <2>1
      <4>3. q[1] <= x /\ x < q[2]
        BY <1>1, <3>1, <4>1, <4>2
      <4>. QED  BY <1>0, <3>1, <4>2, <4>3, ElemsAre
    <3>2. ASSUME NEW q \in S, q[1] <= x, x < q[2], ~(r[1] <= x /\ x < r[2])
          PROVE  \E u \in M : u[1] <= x /\ x < u[2]
      <4>0. x \in Nat
        BY <1>0
      <4>1. CASE q[2] <= r[1] \/ q[1] >= r[2]
        BY <3>2, <4>1 DEF Minus
      <4>2. CASE ~(q[2] <= r[1] \/ q[1] >= r[2]) /\ x < r[1]
        <5>1. q[1] < r[1] /\ r[1] < q[2]
          BY <1>0, <1>1, <3>2, <4>0, <4>2
        <5>2. <<q[1], r[1]>> \in M
          BY <5>1 DEF Minus
        <5>. QED  BY <3>2, <4>2, <5>2
      <4>3. CASE ~(q[2] <= r[1] \/ q[1] >= r[2]) /\ r[2] <= x
        <5>1. q[1] < r[2] /\ r[2] < q[2]
          BY <1>0, <1>1, <3>2, <4>0, <4>3
        <5>2. <<r[2], q[2]>> \in M
          BY <5>1 DEF Minus
        <5>. QED  BY <3>2, <4>3, <5>2
      <4>. QED  BY <1>0, <3>2, <4>0, <4>1, <4>2, <4>3
    <3>. QED  BY <3>1, <3>2, ElemsAre
  <2>4. RangeRemove(S, r) = M
    BY <1>3, RemoveIs
  <2> HIDE DEF M
  <2>5. M \in SUBSET Ranges /\ Canonical(M)
    BY <2>1, <2>2 DEF Canonical
  <2>6. Elems(M) \subseteq Points /\ Elems(S) \subseteq Points
    BY DEF Elems
  <2>7. \A x \in Points : x \in Within(r) <=> r[1] <= x /\ x < r[2]
    BY DEF Within, Covers
  <2>8. Elems(M) = Elems(S) \ Within(r)
    BY <2>3, <2>6, <2>7
  <2>. QED  BY <2>4, <2>5, <2>8
<1>. QED  BY <1>0, <1>2, <1>3

-----------------------------------------------------------------------------
(* remove_until(), pop_min() and the queries.                              *)

Beyond(S, x) == {r \in S : r[1] > x}

\* What remove_until() leaves: the ranges beyond x, and the rest of the one
\* that reaches beyond it.
LEMMA UntilIs ==
    ASSUME NEW S \in SUBSET Ranges, Canonical(S), NEW x \in Points, NEW cap
    PROVE  /\ Beyond(S, x) \in SUBSET S /\ Canonical(Beyond(S, x))
           /\ \/ /\ RemoveUntil(S, x, cap) = Beyond(S, x)
                 /\ \A r \in S : r[1] <= x => r[2] <= x + 1
              \/ \E m \in S :
                    /\ m[1] <= x /\ m[2] > x + 1 /\ <<x + 1, m[2]>> \in Ranges
                    /\ RemoveUntil(S, x, cap) = RangeInsert(Beyond(S, x), <<x + 1, m[2]>>, cap)
                    /\ \A r \in S : r[1] <= x /\ r # m => r[2] <= x + 1
<1> DEFINE low == {r \in S : r[1] <= x}
           cut == {r \in low : r[2] > x + 1}
<1>0. x \in Nat /\ Points \subseteq Nat
  BY RangeSetConstants
<1>1. \A q \in S : q[1] \in Nat /\ q[2] \in Nat /\ q[2] \in Points
  BY RangeParts
<1>2. S \ low = Beyond(S, x)
  BY <1>0, <1>1 DEF Beyond
<1>3. Beyond(S, x) \in SUBSET S /\ Canonical(Beyond(S, x))
  BY DEF Canonical, Beyond
<1>4. CASE cut = {}
  <2>1. RemoveUntil(S, x, cap) = S \ low
    BY <1>4 DEF RemoveUntil
  <2>2. \A r \in S : r[1] <= x => r[2] <= x + 1
    BY <1>0, <1>1, <1>4
  <2>. QED  BY <1>2, <1>3, <2>1, <2>2
<1>5. CASE cut # {}
  <2> DEFINE m == CHOOSE r \in cut : TRUE
  <2>1. RemoveUntil(S, x, cap) = RangeInsert(S \ low, <<x + 1, m[2]>>, cap)
    BY <1>5, Zenon DEF RemoveUntil
  <2>2. m \in cut
    BY <1>5
  <2> HIDE DEF m
  <2>3. m \in S /\ m[1] <= x /\ m[2] > x + 1 /\ m[2] \in Points /\ m[2] \in Nat
    BY <1>1, <2>2
  <2>4. x + 1 \in x..m[2]
    BY <1>0, <2>3
  <2>5. x + 1 \in Points
    BY <2>3, <2>4, RangeSetConstants
  <2>6. <<x + 1, m[2]>> \in Ranges
    BY <2>3, <2>5, RangeOf
  <2>7. ASSUME NEW r \in low, r # m
        PROVE  r[2] <= x + 1
    BY <1>0, <2>3, <2>7, Apart
  <2>. QED  BY <1>2, <1>3, <2>1, <2>2, <2>3, <2>6, <2>7, ZenonT(30)
<1>. QED  BY <1>4, <1>5
\* remove_until(): the ranges stay canonical; what is left lies beyond x, and
\* without a capacity all of it is left.
LEMMA UntilSound ==
    ASSUME NEW S \in SUBSET Ranges, Canonical(S), NEW x \in Points, NEW cap
    PROVE  /\ RemoveUntil(S, x, cap) \in SUBSET Ranges /\ Canonical(RemoveUntil(S, x, cap))
           /\ \A y \in Elems(RemoveUntil(S, x, cap)) : y \in Elems(S) /\ y > x
           /\ cap = Absent => \A y \in Elems(S) : y > x => y \in Elems(RemoveUntil(S, x, cap))
<1> DEFINE B == Beyond(S, x)
<1>0. x \in Nat /\ Points \subseteq Nat /\ Elems(S) \subseteq Points /\ Elems(B) \subseteq Points
  BY RangeSetConstants DEF Elems
<1>1. \A q \in S : q[1] \in Nat /\ q[2] \in Nat
  BY RangeParts
<1>2. B \in SUBSET S /\ B \in SUBSET Ranges /\ Canonical(B) /\ \A q \in S : q \in B <=> q[1] > x
  BY UntilIs DEF Beyond
<1>3. \A y \in Elems(B) : y \in Elems(S) /\ y > x
  <2> TAKE y \in Elems(B)
  <2>1. PICK q \in B : q[1] <= y /\ y < q[2]
    BY <1>0, ElemsAre, ZenonT(30)
  <2>2. q \in S /\ q[1] > x
    BY <1>2
  <2>3. y \in Points /\ y \in Nat
    BY <1>0, ZenonT(30)
  <2>4. y > x
    BY <1>0, <1>1, <2>1, <2>2, <2>3
  <2>. QED  BY <2>1, <2>2, <2>3, <2>4, ElemsAre
<1>4. ASSUME NEW y \in Elems(S), y > x
      PROVE  y \in Elems(B) \/ \E q \in S : q[1] <= x /\ y < q[2]
  <2>1. PICK q \in S : q[1] <= y /\ y < q[2]
    BY <1>0, ElemsAre, ZenonT(30)
  <2>2. CASE q[1] > x
    BY <1>0, <1>2, <2>1, <2>2, ElemsAre, ZenonT(30)
  <2>3. CASE ~(q[1] > x)
    BY <1>0, <1>1, <2>1, <2>3
  <2>. QED  BY <2>2, <2>3
<1>5. CASE /\ RemoveUntil(S, x, cap) = B
           /\ \A r \in S : r[1] <= x => r[2] <= x + 1
  <2>1. ASSUME NEW y \in Elems(S), y > x
        PROVE  y \in Elems(B)
    <3>1. y \in Nat
      BY <1>0, ZenonT(30)
    <3>2. ASSUME NEW q \in S, q[1] <= x, y < q[2]
          PROVE  FALSE
      BY <1>0, <1>1, <1>5, <2>1, <3>1, <3>2
    <3>. QED  BY <1>4, <2>1, <3>2
  <2>. QED  BY <1>2, <1>3, <1>5, <2>1
<1>6. ASSUME NEW m \in S, m[1] <= x, m[2] > x + 1, <<x + 1, m[2]>> \in Ranges,
             RemoveUntil(S, x, cap) = RangeInsert(B, <<x + 1, m[2]>>, cap),
             \A r \in S : r[1] <= x /\ r # m => r[2] <= x + 1
      PROVE  /\ RemoveUntil(S, x, cap) \in SUBSET Ranges /\ Canonical(RemoveUntil(S, x, cap))
             /\ \A y \in Elems(RemoveUntil(S, x, cap)) : y \in Elems(S) /\ y > x
             /\ cap = Absent => \A y \in Elems(S) : y > x => y \in Elems(RemoveUntil(S, x, cap))
  <2> DEFINE W == Within(<<x + 1, m[2]>>)
             R == RemoveUntil(S, x, cap)
  <2>1. /\ R \in SUBSET Ranges /\ Canonical(R) /\ Elems(R) \subseteq Elems(B) \cup W
        /\ cap = Absent => Elems(R) = Elems(B) \cup W
    BY <1>2, <1>6, InsertSound
  <2>2. \A y \in Points : y \in W <=> x + 1 <= y /\ y < m[2]
    BY DEF Within, Covers
  <2>3. W \subseteq Points
    BY DEF Within
  <2> HIDE DEF W, R, B
  <2>4. ASSUME NEW y \in W
        PROVE  y \in Elems(S) /\ y > x
    <3>1. y \in Points /\ y \in Nat /\ x + 1 <= y /\ y < m[2]
      BY <1>0, <2>2, <2>3
    <3>2. m[1] <= y
      BY <1>0, <1>1, <1>6, <3>1
    <3>. QED  BY <1>0, <3>1, <3>2, ElemsAre
  <2>5. ASSUME NEW y \in Elems(S), y > x
        PROVE  y \in Elems(B) \cup W
    <3>0. y \in Points /\ y \in Nat
      BY <1>0, ZenonT(30)
    <3>1. ASSUME NEW q \in S, q[1] <= x, y < q[2]
          PROVE  y \in W
      <4>1. q = m
        BY <1>0, <1>1, <1>6, <2>5, <3>0, <3>1
      <4>. QED  BY <1>0, <2>2, <2>5, <3>0, <3>1, <4>1
    <3>. QED  BY <1>4, <2>5, <3>1
  <2>6. R \in SUBSET Ranges /\ Canonical(R)
        /\ (\A y \in Elems(R) : y \in Elems(S) /\ y > x)
        /\ (cap = Absent => \A y \in Elems(S) : y > x => y \in Elems(R))
    BY <1>3, <2>1, <2>4, <2>5
  <2>. QED  BY <2>6 DEF R
<1>7. \/ /\ RemoveUntil(S, x, cap) = B
         /\ \A r \in S : r[1] <= x => r[2] <= x + 1
      \/ \E m \in S :
            /\ m[1] <= x /\ m[2] > x + 1 /\ <<x + 1, m[2]>> \in Ranges
            /\ RemoveUntil(S, x, cap) = RangeInsert(B, <<x + 1, m[2]>>, cap)
            /\ \A r \in S : r[1] <= x /\ r # m => r[2] <= x + 1
  BY UntilIs
<1> HIDE DEF B
<1>. QED  BY <1>5, <1>6, <1>7, Zenon

\* remove_until() of a bounded set keeps its bound, its last range and
\* everything below that range but not below x.
LEMMA UntilBounded ==
    ASSUME NEW S \in SUBSET Ranges, Canonical(S), NEW x \in Points, NEW cap \in Nat \ {0, 1},
           IsFiniteSet(S), Cardinality(S) <= cap, HasTop(S)
    PROVE  /\ IsFiniteSet(RemoveUntil(S, x, cap)) /\ Cardinality(RemoveUntil(S, x, cap)) <= cap
           /\ HasTop(RemoveUntil(S, x, cap))
           /\ \A m \in S : m[2] > x + 1 => \E q \in RemoveUntil(S, x, cap) : m[2] <= q[2]
<1> DEFINE B == Beyond(S, x)
<1>0. x \in Nat
  BY RangeSetConstants
<1>1. \A q \in S : q[1] \in Nat /\ q[2] \in Nat /\ q[2] <= q[2]
  BY RangeParts
<1>2. B \in SUBSET S /\ Canonical(B) /\ \A q \in S : q \in B <=> q[1] > x
  BY UntilIs, ZenonT(30) DEF Beyond
<1>3. IsFiniteSet(B) /\ Cardinality(B) <= cap
  <2>1. IsFiniteSet(B) /\ Cardinality(B) <= Cardinality(S)
    BY <1>2, FS_Subset
  <2>2. Cardinality(B) \in Nat /\ Cardinality(S) \in Nat
    BY <2>1, FS_CardinalityType
  <2>. QED  BY <2>1, <2>2
<1> HIDE DEF B
<1>4. HasTop(B)
  <2>1. SUFFICES ASSUME B # {}
                 PROVE  \E m \in B : \A q \in B : q[1] <= m[1]
    BY DEF HasTop
  <2>2. PICK m \in S : \A q \in S : q[1] <= m[1]
    BY <1>2, <2>1 DEF HasTop
  <2>3. PICK p \in B : TRUE
    BY <2>1
  <2>4. p[1] > x /\ p[1] <= m[1]
    BY <1>2, <2>2, <2>3
  <2>5. m \in B
    BY <1>0, <1>1, <1>2, <2>3, <2>4
  <2>. QED  BY <1>2, <2>2, <2>5
<1>5. CASE /\ RemoveUntil(S, x, cap) = B
           /\ \A r \in S : r[1] <= x => r[2] <= x + 1
  <2>1. ASSUME NEW m \in S, m[2] > x + 1
        PROVE  m \in B
    BY <1>0, <1>1, <1>2, <1>5, <2>1
  <2>. QED  BY <1>1, <1>3, <1>4, <1>5, <2>1
<1>6. ASSUME NEW p \in S, p[1] <= x, p[2] > x + 1, <<x + 1, p[2]>> \in Ranges,
             RemoveUntil(S, x, cap) = RangeInsert(B, <<x + 1, p[2]>>, cap),
             \A r \in S : r[1] <= x /\ r # p => r[2] <= x + 1
      PROVE  /\ IsFiniteSet(RemoveUntil(S, x, cap)) /\ Cardinality(RemoveUntil(S, x, cap)) <= cap
             /\ HasTop(RemoveUntil(S, x, cap))
             /\ \A m \in S : m[2] > x + 1 => \E q \in RemoveUntil(S, x, cap) : m[2] <= q[2]
  <2> DEFINE R == RemoveUntil(S, x, cap)
             n == <<x + 1, p[2]>>
  <2>0. n[1] < n[2] /\ n[2] = p[2]
    BY <1>0, <1>1, <1>6
  <2>1. /\ IsFiniteSet(R) /\ Cardinality(R) <= cap /\ HasTop(R)
        /\ \A m \in B : \E q \in R : m[2] <= q[2]
        /\ n[1] < n[2] => \E q \in R : n[2] <= q[2]
    BY <1>2, <1>3, <1>4, <1>6, InsertBounded
  <2> HIDE DEF n, R
  <2>2. ASSUME NEW m \in S, m[2] > x + 1
        PROVE  \E q \in R : m[2] <= q[2]
    <3>1. m \in B \/ m = p
      BY <1>0, <1>1, <1>2, <1>6, <2>2
    <3>. QED  BY <2>0, <2>1, <3>1
  <2>3. /\ IsFiniteSet(R) /\ Cardinality(R) <= cap /\ HasTop(R)
        /\ \A m \in S : m[2] > x + 1 => \E q \in R : m[2] <= q[2]
    BY <2>1, <2>2
  <2>. QED  BY <2>3 DEF R
<1>7. \/ /\ RemoveUntil(S, x, cap) = B
         /\ \A r \in S : r[1] <= x => r[2] <= x + 1
      \/ \E m \in S :
            /\ m[1] <= x /\ m[2] > x + 1 /\ <<x + 1, m[2]>> \in Ranges
            /\ RemoveUntil(S, x, cap) = RangeInsert(B, <<x + 1, m[2]>>, cap)
            /\ \A r \in S : r[1] <= x /\ r # m => r[2] <= x + 1
  BY UntilIs DEF B
<1>. QED  BY <1>5, <1>6, <1>7, Zenon

\* pop_min() takes out exactly the integers of the first range.
LEMMA PopSound ==
    ASSUME NEW S \in SUBSET Ranges, Canonical(S)
    PROVE  /\ PopMin(S) \in SUBSET Ranges /\ Canonical(PopMin(S))
           /\ Elems(PopMin(S)) = Elems(S) \ UNION {Within(r) : r \in FirstOf(S)}
<1>1. PopMin(S) \in SUBSET Ranges /\ Canonical(PopMin(S))
  BY DEF PopMin, Canonical
<1>2. FirstOf(S) \subseteq S /\ Points \subseteq Nat
  BY RangeSetConstants DEF FirstOf
<1>3. ASSUME NEW x \in Points
      PROVE  x \in Elems(PopMin(S)) <=> x \in Elems(S) /\ \A r \in FirstOf(S) : ~(r[1] <= x /\ x < r[2])
  <2>1. ASSUME NEW q \in S, q[1] <= x, x < q[2], NEW r \in S, r[1] <= x, x < r[2]
        PROVE  r = q
    BY <1>2, <2>1, Apart
  <2>. QED  BY <1>2, <2>1, ElemsAre DEF PopMin
<1>4. \A x \in Points : x \in UNION {Within(r) : r \in FirstOf(S)}
                        <=> \E r \in FirstOf(S) : r[1] <= x /\ x < r[2]
  BY DEF Within, Covers
<1>5. Elems(PopMin(S)) \subseteq Points /\ Elems(S) \subseteq Points
  BY DEF Elems
<1>. QED  BY <1>1, <1>3, <1>4, <1>5

\* contains() answers for the set.
LEMMA ContainsSound ==
    ASSUME NEW S \in SUBSET Ranges, Canonical(S), NEW x \in Points
    PROVE  RangeContains(S, x) <=> x \in Elems(S)
<1>0. x \in Nat
  BY RangeSetConstants
<1>1. ASSUME NEW r \in S, r[1] <= x, x < r[2]
      PROVE  RangeContains(S, x)
  <2>1. PrevTo(S, x) = {r}
    BY <1>0, <1>1, RangeParts, PrevFinds
  <2>. QED  BY <1>1, <2>1 DEF RangeContains, Covers
<1>2. PrevTo(S, x) \subseteq S /\ NextTo(S, x) \subseteq S
  BY DEF PrevTo, NextTo
<1>. QED  BY <1>1, <1>2, ElemsAre DEF RangeContains, Covers
\* filter() of a set with ranges, none of which covers r: where the answer
\* begins and ends.
LEMMA FilterIs ==
    ASSUME NEW S \in SUBSET Ranges, Canonical(S), S # {}, NEW r \in Ranges, r[1] < r[2],
           ~\E p \in PrevTo(S, r[1]) : p[2] >= r[2]
    PROVE  \E a, b \in Points :
             /\ RangeFilter(S, r) = {<<a, b>>} /\ r[1] <= a /\ a < b /\ b <= r[2]
             /\ \A x \in Points : r[1] <= x /\ x < a => x \in Elems(S)
             /\ \A x \in Points : a <= x /\ x < b => x \notin Elems(S)
             /\ b < r[2] => b \in Elems(S)
<1> DEFINE prev == {p \in PrevTo(S, r[1]) : p[2] > r[1]}
           next == {q \in NextAfter(S, r[1]) : q[1] < r[2]}
           a == IF prev = {} THEN r[1] ELSE (CHOOSE p \in prev : TRUE)[2]
           b == IF next = {} THEN r[2] ELSE (CHOOSE q \in next : TRUE)[1]
<1>0. r[1] \in Nat /\ r[2] \in Nat /\ r[1] \in Points /\ r[2] \in Points /\ Points \subseteq Nat
  BY RangeParts, RangeSetConstants
<1>1. \A q \in S : /\ q[1] \in Nat /\ q[2] \in Nat /\ q[1] < q[2]
                   /\ q[1] \in Points /\ q[2] \in Points
  BY RangeParts, Apart
<1>2. RangeFilter(S, r) = {<<a, b>>}
  BY Zenon DEF RangeFilter
<1>3. \/ a = r[1] /\ \A q \in S : q[1] > r[1] \/ q[2] <= r[1]
      \/ \E p \in S : a = p[2] /\ p[1] <= r[1] /\ r[1] < p[2] /\ p[2] < r[2]
  <2>1. CASE prev = {}
    <3>1. ASSUME NEW q \in S, q[1] <= r[1], q[2] > r[1]
          PROVE  FALSE
      <4>1. PrevTo(S, r[1]) = {q}
        BY <1>0, <1>1, <3>1, PrevFinds
      <4>. QED  BY <2>1, <3>1, <4>1
    <3>. QED  BY <1>0, <1>1, <2>1, <3>1
  <2>2. CASE prev # {}
    <3>1. PICK p \in prev : a = p[2]
      BY <2>2, ZenonT(30)
    <3>2. p \in PrevTo(S, r[1]) /\ p[2] > r[1] /\ ~(p[2] >= r[2])
      BY <3>1
    <3>3. p \in S /\ p[1] <= r[1]
      BY <3>2 DEF PrevTo
    <3> HIDE DEF a, prev
    <3>. QED  BY <1>0, <1>1, <3>1, <3>2, <3>3
  <2>. QED  BY <2>1, <2>2
<1>4. \/ b = r[2] /\ \A q \in S : q[1] <= r[1] \/ q[1] >= r[2]
      \/ \E m \in S : /\ b = m[1] /\ r[1] < m[1] /\ m[1] < r[2]
                      /\ \A q \in S : q[1] <= r[1] \/ q[1] >= m[1]
  <2>1. CASE next = {}
    <3> DEFINE N == {q \in S : q[1] > r[1]}
    <3>1. ASSUME NEW q \in S, q[1] > r[1], q[1] < r[2]
          PROVE  FALSE
      <4>1. N \in SUBSET Ranges /\ N # {} /\ N \subseteq S
        BY <3>1
      <4>2. PICK f \in N : \A p \in N : f[1] <= p[1]
        BY <4>1, LeastStart, ZenonT(30)
      <4>3. f \in S /\ f[1] > r[1] /\ \A p \in S : p[1] > r[1] => p[1] >= f[1]
        BY <1>1, <4>2
      <4>4. f \in NextAfter(S, r[1])
        BY <4>3 DEF NextAfter
      <4>5. f[1] < r[2]
        BY <1>0, <1>1, <3>1, <4>3
      <4>. QED  BY <2>1, <4>4, <4>5
    <3>. QED  BY <1>0, <1>1, <2>1, <3>1
  <2>2. CASE next # {}
    <3>1. PICK m \in next : b = m[1]
      BY <2>2, ZenonT(30)
    <3>2. m \in S /\ m[1] > r[1] /\ m[1] < r[2] /\ \A q \in S : q[1] > r[1] => q[1] >= m[1]
      BY <3>1 DEF NextAfter
    <3> HIDE DEF b, next
    <3>3. \A q \in S : q[1] <= r[1] \/ q[1] >= m[1]
      BY <1>0, <1>1, <3>2
    <3>. QED  BY <3>1, <3>2, <3>3
  <2>. QED  BY <2>1, <2>2
<1> HIDE DEF a, b
<1>5. a \in Points /\ b \in Points /\ r[1] <= a /\ b <= r[2] /\ r[1] < b /\ a < r[2]
  BY <1>0, <1>1, <1>3, <1>4
<1>6. \A q \in S : q[2] <= a \/ q[1] >= b
  <2> TAKE q \in S
  <2>1. CASE q[1] <= r[1]
    <3>1. CASE a = r[1] /\ \A p \in S : p[1] > r[1] \/ p[2] <= r[1]
      BY <1>0, <1>1, <2>1, <3>1
    <3>2. ASSUME NEW p \in S, a = p[2], p[1] <= r[1], r[1] < p[2]
          PROVE  q[2] <= a
      BY <1>0, <1>1, <2>1, <3>2, Apart
    <3>. QED  BY <1>3, <3>1, <3>2
  <2>2. CASE q[1] > r[1]
    BY <1>0, <1>1, <1>4, <2>2
  <2>. QED  BY <1>0, <1>1, <2>1, <2>2
<1>7. a < b
  <2>1. CASE a = r[1]
    BY <1>5, <2>1
  <2>2. CASE b = r[2]
    BY <1>5, <2>2
  <2>3. CASE a # r[1] /\ b # r[2]
    <3>1. PICK p \in S : a = p[2] /\ p[1] <= r[1] /\ r[1] < p[2]
      BY <1>3, <2>3
    <3>2. PICK m \in S : b = m[1] /\ r[1] < m[1]
      BY <1>4, <2>3
    <3>. QED  BY <1>0, <3>1, <3>2, Apart
  <2>. QED  BY <2>1, <2>2, <2>3
<1>8. \A x \in Points : r[1] <= x /\ x < a => x \in Elems(S)
  <2> TAKE x \in Points
  <2> HAVE r[1] <= x /\ x < a
  <2>1. PICK p \in S : a = p[2] /\ p[1] <= r[1]
    BY <1>0, <1>3
  <2>2. p[1] <= x /\ x < p[2]
    BY <1>0, <1>1, <2>1
  <2>. QED  BY <2>2, ElemsAre
<1>9. \A x \in Points : a <= x /\ x < b => x \notin Elems(S)
  <2> TAKE x \in Points
  <2> HAVE a <= x /\ x < b
  <2>1. ASSUME NEW q \in S, q[1] <= x, x < q[2]
        PROVE  FALSE
    BY <1>0, <1>1, <1>5, <1>6, <2>1
  <2>. QED  BY <2>1, ElemsAre
<1>10. b < r[2] => b \in Elems(S)
  <2> HAVE b < r[2]
  <2>1. PICK m \in S : b = m[1]
    BY <1>0, <1>4
  <2>. QED  BY <1>1, <1>5, <2>1, ElemsAre
<1>. QED  BY <1>2, <1>5, <1>7, <1>8, <1>9, <1>10

\* filter() returns the first stretch of r that the set leaves free.
LEMMA FilterSound ==
    ASSUME NEW S \in SUBSET Ranges, Canonical(S), NEW r \in Ranges, ~IsEmptyRange(r)
    PROVE  UNION {Within(g) : g \in RangeFilter(S, r)} = FirstGap(S, r)
<1> DEFINE free == Within(r) \ Elems(S)
<1>0. /\ r[1] \in Nat /\ r[2] \in Nat /\ r[1] < r[2] /\ Points \subseteq Nat
      /\ r[1] \in Points /\ r[2] \in Points
  BY RangeParts, RangeSetConstants DEF IsEmptyRange
<1>1. \A x : x \in free <=> x \in Points /\ r[1] <= x /\ x < r[2] /\ x \notin Elems(S)
  BY DEF Within, Covers
<1>2. FirstGap(S, r) = {y \in free : \A z \in free : \A u \in z..y : u \in free}
  BY Zenon DEF FirstGap
<1> HIDE DEF free
<1>3. ASSUME NEW a \in Points, NEW b \in Points, RangeFilter(S, r) = {<<a, b>>},
             r[1] <= a, a < b, b <= r[2],
             \A x \in Points : r[1] <= x /\ x < a => x \in Elems(S),
             \A x \in Points : a <= x /\ x < b => x \notin Elems(S),
             b < r[2] => b \in Elems(S)
      PROVE  UNION {Within(g) : g \in RangeFilter(S, r)} = FirstGap(S, r)
  <2>0. a \in Nat /\ b \in Nat
    BY <1>0
  <2>1. \A y : y \in UNION {Within(g) : g \in RangeFilter(S, r)} <=> y \in Points /\ a <= y /\ y < b
    BY <1>3 DEF Within, Covers
  <2>2. ASSUME NEW y \in Points, a <= y, y < b
        PROVE  y \in FirstGap(S, r)
    <3>1. y \in free
      BY <1>0, <1>1, <1>3, <2>0, <2>2
    <3>2. ASSUME NEW z \in free, NEW u \in z..y
          PROVE  u \in free
      <4>1. z \in Points /\ r[1] <= z /\ z < r[2] /\ z \notin Elems(S) /\ z \in Nat /\ y \in Nat
        BY <1>0, <1>1, <2>2, ZenonT(30)
      <4>2. a <= z
        BY <1>3, <2>0, <4>1
      <4>3. u \in Points /\ u \in Nat
        BY <4>1, <2>2, RangeSetConstants
      <4>4. a <= u /\ u < b /\ r[1] <= u /\ u < r[2]
        BY <1>0, <1>3, <2>0, <2>2, <3>2, <4>1, <4>2, <4>3
      <4>. QED  BY <1>1, <1>3, <4>3, <4>4
    <3>. QED  BY <1>2, <3>1, <3>2
  <2>3. ASSUME NEW y \in FirstGap(S, r)
        PROVE  y \in Points /\ a <= y /\ y < b
    <3>1. y \in free /\ \A z \in free : \A u \in z..y : u \in free
      BY <1>2
    <3>2. y \in Points /\ y \in Nat /\ r[1] <= y /\ y < r[2] /\ y \notin Elems(S)
      BY <1>0, <1>1, <3>1, ZenonT(30)
    <3>3. a <= y
      BY <1>3, <2>0, <3>2
    <3>4. a \in free
      BY <1>0, <1>1, <1>3, <2>0
    <3>5. ASSUME b <= y
          PROVE  FALSE
      <4>1. b \in a..y
        BY <1>3, <2>0, <3>2, <3>5
      <4>2. b \in free
        BY <3>1, <3>4, <4>1
      <4>. QED  BY <1>1, <1>3, <4>2
    <3>. QED  BY <2>0, <3>2, <3>3, <3>5
  <2>4. FirstGap(S, r) \subseteq Points
    BY <2>3
  <2>. QED  BY <2>1, <2>2, <2>3
<1>4. CASE S = {}
  <2>1. RangeFilter(S, r) = {<<r[1], r[2]>>}
    BY <1>4, RangeParts DEF RangeFilter
  <2>2. Elems(S) = {}
    BY <1>4 DEF Elems
  <2>3. r[1] <= r[1] /\ r[2] <= r[2] /\ ~(r[2] < r[2])
    BY <1>0
  <2>4. \A x \in Points : ~(r[1] <= x /\ x < r[1])
    BY <1>0
  <2>. QED  BY <1>0, <1>3, <2>1, <2>2, <2>3, <2>4
<1>5. CASE S # {} /\ \E p \in PrevTo(S, r[1]) : p[2] >= r[2]
  <2>1. RangeFilter(S, r) = {}
    BY <1>5, Zenon DEF RangeFilter
  <2>2. PICK p \in S : p[1] <= r[1] /\ p[2] >= r[2]
    BY <1>5 DEF PrevTo
  <2>3. ASSUME NEW x \in free
        PROVE  FALSE
    <3>1. x \in Points /\ x \in Nat /\ r[1] <= x /\ x < r[2] /\ x \notin Elems(S)
      BY <1>0, <1>1, <2>3, ZenonT(30)
    <3>2. p[1] <= x /\ x < p[2]
      BY <1>0, <2>2, <3>1, RangeParts
    <3>. QED  BY <3>1, <3>2, ElemsAre
  <2>. QED  BY <1>2, <2>1, <2>3
<1>6. CASE S # {} /\ ~\E p \in PrevTo(S, r[1]) : p[2] >= r[2]
  BY <1>0, <1>3, <1>6, FilterIs
<1>. QED  BY <1>4, <1>5, <1>6
-----------------------------------------------------------------------------
(* The sequence of calls.                                                  *)

\* The inductive invariant. A bounded set has forgotten some of ghost; what it
\* still knows is that nothing of ghost lies above its ranges.
RsInv ==
    /\ rset \in SUBSET Ranges /\ Canonical(rset) /\ ghost \in SUBSET Points
    /\ capacity \in {Absent} \cup (Nat \ {0, 1})
    /\ capacity = Absent => Elems(rset) = ghost
    /\ Present(capacity) => /\ IsFiniteSet(rset) /\ Cardinality(rset) <= capacity
                            /\ HasTop(rset) /\ Elems(rset) \subseteq ghost
                            /\ \A x \in ghost : \E m \in rset : x < m[2]

\* RangeSet::new() makes an empty set.
LEMMA RsInitInv ==
    RsInit => RsInv
<1> HAVE RsInit
<1>1. rset = {} /\ ghost = {} /\ capacity \in {Absent} \cup (Nat \ {0, 1})
  BY RangeSetConstants DEF RsInit
<1>2. Elems({}) = {} /\ Canonical({}) /\ HasTop({})
  BY DEF Elems, Canonical, HasTop
<1>3. IsFiniteSet({}) /\ Cardinality({}) = 0
  BY FS_EmptySet
<1>4. Present(capacity) => Cardinality({}) <= capacity
  BY <1>1, <1>3 DEF Present
<1>. QED  BY <1>1, <1>2, <1>3, <1>4 DEF RsInv

\* insert() keeps the invariant.
LEMMA RsInsertInv ==
    ASSUME RsInv, NEW r \in Ranges, RsInsert(r)
    PROVE  RsInv'
<1> DEFINE R == RangeInsert(rset, r, capacity)
<1>0. /\ rset \in SUBSET Ranges /\ Canonical(rset) /\ ghost \in SUBSET Points
      /\ capacity \in {Absent} \cup (Nat \ {0, 1}) /\ Points \subseteq Nat
      /\ rset' = R /\ ghost' = ghost \cup Within(r) /\ capacity' = capacity
  BY RangeSetConstants DEF RsInv, RsInsert
<1>1. /\ R \in SUBSET Ranges /\ Canonical(R) /\ Elems(R) \subseteq Elems(rset) \cup Within(r)
      /\ capacity = Absent => Elems(R) = Elems(rset) \cup Within(r)
  BY <1>0, InsertSound
<1>2. \A x : x \in Within(r) <=> x \in Points /\ r[1] <= x /\ x < r[2]
  BY DEF Within, Covers
<1>3. r[1] \in Nat /\ r[2] \in Nat
  BY RangeParts
<1>4. ASSUME Present(capacity)
      PROVE  /\ IsFiniteSet(R) /\ Cardinality(R) <= capacity /\ HasTop(R)
             /\ Elems(R) \subseteq ghost \cup Within(r)
             /\ \A x \in ghost \cup Within(r) : \E m \in R : x < m[2]
  <2>0. /\ capacity \in Nat \ {0, 1} /\ IsFiniteSet(rset) /\ Cardinality(rset) <= capacity
        /\ HasTop(rset) /\ Elems(rset) \subseteq ghost
        /\ \A x \in ghost : \E m \in rset : x < m[2]
    BY <1>0, <1>4 DEF RsInv, Present
  <2>1. /\ IsFiniteSet(R) /\ Cardinality(R) <= capacity /\ HasTop(R)
        /\ \A m \in rset : \E q \in R : m[2] <= q[2]
        /\ r[1] < r[2] => \E q \in R : r[2] <= q[2]
    BY <1>0, <2>0, InsertBounded
  <2> HIDE DEF R
  <2>2. \A q \in R : q[2] \in Nat
    BY <1>1, RangeParts
  <2>3. ASSUME NEW x \in ghost
        PROVE  \E m \in R : x < m[2]
    <3>1. PICK m \in rset : x < m[2]
      BY <2>0
    <3>2. PICK q \in R : m[2] <= q[2]
      BY <2>1
    <3>3. m[2] \in Nat /\ x \in Nat /\ q[2] \in Nat
      BY <1>0, <2>2, RangeParts
    <3>. QED  BY <3>1, <3>2, <3>3
  <2>4. ASSUME NEW x \in Within(r)
        PROVE  \E m \in R : x < m[2]
    <3>1. x \in Nat /\ r[1] <= x /\ x < r[2]
      BY <1>0, <1>2, ZenonT(30)
    <3>2. PICK q \in R : r[2] <= q[2]
      BY <1>3, <2>1, <3>1
    <3>. QED  BY <1>3, <2>2, <3>1, <3>2
  <2>. QED  BY <1>1, <2>0, <2>1, <2>3, <2>4
<1> HIDE DEF R
<1>5. Within(r) \subseteq Points
  BY <1>2
<1>6. capacity = Absent => Elems(rset) = ghost
  BY DEF RsInv
<1>. QED  BY <1>0, <1>1, <1>4, <1>5, <1>6, ZenonT(30) DEF RsInv, Present

\* remove_until() keeps the invariant.
LEMMA RsUntilInv ==
    ASSUME RsInv, NEW x \in Points, RsRemoveUntil(x)
    PROVE  RsInv'
<1> DEFINE R == RemoveUntil(rset, x, capacity)
<1>0. /\ rset \in SUBSET Ranges /\ Canonical(rset) /\ ghost \in SUBSET Points
      /\ capacity \in {Absent} \cup (Nat \ {0, 1}) /\ Points \subseteq Nat /\ x \in Nat
      /\ rset' = R /\ ghost' = {y \in ghost : y > x} /\ capacity' = capacity
  BY RangeSetConstants DEF RsInv, RsRemoveUntil
<1>1. /\ R \in SUBSET Ranges /\ Canonical(R) /\ \A y \in Elems(R) : y \in Elems(rset) /\ y > x
      /\ capacity = Absent => \A y \in Elems(rset) : y > x => y \in Elems(R)
  BY <1>0, UntilSound
<1>2. ASSUME Present(capacity)
      PROVE  /\ IsFiniteSet(R) /\ Cardinality(R) <= capacity /\ HasTop(R)
             /\ Elems(R) \subseteq ghost'
             /\ \A y \in ghost' : \E m \in R : y < m[2]
  <2>0. /\ capacity \in Nat \ {0, 1} /\ IsFiniteSet(rset) /\ Cardinality(rset) <= capacity
        /\ HasTop(rset) /\ Elems(rset) \subseteq ghost
        /\ \A y \in ghost : \E m \in rset : y < m[2]
    BY <1>0, <1>2 DEF RsInv, Present
  <2>1. /\ IsFiniteSet(R) /\ Cardinality(R) <= capacity /\ HasTop(R)
        /\ \A m \in rset : m[2] > x + 1 => \E q \in R : m[2] <= q[2]
    BY <1>0, <2>0, UntilBounded
  <2> HIDE DEF R
  <2>2. ASSUME NEW y \in ghost'
        PROVE  \E m \in R : y < m[2]
    <3>1. y \in ghost /\ y > x /\ y \in Nat
      BY <1>0
    <3>2. PICK m \in rset : y < m[2]
      BY <2>0, <3>1
    <3>3. m[2] \in Nat
      BY <1>0, RangeParts
    <3>4. m[2] > x + 1
      BY <1>0, <3>1, <3>2, <3>3
    <3>5. PICK q \in R : m[2] <= q[2]
      BY <2>1, <3>4
    <3>6. q[2] \in Nat
      BY <1>1, RangeParts
    <3>. QED  BY <3>1, <3>2, <3>3, <3>5, <3>6
  <2>. QED  BY <1>0, <1>1, <2>0, <2>1, <2>2
<1> HIDE DEF R
<1>3. capacity = Absent => Elems(R) = ghost'
  <2> HAVE capacity = Absent
  <2>1. Elems(rset) = ghost
    BY DEF RsInv
  <2>. QED  BY <1>0, <1>1, <2>1
<1>. QED  BY <1>0, <1>1, <1>2, <1>3, ZenonT(30) DEF RsInv, Present

\* remove() and pop_min() keep the invariant.
LEMMA RsRemoveInv ==
    ASSUME RsInv, RsPopMin \/ \E r \in Ranges : RsRemove(r)
    PROVE  RsInv'
<1>0. /\ rset \in SUBSET Ranges /\ Canonical(rset) /\ ghost \in SUBSET Points
      /\ capacity = Absent /\ capacity' = Absent /\ Elems(rset) = ghost
  BY DEF RsInv, RsPopMin, RsRemove
<1>1. rset' \in SUBSET Ranges /\ Canonical(rset') /\ Elems(rset') = ghost' /\ ghost' \in SUBSET Points
  <2>1. CASE RsPopMin
    <3>1. rset' = PopMin(rset) /\ ghost' = ghost \ UNION {Within(r) : r \in FirstOf(rset)}
      BY <2>1 DEF RsPopMin
    <3>. QED  BY <1>0, <3>1, PopSound
  <2>2. ASSUME NEW r \in Ranges, RsRemove(r)
        PROVE  /\ rset' \in SUBSET Ranges /\ Canonical(rset') /\ Elems(rset') = ghost'
               /\ ghost' \in SUBSET Points
    <3>1. rset' = RangeRemove(rset, r) /\ ghost' = ghost \ Within(r)
      BY <2>2 DEF RsRemove
    <3>. QED  BY <1>0, <3>1, RemoveSound
  <2>. QED  BY <2>1, <2>2
<1>. QED  BY <1>0, <1>1 DEF RsInv, Present

\* After any sequence of calls the invariant holds.
LEMMA RsInvHolds ==
    RsSpec => []RsInv
<1>1. ASSUME RsInv, [RsNext]_rsVars
      PROVE  RsInv'
  <2>1. CASE UNCHANGED rsVars
    BY <1>1, <2>1 DEF RsInv, rsVars
  <2>2. CASE RsNext
    BY <1>1, <2>2, RsInsertInv, RsUntilInv, RsRemoveInv DEF RsNext
  <2>. QED  BY <1>1, <2>1, <2>2
<1>. QED  BY <1>1, RsInitInv, PTL DEF RsSpec

\* RangeSet::max() of a bounded set: nothing inserted and not removed is larger.
LEMMA MaxSound ==
    ASSUME RsInv, Present(capacity), NEW x \in ghost
    PROVE  x <= RangeMax(rset)
<1>0. /\ rset \in SUBSET Ranges /\ Canonical(rset) /\ HasTop(rset) /\ x \in Nat
      /\ \E m \in rset : x < m[2]
  BY RangeSetConstants DEF RsInv
<1>1. PICK p \in rset : x < p[2]
  BY <1>0
<1>2. \E m \in rset : \A q \in rset : q[1] <= m[1]
  BY <1>0, <1>1 DEF HasTop
<1> DEFINE m == CHOOSE r \in rset : \A q \in rset : q[1] <= r[1]
<1>3. m \in rset /\ \A q \in rset : q[1] <= m[1]
  BY <1>2
<1>4. RangeMax(rset) = m[2] - 1
  BY <1>1 DEF RangeMax
<1> HIDE DEF m
<1>5. p[2] <= m[2] /\ p[2] \in Nat /\ m[2] \in Nat
  BY <1>0, <1>1, <1>3, Apart
<1>. QED  BY <1>0, <1>1, <1>4, <1>5

\* RangeSet stands for exactly the integers put in and not taken out, in the
\* one canonical form, whatever the calls of insert(), remove(), remove_until()
\* and pop_min() and their order; contains() and filter() answer for that set;
\* and a bounded set (recv_pkt_num_need_ack) stays within its capacity, holds
\* nothing that was not put in and never loses its largest integer.
THEOREM RangesAlwaysExact ==
    RsSpec => []RangesExact
<1>1. ASSUME RsInv
      PROVE  RangesExact
  <2>0. rset \in SUBSET Ranges /\ Canonical(rset)
    BY <1>1 DEF RsInv
  <2>1. \A x \in Points : RangeContains(rset, x) <=> x \in Elems(rset)
    BY <2>0, ContainsSound
  <2>2. \A r \in Ranges : ~IsEmptyRange(r) =>
          UNION {Within(g) : g \in RangeFilter(rset, r)} = FirstGap(rset, r)
    BY <2>0, FilterSound
  <2>3. Present(capacity) => \A x \in ghost : x <= RangeMax(rset)
    BY <1>1, MaxSound
  <2>. QED  BY <1>1, <2>0, <2>1, <2>2, <2>3 DEF RsInv, RangesExact
<1>. QED  BY <1>1, RsInvHolds, PTL

=============================================================================
