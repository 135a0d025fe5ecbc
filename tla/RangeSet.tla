------------------------------ MODULE RangeSet ------------------------------
(***************************************************************************)
(* RangeSet (ranges.rs): a set of integers kept as half-open ranges in a   *)
(* BTreeMap from start to end, at most `capacity` of them.  Everything     *)
(* the transport remembers about byte ranges and packet numbers is kept    *)
(* in one: acked and retransmit ranges, the numbers to acknowledge, the    *)
(* free stream ids.                                                        *)
(*                                                                         *)
(* A range is <<start, end>>; the map is the set of its ranges.  The       *)
(* while-loops over the following ranges are written as what they take     *)
(* out: the end of the new range grows as the loop merges, but the ranges  *)
(* never touch, so it takes out nothing that starts beyond the old end.    *)
(***************************************************************************)
EXTENDS Integers, FiniteSets, Util

CONSTANTS
    Points,        \* the integers of the instance, 0..n
    Capacities     \* the capacities tried; Absent is usize::MAX

\* The integers are a run of natural numbers, as those of u64 are. A bounded set
\* has room for two ranges (MAX_ACK_RANGES is 68): with room for one, insert()
\* would give up the only range for any other, a lower one too.
ASSUME RangeSetConstants ==
    /\ Points \subseteq Nat
    /\ \A a, b \in Points : a..b \subseteq Points
    /\ Capacities \subseteq {Absent} \cup (Nat \ {0, 1})

VARIABLES rset, capacity, ghost

rsVars == <<rset, capacity, ghost>>

Covers(r, x) == r[1] <= x /\ x < r[2]

Elems(S) == {x \in Points : \E r \in S : Covers(r, x)}

IsEmptyRange(r) == r[2] <= r[1]

\* prev_to, next_to, next_after: the range with the greatest start up to x,
\* the least start from x on, the least start beyond x.  A set of at most one.
PrevTo(S, x) == {r \in S : r[1] <= x /\ \A q \in S : q[1] <= x => q[1] <= r[1]}

NextTo(S, x) == {r \in S : r[1] >= x /\ \A q \in S : q[1] >= x => q[1] >= r[1]}

NextAfter(S, x) == {r \in S : r[1] > x /\ \A q \in S : q[1] > x => q[1] >= r[1]}

FirstOf(S) == {r \in S : \A q \in S : q[1] >= r[1]}

\* The preceding range that overlaps or touches the new one joins it.
Joined(S, r) == {p \in PrevTo(S, r[1]) : p[2] >= r[1]}

JoinedStart(S, r) == IF Joined(S, r) = {} THEN r[1] ELSE (CHOOSE p \in Joined(S, r) : TRUE)[1]

\* The ranges the loop over next_to takes out: they start within the new one.
Swallowed(S, r) == {q \in S : r[1] <= q[1] /\ q[1] <= r[2]}

SwallowedEnd(S, r) ==
    IF \E q \in Swallowed(S, r) : q[2] > r[2]
    THEN (CHOOSE q \in Swallowed(S, r) : q[2] > r[2])[2] ELSE r[2]

Full(S, cap) == Present(cap) /\ Cardinality(S) >= cap

\* pop_first when the set is full.
MakeRoom(S, cap) == IF Full(S, cap) THEN S \ FirstOf(S) ELSE S

MRangeInsert(S, r, cap) ==
    IF IsEmptyRange(r) \/ \E p \in PrevTo(S, r[1]) : p[2] >= r[2] THEN S
    ELSE MakeRoom(S \ (Joined(S, r) \cup {q \in S : r[1] <= q[1] /\ q[1] < r[2]}), cap)
         \cup {<<JoinedStart(S, r), SwallowedEnd(S, r)>>}

RangeInsert(S, r, cap) ==
    IF IsEmptyRange(r) \/ \E p \in PrevTo(S, r[1]) : p[2] >= r[2] THEN S
    ELSE MakeRoom(S \ (Joined(S, r) \cup Swallowed(S, r)), cap)
         \cup {<<JoinedStart(S, r), SwallowedEnd(S, r)>>}

\* The preceding range is cut at r; it returns early when it reaches past r.
CutPrev(S, r) ==
    LET p == {q \in PrevTo(S, r[1]) : q[2] > r[1]}
    IN  (S \ p) \cup {<<q[1], r[1]>> : q \in {q \in p : q[1] < r[1]}}
                \cup {<<r[2], q[2]>> : q \in {q \in p : q[2] > r[2]}}

RangeRemove(S, r) ==
    LET T == CutPrev(S, r)
        hit == Swallowed(T, r)
    IN  IF S = {} \/ IsEmptyRange(r) THEN S
        ELSE IF \E p \in PrevTo(S, r[1]) : p[2] > r[1] /\ p[2] >= r[2] THEN T
        ELSE (T \ hit) \cup {<<r[2], q[2]>> : q \in {q \in hit : q[2] > r[2]}}

\* Everything up to x goes; a range that reaches beyond is put back cut.
RemoveUntil(S, x, cap) ==
    LET low == {r \in S : r[1] <= x}
        cut == {r \in low : r[2] > x + 1}
    IN  IF cut = {} THEN S \ low
        ELSE RangeInsert(S \ low, <<x + 1, (CHOOSE r \in cut : TRUE)[2]>>, cap)

\* The part of r before the first range it meets, after the one it starts in;
\* the empty set for None.
RangeFilter(S, r) ==
    LET prev == {p \in PrevTo(S, r[1]) : p[2] > r[1]}
        next == {q \in NextAfter(S, r[1]) : q[1] < r[2]}
    IN  IF S = {} THEN {r}
        ELSE IF \E p \in PrevTo(S, r[1]) : p[2] >= r[2] THEN {}
        ELSE {<<IF prev = {} THEN r[1] ELSE (CHOOSE p \in prev : TRUE)[2],
                IF next = {} THEN r[2] ELSE (CHOOSE q \in next : TRUE)[1]>>}

RangeContains(S, x) ==
    \/ \E p \in PrevTo(S, x) : Covers(p, x)
    \/ \E q \in NextTo(S, x) : Covers(q, x)

RangeMax(S) ==
    IF S = {} THEN Absent
    ELSE (CHOOSE r \in S : \A q \in S : q[1] <= r[1])[2] - 1

\* pop_min.
PopMin(S) == S \ FirstOf(S)

(***************************************************************************)
(* The calls, on one set; ghost is the set of integers it stands for.  A   *)
(* set with a capacity is only inserted into and cut from below, as        *)
(* recv_pkt_num_need_ack is.                                               *)
(***************************************************************************)
Ranges == {<<a, b>> : a, b \in Points}

Within(r) == {x \in Points : Covers(r, x)}

RsInit ==
    /\ rset = {}
    /\ ghost = {}
    /\ capacity \in Capacities

RsInsert(r) ==
    /\ rset' = RangeInsert(rset, r, capacity)
    /\ ghost' = ghost \cup Within(r)
    /\ UNCHANGED capacity

RsRemove(r) ==
    /\ capacity = Absent
    /\ rset' = RangeRemove(rset, r)
    /\ ghost' = ghost \ Within(r)
    /\ UNCHANGED capacity

RsRemoveUntil(x) ==
    /\ rset' = RemoveUntil(rset, x, capacity)
    /\ ghost' = {y \in ghost : y > x}
    /\ UNCHANGED capacity

RsPopMin ==
    /\ capacity = Absent
    /\ rset # {}
    /\ rset' = PopMin(rset)
    /\ ghost' = ghost \ UNION {Within(r) : r \in FirstOf(rset)}
    /\ UNCHANGED capacity

RsNext ==
    \/ \E r \in Ranges : RsInsert(r) \/ RsRemove(r)
    \/ \E x \in Points : RsRemoveUntil(x)
    \/ RsPopMin

RsSpec == RsInit /\ [][RsNext]_rsVars

(***************************************************************************)
(* Properties                                                              *)
(***************************************************************************)
\* Ranges are never empty and never touch: the map is the one canonical way
\* to write its set, which prev_to, next_to and filter rely on.
Canonical(S) ==
    /\ \A r \in S : r[1] < r[2]
    /\ \A r, q \in S : r # q => r[2] < q[1] \/ q[2] < r[1]

\* What filter promises: the first stretch of r that the set leaves free.
FirstGap(S, r) ==
    LET free == Within(r) \ Elems(S)
    IN  {y \in free : \A z \in free : \A u \in z..y : u \in free}

\* After any sequence of insert, remove, remove_until and pop_min the ranges
\* are canonical and hold exactly the integers put in and not taken out, and
\* contains and filter answer for that set; a set that is full forgets only below what
\* it keeps, so the largest integer is never lost.
RangesExact ==
    /\ Canonical(rset)
    /\ capacity = Absent => Elems(rset) = ghost
    /\ Present(capacity) => /\ Cardinality(rset) <= capacity
                            /\ Elems(rset) \subseteq ghost
                            /\ \A x \in ghost : x <= RangeMax(rset)
    /\ \A x \in Points : RangeContains(rset, x) <=> x \in Elems(rset)
    /\ \A r \in Ranges : ~IsEmptyRange(r) =>
         UNION {Within(g) : g \in RangeFilter(rset, r)} = FirstGap(rset, r)

=============================================================================
