--------------------------- MODULE RecoveryProofs ---------------------------
(***************************************************************************)
(* Proofs about loss recovery.                                             *)
(*                                                                         *)
(* Loss recovery forgets no data, for any frames, thresholds, timeouts and *)
(* clocks, and for any order of acknowledgments, timeouts, probes and      *)
(* discarded spaces. What the estimators and the counters compute does not *)
(* matter: the lemmas follow the queue of sent packets and the list of     *)
(* lost frames through every method of Recovery.                           *)
(***************************************************************************)
EXTENDS Recovery, WellFoundedInduction, TLAPS

\* What the space i of c still remembers of the data that was sent.
Kept(c, i) ==
  (UNION {p.frames : p \in {x \in Ran(c.sp[i].sent) : Outstanding(x)}}) \cup c.sp[i].lost

\* The parts of the state of recovery that the steps below rely on.
IsQueue(q) == q \in Seq(Ran(q))
CoreOK(c) ==
  /\ "sp" \in DOMAIN c
  /\ DOMAIN c.sp = SpaceIds
  /\ \A j \in SpaceIds : {"sent", "lost"} \subseteq DOMAIN c.sp[j] /\ IsQueue(c.sp[j].sent)

\* d is a state after c that keeps all that c remembers of every space.
Keeps(c, d) == CoreOK(d) /\ \A j \in SpaceIds : Kept(c, j) \subseteq Kept(d, j)

\* Two states with the same queues and the same lost frames.
SameData(c, d) ==
  \A j \in SpaceIds : d.sp[j].sent = c.sp[j].sent /\ d.sp[j].lost = c.sp[j].lost

-----------------------------------------------------------------------------
\* The names of the spaces. (SpaceId)
LEMMA SpacesAre == SpaceIds = {"Initial", "Handshake", "Data"}
BY DEF SpaceIds, SpaceOrder, Ran

\* A state that keeps the queues and the lost frames keeps what is remembered.
LEMMA SameKeeps ==
  ASSUME NEW c, NEW d, CoreOK(d), SameData(c, d)
  PROVE  Keeps(c, d)
BY DEF Keeps, SameData, Kept

\* Two steps that forget nothing forget nothing together.
LEMMA KeepsTwice ==
  ASSUME NEW b, NEW c, NEW d, Keeps(b, c), Keeps(c, d)
  PROVE  Keeps(b, d)
BY DEF Keeps

\* set_loss_detection_timer() touches nothing but the timer.
LEMMA TimerSame ==
  ASSUME NEW c, CoreOK(c), NEW h, NEW t
  PROVE  /\ SetTimer(c, h, t).sp = c.sp
         /\ CoreOK(SetTimer(c, h, t)) /\ Keeps(c, SetTimer(c, h, t))
<1>1. SetTimer(c, h, t).sp = c.sp /\ "sp" \in DOMAIN SetTimer(c, h, t)
  BY DEF SetTimer, CoreOK
<1>2. CoreOK(SetTimer(c, h, t))
  BY <1>1 DEF CoreOK
<1> QED
  BY <1>1, <1>2, SameKeeps DEF SameData

\* A change of the part of the path leaves the spaces alone.
LEMMA PathOnly ==
  ASSUME NEW c, CoreOK(c), NEW v
  PROVE  CoreOK([c EXCEPT !.r = v]) /\ SameData(c, [c EXCEPT !.r = v])
<1> DEFINE d == [c EXCEPT !.r = v]
<1>1. d.sp = c.sp /\ "sp" \in DOMAIN d
  BY DEF CoreOK
<1> HIDE DEF d
<1>2. CoreOK(d) /\ SameData(c, d)
  BY <1>1 DEF CoreOK, SameData
<1> QED
  BY <1>2 DEF d

\* Taking packets out of what is in flight touches nothing but the counters.
LEMMA LandedSame ==
  ASSUME NEW c, CoreOK(c), NEW i, NEW P
  PROVE  /\ CoreOK(Landed(c, i, P)) /\ SameData(c, Landed(c, i, P))
         /\ Keeps(c, Landed(c, i, P))
<1> DEFINE F == {p \in P : p.in_flight}
           ae == Cardinality({p \in F : p.ae})
           sz == Sizes(F)
           d == [c EXCEPT !.r = [c.r EXCEPT !.bif = SatSub(@, sz), !.aeif = SatSub(@, ae)],
                          !.sp[i] = [c.sp[i] EXCEPT !.bif = SatSub(@, sz), !.aeif = SatSub(@, ae)]]
<1>1. Landed(c, i, P) = d
  BY DEF Landed
<1> HIDE DEF sz, ae
<1>2. /\ "sp" \in DOMAIN d /\ DOMAIN d.sp = SpaceIds
      /\ \A j \in SpaceIds : /\ DOMAIN d.sp[j] = DOMAIN c.sp[j]
                             /\ d.sp[j].sent = c.sp[j].sent /\ d.sp[j].lost = c.sp[j].lost
  BY DEF CoreOK
<1> HIDE DEF d
<1>3. CoreOK(d) /\ SameData(c, d)
  BY <1>2 DEF CoreOK, SameData
<1> QED
  BY <1>1, <1>3, SameKeeps

-----------------------------------------------------------------------------
\* d is c with the queue of the space i rewritten in place: each packet of gone
\* has given its frames to the lost ones or to the set A.
Rewritten(c, d, i, gone, A) ==
  /\ "sp" \in DOMAIN d /\ DOMAIN d.sp = SpaceIds
  /\ \A j \in SpaceIds : DOMAIN d.sp[j] = DOMAIN c.sp[j]
  /\ \A j \in SpaceIds : j # i => d.sp[j] = c.sp[j]
  /\ i \in SpaceIds => /\ IsQueue(d.sp[i].sent)
                       /\ DOMAIN d.sp[i].sent = DOMAIN c.sp[i].sent
                       /\ c.sp[i].lost \subseteq d.sp[i].lost
                       /\ \A k \in DOMAIN c.sp[i].sent :
                            IF k \in gone THEN c.sp[i].sent[k].frames \subseteq d.sp[i].lost \cup A
                            ELSE d.sp[i].sent[k] = c.sp[i].sent[k]

\* What is remembered does not shrink then, but for the set A.
LEMMA RewriteKeeps ==
  ASSUME NEW c, CoreOK(c), NEW i, NEW d, NEW gone, NEW A, Rewritten(c, d, i, gone, A)
  PROVE  /\ CoreOK(d)
         /\ \A j \in SpaceIds : Kept(c, j) \subseteq Kept(d, j) \cup (IF j = i THEN A ELSE {})
<1> USE DEF Rewritten
<1>1. CoreOK(d)
  BY DEF CoreOK
<1>2. ASSUME NEW j \in SpaceIds, j # i
      PROVE  Kept(c, j) \subseteq Kept(d, j)
  BY <1>2 DEF Kept
<1>3. ASSUME i \in SpaceIds, NEW f \in Kept(c, i), f \notin A
      PROVE  f \in Kept(d, i)
  <2>1. CASE f \in c.sp[i].lost
    BY <1>3, <2>1 DEF Kept
  <2>2. CASE f \notin c.sp[i].lost
    <3>1. PICK k \in DOMAIN c.sp[i].sent : Outstanding(c.sp[i].sent[k]) /\ f \in c.sp[i].sent[k].frames
      BY <1>3, <2>2 DEF Kept, Ran
    <3>2. CASE k \in gone
      BY <1>3, <3>1, <3>2 DEF Kept
    <3>3. CASE k \notin gone
      <4>1. d.sp[i].sent[k] = c.sp[i].sent[k] /\ k \in DOMAIN d.sp[i].sent
        BY <1>3, <3>1, <3>3
      <4>2. d.sp[i].sent[k] \in Ran(d.sp[i].sent)
        BY <4>1 DEF Ran
      <4> QED
        BY <3>1, <4>1, <4>2 DEF Kept
    <3> QED
      BY <3>2, <3>3
  <2> QED
    BY <2>1, <2>2
<1> QED
  BY <1>1, <1>2, <1>3

\* A queue that is rewritten in place is a queue.
LEMMA QueueRewritten ==
  ASSUME NEW q, IsQueue(q), NEW m, m = [k \in DOMAIN q |-> m[k]]
  PROVE  IsQueue(m) /\ DOMAIN m = DOMAIN q
<1>1. Len(q) \in Nat /\ DOMAIN q = 1..Len(q)
  BY DEF IsQueue
<1>2. DOMAIN m = 1..Len(q)
  BY <1>1
<1>3. m \in [1..Len(q) -> Ran(m)]
  BY <1>1, <1>2 DEF Ran
<1>4. m \in Seq(Ran(m))
  BY <1>1, <1>3
<1> QED
  BY <1>1, <1>2, <1>4 DEF IsQueue

\* detect_lost_packets() gives the frames of what it declares lost to the space.
LEMMA LostKeeps ==
  ASSUME NEW c, CoreOK(c), NEW i, NEW t
  PROVE  Keeps(c, DetectLost(c, i, t))
<1> DEFINE q == c.sp[i].sent
           d == LossDelay(c.r)
           top == c.sp[i].largest_acked
           behind == {k \in DOMAIN q : q[k].pn <= top /\ Outstanding(q[k])}
           gone == {k \in behind : q[k].time + d <= t \/ q[k].pn + c.r.pkt_thresh <= top}
           new(k) == IF k \in gone THEN [q[k] EXCEPT !.lost = t, !.frames = {}] ELSE q[k]
           marked == [k \in DOMAIN q |-> new(k)]
           more == UNION {q[k].frames : k \in gone}
           lt == MinPresent({q[k].time + d : k \in behind \ gone})
           u == [c.sp[i] EXCEPT !.sent = marked, !.loss_time = lt, !.lost = @ \cup more]
           e == [c EXCEPT !.sp[i] = u]
<1>1. DetectLost(c, i, t) = Landed(e, i, {q[k] : k \in gone})
  BY Zenon DEF DetectLost
<1>g. gone \subseteq DOMAIN q
  OBVIOUS
<1>m. \A k \in gone : q[k].frames \subseteq more
  OBVIOUS
<1> HIDE DEF gone, more, lt
<1>2. i \in SpaceIds => IsQueue(marked) /\ DOMAIN marked = DOMAIN q
  <2>1. marked = [k \in DOMAIN q |-> marked[k]]
    BY Zenon
  <2>2. i \in SpaceIds => IsQueue(q)
    BY DEF CoreOK
  <2> HIDE DEF marked, q
  <2> QED
    BY <2>1, <2>2, QueueRewritten
<1>3. \A k \in DOMAIN q : k \notin gone => marked[k] = q[k]
  BY Zenon
<1> HIDE DEF marked
<1>u. /\ DOMAIN u = DOMAIN c.sp[i]
      /\ i \in SpaceIds => u.sent = marked /\ u.lost = c.sp[i].lost \cup more
  BY DEF CoreOK
<1> HIDE DEF u
<1>4. /\ "sp" \in DOMAIN e /\ DOMAIN e.sp = SpaceIds
      /\ \A j \in SpaceIds : DOMAIN e.sp[j] = DOMAIN c.sp[j]
      /\ \A j \in SpaceIds : j # i => e.sp[j] = c.sp[j]
      /\ i \in SpaceIds => e.sp[i].sent = marked /\ e.sp[i].lost = c.sp[i].lost \cup more
  BY <1>u DEF CoreOK
<1> HIDE DEF e
<1>5. Keeps(c, e)
  <2>1. Rewritten(c, e, i, gone, {})
    BY <1>2, <1>3, <1>4, <1>m DEF Rewritten
  <2>2. /\ CoreOK(e)
        /\ \A j \in SpaceIds : Kept(c, j) \subseteq Kept(e, j) \cup (IF j = i THEN {} ELSE {})
    BY <2>1, RewriteKeeps
  <2> QED
    BY <2>2 DEF Keeps
<1> QED
  BY <1>1, <1>5, LandedSame, KeepsTwice DEF Keeps
\* detect_acked_packets() forgets only the frames of what is newly acknowledged.
LEMMA AckedKeeps ==
  ASSUME NEW c, CoreOK(c), NEW i, NEW S,
         NEW A, A = UNION {c.sp[i].sent[k].frames : k \in NewlyAcked(c, i, S)}
  PROVE  /\ CoreOK(DetectAcked(c, i, S))
         /\ \A j \in SpaceIds :
              Kept(c, j) \subseteq Kept(DetectAcked(c, i, S), j) \cup (IF j = i THEN A ELSE {})
<1> DEFINE q == c.sp[i].sent
           new == NewlyAcked(c, i, S)
           marked == [k \in DOMAIN q |-> IF k \in new THEN [q[k] EXCEPT !.acked = TRUE, !.frames = {}]
                                         ELSE q[k]]
           spurious == Cardinality({k \in new : Present(q[k].lost)})
           e == [c EXCEPT !.sp[i].sent = marked, !.r.pkt_thresh = @ + spurious]
<1>1. DetectAcked(c, i, S) = Landed(e, i, {q[k] : k \in new})
  BY Zenon DEF DetectAcked
<1>m. \A k \in new : q[k].frames \subseteq A
  OBVIOUS
<1> HIDE DEF new, spurious
<1>2. i \in SpaceIds => IsQueue(marked) /\ DOMAIN marked = DOMAIN q
  <2>1. marked = [k \in DOMAIN q |-> marked[k]]
    BY Zenon
  <2>2. i \in SpaceIds => IsQueue(q)
    BY DEF CoreOK
  <2> HIDE DEF marked, q
  <2> QED
    BY <2>1, <2>2, QueueRewritten
<1>3. \A k \in DOMAIN q : k \notin new => marked[k] = q[k]
  BY Zenon
<1> HIDE DEF marked
<1>4. /\ "sp" \in DOMAIN e /\ DOMAIN e.sp = SpaceIds
      /\ \A j \in SpaceIds : DOMAIN e.sp[j] = DOMAIN c.sp[j]
      /\ \A j \in SpaceIds : j # i => e.sp[j] = c.sp[j]
      /\ i \in SpaceIds => e.sp[i].sent = marked /\ e.sp[i].lost = c.sp[i].lost
  BY DEF CoreOK
<1> HIDE DEF e
<1>5. Rewritten(c, e, i, new, A)
  BY <1>2, <1>3, <1>4, <1>m DEF Rewritten
<1>6. /\ CoreOK(e)
      /\ \A j \in SpaceIds : Kept(c, j) \subseteq Kept(e, j) \cup (IF j = i THEN A ELSE {})
  BY <1>5, RewriteKeeps
<1>7. Keeps(e, DetectAcked(c, i, S))
  BY <1>1, <1>6, LandedSame
<1> QED
  BY <1>6, <1>7 DEF Keeps

\* A nonempty set of natural numbers has a least member, which Min finds.
LEMMA MinFinds ==
  ASSUME NEW S, S \subseteq Nat, S # {}
  PROVE  Min(S) \in S /\ \A x \in S : Min(S) <= x
<1> DEFINE R == {ss \in Nat \X Nat : ss[1] < ss[2]}
<1>0. IsWellFoundedOn(R, Nat)
  BY NatLessThanWellFounded DEF OpToRel
<1>1. PICK m \in S : \A y \in S : ~(<<y, m>> \in R)
  BY <1>0, WFMin, Zenon
<1>2. \A y \in S : m <= y
  <2> TAKE y \in S
  <2>1. <<y, m>> \in Nat \X Nat /\ <<y, m>>[1] = y /\ <<y, m>>[2] = m
    OBVIOUS
  <2>2. ~(y < m)
    BY <1>1, <2>1
  <2> QED
    BY <2>2
<1>3. \E x \in S : \A y \in S : x <= y
  BY <1>2
<1> QED
  BY <1>3, Zenon DEF Min

\* drain_sent_packets() takes packets from the front of the queue up to the
\* first one that is outstanding.
LEMMA DrainKeeps ==
  ASSUME NEW c, CoreOK(c), NEW i, NEW t
  PROVE  Keeps(c, DrainSent(c, i, t))
<1> DEFINE q == c.sp[i].sent
           stop == {k \in DOMAIN q : \/ Outstanding(q[k])
                                     \/ Present(q[k].lost) /\ q[k].lost + SmoothedRtt(c.r.rtt) > t}
           first == IF stop = {} THEN Len(q) + 1 ELSE Min(stop)
           rest == SubSeq(q, first, Len(q))
           e == [c EXCEPT !.sp[i].sent = rest]
<1>1. DrainSent(c, i, t) = e
  BY Zenon DEF DrainSent
<1>s. stop \subseteq DOMAIN q /\ \A k \in DOMAIN q : Outstanding(q[k]) => k \in stop
  OBVIOUS
<1> HIDE DEF stop
<1>2. ASSUME i \in SpaceIds
      PROVE  /\ IsQueue(rest)
             /\ \A k \in DOMAIN q : Outstanding(q[k]) => q[k] \in Ran(rest)
  <2>1. q \in Seq(Ran(q)) /\ Len(q) \in Nat /\ DOMAIN q = 1..Len(q)
    BY <1>2 DEF CoreOK, IsQueue
  <2> HIDE DEF q
  <2>2. first \in Nat /\ first >= 1 /\ first <= Len(q) + 1 /\ \A k \in stop : first <= k
    <3>1. CASE stop = {}
      BY <2>1, <3>1
    <3>2. CASE stop # {}
      <4>1. stop \subseteq Nat
        BY <2>1, <1>s
      <4>2. Min(stop) \in stop /\ \A k \in stop : Min(stop) <= k
        BY <4>1, <3>2, MinFinds, Zenon
      <4>3. first = Min(stop)
        BY <3>2
      <4> HIDE DEF first
      <4>4. first \in stop /\ \A k \in stop : first <= k
        BY <4>2, <4>3
      <4>5. first \in 1..Len(q)
        BY <4>4, <1>s, <2>1
      <4> QED
        BY <4>4, <4>5, <2>1
    <3> QED
      BY <3>1, <3>2
  <2> HIDE DEF first
  <2>3. /\ Len(rest) = Len(q) + 1 - first /\ DOMAIN rest = 1..Len(rest) /\ Len(rest) \in Nat
        /\ \A k \in 1..Len(rest) : rest[k] = q[first + k - 1]
    BY <2>1, <2>2
  <2> HIDE DEF rest
  <2>4. IsQueue(rest)
    <3>1. rest \in Seq(Ran(q))
      BY <2>1, <2>2 DEF rest
    <3>2. rest \in [1..Len(rest) -> Ran(rest)]
      BY <2>3, <3>1 DEF Ran
    <3> QED
      BY <3>2, <2>3 DEF IsQueue
  <2>5. ASSUME NEW k \in DOMAIN q, Outstanding(q[k])
        PROVE  q[k] \in Ran(rest)
    <3>1. first <= k /\ k <= Len(q) /\ k \in Nat
      BY <2>1, <2>2, <2>5, <1>s
    <3> DEFINE n == k - first + 1
    <3>a. n \in Nat /\ 1 <= n /\ n <= Len(q) + 1 - first /\ first + n - 1 = k
      BY <2>1, <2>2, <3>1
    <3> HIDE DEF n
    <3>b. n \in 1..Len(rest)
      BY <2>3, <3>a
    <3>2. n \in DOMAIN rest /\ rest[n] = q[k]
      BY <2>3, <3>a, <3>b
    <3> QED
      BY <3>2 DEF Ran
  <2> QED
    BY <2>4, <2>5
<1> HIDE DEF rest
<1>3. /\ "sp" \in DOMAIN e /\ DOMAIN e.sp = SpaceIds
      /\ \A j \in SpaceIds : DOMAIN e.sp[j] = DOMAIN c.sp[j]
      /\ \A j \in SpaceIds : j # i => e.sp[j] = c.sp[j]
      /\ i \in SpaceIds => e.sp[i].sent = rest /\ e.sp[i].lost = c.sp[i].lost
  BY DEF CoreOK
<1> HIDE DEF e
<1>4. CoreOK(e)
  BY <1>2, <1>3 DEF CoreOK
<1>5. ASSUME NEW j \in SpaceIds
      PROVE  Kept(c, j) \subseteq Kept(e, j)
  <2>1. CASE j # i
    BY <1>3, <2>1 DEF Kept
  <2>2. CASE j = i
    <3>1. \A x \in Ran(q) : Outstanding(x) => x \in Ran(rest)
      BY <1>2, <2>2 DEF Ran
    <3> QED
      BY <1>3, <2>2, <3>1 DEF Kept
  <2> QED
    BY <2>1, <2>2
<1> QED
  BY <1>1, <1>4, <1>5 DEF Keeps
-----------------------------------------------------------------------------
\* on_packet_sent() puts the packet at the end of the queue of its space.
LEMMA SentKeeps ==
  ASSUME NEW c, CoreOK(c), NEW i \in SpaceIds, NEW p, NEW h, NEW t
  PROVE  LET d == OnPacketSent(c, i, p, h, t)
         IN  Keeps(c, d) /\ (Outstanding(p) => p.frames \subseteq Kept(d, i))
<1> DEFINE q == c.sp[i].sent
           more == Append(q, p)
           n == IF p.ae THEN 0 ELSE c.sp[i].nonae + 1
           u == [c.sp[i] EXCEPT !.sent = more, !.nonae = n]
           base == [c EXCEPT !.sp[i] = u]
           v == [base.sp[i] EXCEPT !.last_ae = t, !.probes = SatSub(@, 1), !.aeif = @ + 1]
           elicit == [base EXCEPT !.sp[i] = v, !.r.aeif = @ + 1]
           counted == IF p.ae THEN elicit ELSE base
           final == [counted EXCEPT !.sp[i].bif = @ + p.size, !.r.bif = @ + p.size]
<1>0. OnPacketSent(c, i, p, h, t) = IF p.in_flight THEN SetTimer(final, h, t) ELSE base
  BY Zenon DEF OnPacketSent
<1> HIDE DEF final, counted, elicit, v, base, u
<1>1. IsQueue(more) /\ p \in Ran(more) /\ Ran(q) \subseteq Ran(more)
  <2>1. q \in Seq(Ran(q)) /\ Len(q) \in Nat /\ DOMAIN q = 1..Len(q)
    BY DEF CoreOK, IsQueue
  <2> HIDE DEF q
  <2>2. q \in Seq(Ran(q) \cup {p})
    BY <2>1
  <2>3. /\ more \in Seq(Ran(q) \cup {p})
        /\ Len(more) = Len(q) + 1 /\ DOMAIN more = 1..(Len(q) + 1)
        /\ more[Len(q) + 1] = p /\ \A k \in 1..Len(q) : more[k] = q[k]
    BY <2>1, <2>2
  <2> HIDE DEF more
  <2>4. p \in Ran(more)
    BY <2>1, <2>3 DEF Ran
  <2>5. Ran(q) \subseteq Ran(more)
    BY <2>1, <2>3 DEF Ran
  <2>6. more \in [1..Len(more) -> Ran(more)]
    BY <2>1, <2>3 DEF Ran
  <2> QED
    BY <2>1, <2>3, <2>4, <2>5, <2>6 DEF IsQueue
<1> HIDE DEF more, n
<1>u. DOMAIN u = DOMAIN c.sp[i] /\ u.sent = more /\ u.lost = c.sp[i].lost
  BY DEF CoreOK, u
<1>2. /\ "sp" \in DOMAIN base /\ DOMAIN base.sp = SpaceIds
      /\ \A j \in SpaceIds : DOMAIN base.sp[j] = DOMAIN c.sp[j]
      /\ \A j \in SpaceIds : j # i => base.sp[j] = c.sp[j]
      /\ base.sp[i].sent = more /\ base.sp[i].lost = c.sp[i].lost
  BY <1>u DEF CoreOK, base
<1>4. CoreOK(base)
  BY <1>1, <1>2 DEF CoreOK
<1>5. Keeps(c, base) /\ (Outstanding(p) => p.frames \subseteq Kept(base, i))
  <2>1. ASSUME NEW j \in SpaceIds
        PROVE  Kept(c, j) \subseteq Kept(base, j)
    <3>1. CASE j # i
      BY <1>2, <3>1 DEF Kept
    <3>2. CASE j = i
      BY <1>1, <1>2, <3>2 DEF Kept
    <3> QED
      BY <3>1, <3>2
  <2>2. Outstanding(p) => p.frames \subseteq Kept(base, i)
    BY <1>1, <1>2 DEF Kept
  <2> QED
    BY <1>4, <2>1, <2>2 DEF Keeps
<1>6. Keeps(base, elicit)
  <2>v. /\ DOMAIN v = DOMAIN base.sp[i]
        /\ v.sent = base.sp[i].sent /\ v.lost = base.sp[i].lost
    BY <1>4 DEF CoreOK, v
  <2>1. /\ "sp" \in DOMAIN elicit /\ DOMAIN elicit.sp = SpaceIds
        /\ \A j \in SpaceIds : /\ DOMAIN elicit.sp[j] = DOMAIN base.sp[j]
                               /\ elicit.sp[j].sent = base.sp[j].sent
                               /\ elicit.sp[j].lost = base.sp[j].lost
    BY <1>4, <2>v DEF CoreOK, elicit
  <2>2. CoreOK(elicit)
    BY <1>4, <2>1 DEF CoreOK
  <2> QED
    BY <2>1, <2>2, SameKeeps DEF SameData
<1>7. Keeps(base, counted)
  BY <1>4, <1>6, SameKeeps DEF SameData, counted
<1>8. Keeps(counted, final)
  <2>0. CoreOK(counted)
    BY <1>7 DEF Keeps
  <2>1. /\ "sp" \in DOMAIN final /\ DOMAIN final.sp = SpaceIds
        /\ \A j \in SpaceIds : /\ DOMAIN final.sp[j] = DOMAIN counted.sp[j]
                               /\ final.sp[j].sent = counted.sp[j].sent
                               /\ final.sp[j].lost = counted.sp[j].lost
    BY <2>0 DEF CoreOK, final
  <2>2. CoreOK(final)
    BY <2>0, <2>1 DEF CoreOK
  <2> QED
    BY <2>1, <2>2, SameKeeps DEF SameData
<1>10. Keeps(base, OnPacketSent(c, i, p, h, t))
  <2>1. Keeps(base, final) /\ Keeps(final, SetTimer(final, h, t))
    BY <1>7, <1>8, KeepsTwice, TimerSame DEF Keeps
  <2>2. Keeps(base, SetTimer(final, h, t))
    BY <2>1, KeepsTwice
  <2>3. Keeps(base, base)
    BY <1>4 DEF Keeps
  <2> QED
    BY <1>0, <2>2, <2>3
<1> DEFINE d == OnPacketSent(c, i, p, h, t)
<1> HIDE DEF d
<1>11. Keeps(c, d)
  BY <1>5, <1>10, KeepsTwice DEF d
<1>12. Kept(base, i) \subseteq Kept(d, i)
  BY <1>10 DEF Keeps, d
<1> QED
  BY <1>5, <1>11, <1>12 DEF d

\* on_pkt_num_space_discarded() forgets nothing of the other spaces.
LEMMA DiscardKeeps ==
  ASSUME NEW c, CoreOK(c), NEW i \in SpaceIds, NEW h, NEW t
  PROVE  LET d == OnDiscarded(c, i, h, t)
         IN  CoreOK(d) /\ \A j \in SpaceIds \ {i} : Kept(c, j) \subseteq Kept(d, j)
<1> DEFINE P == {p \in Ran(c.sp[i].sent) : p.in_flight /\ Outstanding(p)}
           sz == Sizes(P)
           ae == Cardinality({p \in P : p.ae})
           out == [c EXCEPT !.r = [c.r EXCEPT !.bif = SatSub(@, sz), !.aeif = SatSub(@, ae)],
                            !.sp[i] = [c.sp[i] EXCEPT !.sent = <<>>, !.lost = {}, !.last_ae = Absent,
                                                      !.loss_time = Absent, !.probes = 0, !.bif = 0,
                                                      !.aeif = 0]]
<1>1. OnDiscarded(c, i, h, t) = SetTimer(out, h, t)
  BY Zenon DEF OnDiscarded
<1> HIDE DEF sz, ae
<1>2. /\ "sp" \in DOMAIN out /\ DOMAIN out.sp = SpaceIds
      /\ \A j \in SpaceIds : DOMAIN out.sp[j] = DOMAIN c.sp[j]
      /\ \A j \in SpaceIds : j # i => out.sp[j] = c.sp[j]
      /\ out.sp[i].sent = <<>>
  BY DEF CoreOK
<1> HIDE DEF out
<1>3. IsQueue(<<>>)
  BY DEF IsQueue
<1>4. CoreOK(out)
  BY <1>2, <1>3 DEF CoreOK
<1>5. \A j \in SpaceIds \ {i} : Kept(c, j) \subseteq Kept(out, j)
  BY <1>2 DEF Kept
<1> QED
  BY <1>1, <1>4, <1>5, TimerSame DEF Keeps
\* on_ack_received() forgets only the frames of what is newly acknowledged.
LEMMA AckKeeps ==
  ASSUME NEW c, CoreOK(c), NEW i \in SpaceIds, NEW S, NEW delay, NEW h, NEW t,
         NEW A, A = UNION {c.sp[i].sent[k].frames : k \in NewlyAcked(c, i, S)}
  PROVE  LET d == OnAckReceived(c, i, S, delay, h, t)
         IN  /\ CoreOK(d)
             /\ \A j \in SpaceIds : Kept(c, j) \subseteq Kept(d, j) \cup (IF j = i THEN A ELSE {})
<1> DEFINE top == c.sp[i].largest_acked
           most == IF top = NoPkt THEN Max(S) ELSE AtLeast(top, Max(S))
           seen == [c EXCEPT !.sp[i].largest_acked = most]
           new == NewlyAcked(c, i, S)
           last == c.sp[i].sent[Max(new)]
           rtt == t - last.time
           sampled == /\ last.pn = seen.sp[i].largest_acked
                      /\ \E k \in new : c.sp[i].sent[k].ae
                      /\ rtt > 0
           ack_delay == IF h.completed THEN AtMost(delay, MaxAckDelay) ELSE delay
           got == DetectAcked(seen, i, S)
           measured == IF sampled THEN [got EXCEPT !.r.rtt = RttUpdate(@, ack_delay, rtt)] ELSE got
           lost == DetectLost(measured, i, t)
           drained == DrainSent(lost, i, t)
           reset == [drained EXCEPT !.r.pto_count = 0]
           d == OnAckReceived(c, i, S, delay, h, t)
<1>1. d = IF new = {} THEN seen ELSE SetTimer(reset, h, t)
  BY Zenon DEF OnAckReceived
<1> HIDE DEF d, most
<1>2. CoreOK(seen) /\ SameData(c, seen)
  <2>1. /\ "sp" \in DOMAIN seen /\ DOMAIN seen.sp = SpaceIds
        /\ \A j \in SpaceIds : /\ DOMAIN seen.sp[j] = DOMAIN c.sp[j]
                               /\ seen.sp[j].sent = c.sp[j].sent
                               /\ seen.sp[j].lost = c.sp[j].lost
    BY DEF CoreOK
  <2> HIDE DEF seen
  <2> QED
    BY <2>1 DEF CoreOK, SameData
<1> HIDE DEF seen
<1>3. Keeps(c, seen)
  BY <1>2, SameKeeps
<1>4. A = UNION {seen.sp[i].sent[k].frames : k \in NewlyAcked(seen, i, S)}
  BY <1>2 DEF SameData, NewlyAcked
<1>5. /\ CoreOK(got)
      /\ \A j \in SpaceIds : Kept(seen, j) \subseteq Kept(got, j) \cup (IF j = i THEN A ELSE {})
  BY <1>2, <1>4, AckedKeeps, Zenon
<1> HIDE DEF got, sampled
<1>6. Keeps(got, measured)
  <2> DEFINE u == RttUpdate(got.r.rtt, ack_delay, rtt)
             m == [got EXCEPT !.r.rtt = u]
  <2>1. m = [got EXCEPT !.r = [got.r EXCEPT !.rtt = u]]
    OBVIOUS
  <2>2. measured = IF sampled THEN m ELSE got
    BY Zenon
  <2> HIDE DEF u, m, measured
  <2>3. CoreOK(m) /\ SameData(got, m)
    BY <2>1, <1>5, PathOnly
  <2>4. Keeps(got, m) /\ Keeps(got, got)
    BY <2>3, <1>5, SameKeeps DEF SameData
  <2> QED
    BY <2>2, <2>4
<1> HIDE DEF measured
<1>7. Keeps(measured, lost)
  BY <1>6, LostKeeps DEF Keeps
<1> HIDE DEF lost
<1>8. Keeps(lost, drained)
  BY <1>7, DrainKeeps DEF Keeps
<1> HIDE DEF drained
<1>9. Keeps(drained, reset)
  <2> DEFINE v == [drained.r EXCEPT !.pto_count = 0]
  <2>1. reset = [drained EXCEPT !.r = v]
    OBVIOUS
  <2> HIDE DEF v, reset
  <2>2. CoreOK(drained)
    BY <1>8 DEF Keeps
  <2> QED
    BY <2>1, <2>2, PathOnly, SameKeeps
<1> HIDE DEF reset
<1>10. Keeps(reset, SetTimer(reset, h, t))
  BY <1>9, TimerSame DEF Keeps
<1>11. Keeps(got, SetTimer(reset, h, t))
  <2>1. Keeps(got, lost)
    BY <1>6, <1>7, KeepsTwice
  <2>2. Keeps(got, drained)
    BY <2>1, <1>8, KeepsTwice
  <2>3. Keeps(got, reset)
    BY <2>2, <1>9, KeepsTwice
  <2> QED
    BY <2>3, <1>10, KeepsTwice
<1>12. CASE new = {}
  BY <1>1, <1>3, <1>12 DEF Keeps, d
<1>13. CASE new # {}
  <2>1. d = SetTimer(reset, h, t)
    BY <1>1, <1>13
  <2>2. CoreOK(d) /\ \A j \in SpaceIds : Kept(got, j) \subseteq Kept(d, j)
    BY <1>11, <2>1 DEF Keeps
  <2>3. \A j \in SpaceIds : Kept(c, j) \subseteq Kept(seen, j)
    BY <1>3 DEF Keeps
  <2>4. \A j \in SpaceIds : Kept(c, j) \subseteq Kept(d, j) \cup (IF j = i THEN A ELSE {})
    BY <1>5, <2>2, <2>3
  <2> QED
    BY <2>2, <2>4 DEF d
<1> QED
  BY <1>12, <1>13

\* on_loss_detection_timeout() forgets nothing: it declares packets lost or
\* queues the data of the oldest ones again.
LEMMA TimeoutKeeps ==
  ASSUME NEW c, CoreOK(c), NEW h, NEW t
  PROVE  Keeps(c, OnTimeout(c, h, t))
<1> DEFINE i == LossSpace(c)
           j == IF c.r.aeif > 0 THEN PtoTimeAndSpace(c, h, t)[2]
                ELSE IF h.derived THEN "Handshake" ELSE "Initial"
           probes == IF j = "Data" THEN AtMost(c.r.pto_count + 1, MaxProbes) ELSE 1
           q == SelectSeq(c.sp[j].sent, LAMBDA p : p.has_data /\ Outstanding(p))
           oldest == {q[k] : k \in 1..AtMost(probes, Len(q))}
           again == c.sp[j].lost \cup UNION {p.frames : p \in oldest}
           lost == DetectLost(c, i, t)
           drained == DrainSent(lost, i, t)
           u == [c.sp[j] EXCEPT !.probes = probes, !.lost = again]
           probed == [c EXCEPT !.r.pto_count = @ + 1, !.sp[j] = u]
<1>1. OnTimeout(c, h, t) = IF Present(LossTime(c)) THEN SetTimer(drained, h, t)
                           ELSE SetTimer(probed, h, t)
  BY Zenon DEF OnTimeout
<1>0. c.sp[j].lost \subseteq again
  BY Zenon
<1> HIDE DEF i, j, probes, again
<1>2. Keeps(c, lost)
  BY LostKeeps
<1> HIDE DEF lost
<1>3. Keeps(lost, drained)
  BY <1>2, DrainKeeps DEF Keeps
<1> HIDE DEF drained
<1>4. Keeps(c, probed)
  <2>u. /\ DOMAIN u = DOMAIN c.sp[j] /\ u.sent = c.sp[j].sent
        /\ j \in SpaceIds => c.sp[j].lost \subseteq u.lost
    BY <1>0 DEF CoreOK
  <2> HIDE DEF u
  <2>1. /\ "sp" \in DOMAIN probed /\ DOMAIN probed.sp = SpaceIds
        /\ \A k \in SpaceIds : /\ DOMAIN probed.sp[k] = DOMAIN c.sp[k]
                               /\ probed.sp[k].sent = c.sp[k].sent
                               /\ c.sp[k].lost \subseteq probed.sp[k].lost
    BY <2>u DEF CoreOK
  <2> HIDE DEF probed
  <2>2. CoreOK(probed)
    BY <2>1 DEF CoreOK
  <2>3. \A k \in SpaceIds : Kept(c, k) \subseteq Kept(probed, k)
    BY <2>1 DEF Kept
  <2> QED
    BY <2>2, <2>3 DEF Keeps
<1> HIDE DEF probed
<1>5. Keeps(c, drained)
  BY <1>2, <1>3, KeepsTwice
<1>6. Keeps(drained, SetTimer(drained, h, t)) /\ Keeps(probed, SetTimer(probed, h, t))
  BY <1>4, <1>5, TimerSame DEF Keeps
<1>7. Keeps(c, SetTimer(drained, h, t)) /\ Keeps(c, SetTimer(probed, h, t))
  BY <1>4, <1>5, <1>6, KeepsTwice
<1> QED
  BY <1>1, <1>7
-----------------------------------------------------------------------------
(* The invariant: the property itself, with the shape of the state.         *)

RecInv ==
  /\ CoreOK(core)
  /\ DOMAIN started = SpaceIds /\ DOMAIN resend = SpaceIds /\ DOMAIN acked = SpaceIds
  /\ NothingForgotten

\* What the property says, in terms of Kept.
LEMMA ForgottenIs ==
  NothingForgotten <=> \A j \in SpaceIds \ dropped :
                         started[j] \subseteq acked[j] \cup resend[j] \cup Kept(core, j)
BY DEF NothingForgotten, Tracked, Kept

\* process_all_lost_frames() and the end of send_packet(): the packet is
\* tracked, and the lost frames alone leave the spaces.
LEMMA TransmitKeeps ==
  ASSUME CoreOK(core), NEW i \in SpaceIds, NEW ae, NEW in_flight, NEW frames,
         Transmit(i, ae, in_flight, frames)
  PROVE  /\ CoreOK(core') /\ acked' = acked /\ dropped \subseteq dropped' /\ i \notin dropped'
         /\ frames \subseteq Kept(core', i)
         /\ \A j \in SpaceIds \ dropped' : Kept(core, j) \subseteq Kept(core', j) \cup core.sp[j].lost
<1> DEFINE p == [pn |-> core.sp[i].next, time |-> clock, acked |-> FALSE, lost |-> Absent,
                 size |-> 1, ae |-> ae, in_flight |-> in_flight, frames |-> frames,
                 has_data |-> frames # {}]
           sent == OnPacketSent(NoneLost, i, p, hs, clock)
           out == [sent EXCEPT !.sp[i].next = @ + 1]
           drop == ~hs.is_server /\ i = "Handshake" /\ "Initial" \notin dropped
<1>1. /\ i \notin dropped /\ acked' = acked
      /\ core' = IF drop THEN OnDiscarded(out, "Initial", hs, clock) ELSE out
      /\ dropped' = IF drop THEN dropped \cup {"Initial"} ELSE dropped
  BY Zenon DEF Transmit, HasKeys
<1>2. drop => i = "Handshake"
  OBVIOUS
<1>3. Outstanding(p) /\ p.frames = frames
  BY DEF Outstanding, Present
<1> HIDE DEF p, drop
<1>4. /\ CoreOK(NoneLost)
      /\ \A j \in SpaceIds : Kept(core, j) \subseteq Kept(NoneLost, j) \cup core.sp[j].lost
  <2>1. /\ "sp" \in DOMAIN NoneLost /\ DOMAIN NoneLost.sp = SpaceIds
        /\ \A j \in SpaceIds : DOMAIN NoneLost.sp[j] = DOMAIN core.sp[j]
        /\ \A j \in SpaceIds : NoneLost.sp[j].sent = core.sp[j].sent
    BY DEF CoreOK, NoneLost
  <2>2. CoreOK(NoneLost)
    BY <2>1 DEF CoreOK
  <2> QED
    BY <2>1, <2>2 DEF Kept
<1>5. Keeps(NoneLost, sent) /\ frames \subseteq Kept(sent, i)
  BY <1>3, <1>4, SentKeeps
<1> HIDE DEF sent
<1>6. Keeps(sent, out)
  <2>0. CoreOK(sent)
    BY <1>5 DEF Keeps
  <2>1. /\ "sp" \in DOMAIN out /\ DOMAIN out.sp = SpaceIds
        /\ \A j \in SpaceIds : /\ DOMAIN out.sp[j] = DOMAIN sent.sp[j]
                               /\ out.sp[j].sent = sent.sp[j].sent
                               /\ out.sp[j].lost = sent.sp[j].lost
    BY <2>0 DEF CoreOK
  <2> HIDE DEF out
  <2>2. CoreOK(out)
    BY <2>0, <2>1 DEF CoreOK
  <2> QED
    BY <2>1, <2>2, SameKeeps DEF SameData
<1> HIDE DEF out
<1>7. /\ CoreOK(out) /\ frames \subseteq Kept(out, i)
      /\ \A j \in SpaceIds : Kept(core, j) \subseteq Kept(out, j) \cup core.sp[j].lost
  BY <1>4, <1>5, <1>6 DEF Keeps
<1>8. "Initial" \in SpaceIds
  BY SpacesAre
<1>9. CASE drop
  <2>1. /\ CoreOK(core')
        /\ \A j \in SpaceIds \ {"Initial"} : Kept(out, j) \subseteq Kept(core', j)
    BY <1>1, <1>7, <1>8, <1>9, DiscardKeeps
  <2> QED
    BY <1>1, <1>2, <1>7, <1>9, <2>1
<1>10. CASE ~drop
  BY <1>1, <1>7, <1>10
<1> QED
  BY <1>9, <1>10

\* send_packet() with a frame of data keeps the invariant.
LEMMA SendDataInv ==
  ASSUME RecInv, NEW i \in SpaceIds, SendData(i)
  PROVE  RecInv'
<1>1. PICK f : /\ f \in Held[i] \cup (DataFrames[i] \ started[i])
               /\ started' = [started EXCEPT ![i] = @ \cup {f}]
               /\ Transmit(i, TRUE, TRUE, {f})
               /\ resend' = [Held EXCEPT ![i] = @ \ {f}]
  BY Zenon DEF SendData
<1>3. /\ CoreOK(core') /\ acked' = acked /\ dropped \subseteq dropped' /\ i \notin dropped'
      /\ {f} \subseteq Kept(core', i)
      /\ \A j \in SpaceIds \ dropped' : Kept(core, j) \subseteq Kept(core', j) \cup core.sp[j].lost
  BY <1>1, TransmitKeeps, ZenonT(30) DEF RecInv
<1>4. DOMAIN started' = SpaceIds /\ DOMAIN resend' = SpaceIds /\ DOMAIN acked' = SpaceIds
  BY <1>1, <1>3 DEF RecInv, Held
<1>5. \A j \in SpaceIds : /\ started'[j] = IF j = i THEN started[j] \cup {f} ELSE started[j]
                          /\ resend'[j] = IF j = i THEN Held[j] \ {f} ELSE Held[j]
                          /\ Held[j] = (resend[j] \cup core.sp[j].lost) \ acked[j]
  BY <1>1, Zenon DEF RecInv, Held
<1>6. \A j \in SpaceIds \ dropped : started[j] \subseteq acked[j] \cup resend[j] \cup Kept(core, j)
  BY ForgottenIs DEF RecInv
<1>7. \A j \in SpaceIds \ dropped' :
        started'[j] \subseteq acked'[j] \cup resend'[j] \cup Kept(core', j)
  <2> TAKE j \in SpaceIds \ dropped'
  <2>1. /\ started[j] \subseteq acked[j] \cup resend[j] \cup Kept(core, j)
        /\ Kept(core, j) \subseteq Kept(core', j) \cup core.sp[j].lost
        /\ acked'[j] = acked[j]
    BY <1>3, <1>6
  <2>2. CASE j = i
    <3>1. /\ started'[j] = started[j] \cup {f} /\ f \in Kept(core', j)
          /\ resend'[j] = ((resend[j] \cup core.sp[j].lost) \ acked[j]) \ {f}
      BY <1>3, <1>5, <2>2, Zenon
    <3> QED
      BY <2>1, <3>1
  <2>3. CASE j # i
    BY <1>5, <2>1, <2>3, Zenon
  <2> QED
    BY <2>2, <2>3
<1>8. NothingForgotten'
  BY <1>7 DEF NothingForgotten, Tracked, Kept
<1> QED
  BY <1>3, <1>4, <1>8 DEF RecInv

\* A packet without data keeps the invariant.
LEMMA SendOtherInv ==
  ASSUME RecInv, NEW i \in SpaceIds, NEW ae, NEW in_flight, Transmit(i, ae, in_flight, {}),
         resend' = Held, started' = started
  PROVE  RecInv'
<1>3. /\ CoreOK(core') /\ acked' = acked /\ dropped \subseteq dropped'
      /\ \A j \in SpaceIds \ dropped' : Kept(core, j) \subseteq Kept(core', j) \cup core.sp[j].lost
  BY TransmitKeeps DEF RecInv
<1>4. DOMAIN started' = SpaceIds /\ DOMAIN resend' = SpaceIds /\ DOMAIN acked' = SpaceIds
  BY <1>3 DEF RecInv, Held
<1>5. \A j \in SpaceIds : resend'[j] = (resend[j] \cup core.sp[j].lost) \ acked[j]
  BY DEF RecInv, Held
<1>6. \A j \in SpaceIds \ dropped : started[j] \subseteq acked[j] \cup resend[j] \cup Kept(core, j)
  BY ForgottenIs DEF RecInv
<1>7. \A j \in SpaceIds \ dropped' :
        started'[j] \subseteq acked'[j] \cup resend'[j] \cup Kept(core', j)
  BY <1>3, <1>5, <1>6
<1>8. NothingForgotten'
  BY <1>7 DEF NothingForgotten, Tracked, Kept
<1> QED
  BY <1>3, <1>4, <1>8 DEF RecInv
\* A step that discards a space keeps the invariant.
LEMMA DiscardInv ==
  ASSUME RecInv, NEW i \in SpaceIds, NEW h, core' = OnDiscarded(core, i, h, clock),
         dropped' = dropped \cup {i}, resend' = [resend EXCEPT ![i] = {}],
         started' = started, acked' = acked
  PROVE  RecInv'
<1>1. CoreOK(core') /\ \A j \in SpaceIds \ {i} : Kept(core, j) \subseteq Kept(core', j)
  BY DiscardKeeps DEF RecInv
<1>2. DOMAIN resend' = SpaceIds /\ \A j \in SpaceIds \ {i} : resend'[j] = resend[j]
  BY DEF RecInv
<1>3. \A j \in SpaceIds \ dropped : started[j] \subseteq acked[j] \cup resend[j] \cup Kept(core, j)
  BY ForgottenIs DEF RecInv
<1>4. \A j \in SpaceIds \ dropped' :
        started'[j] \subseteq acked'[j] \cup resend'[j] \cup Kept(core', j)
  BY <1>1, <1>2, <1>3
<1>5. NothingForgotten'
  BY <1>4 DEF NothingForgotten, Tracked, Kept
<1> QED
  BY <1>1, <1>2, <1>5 DEF RecInv

\* The ACK frame of recv_frame() keeps the invariant.
LEMMA AckFrameInv ==
  ASSUME RecInv, NEW i \in SpaceIds, AckFrame(i)
  PROVE  RecInv'
<1>1. PICK S, delay, h, done :
        LET got == OnAckReceived(core, i, S, delay, h, clock)
        IN  /\ core' = IF done THEN OnDiscarded(got, "Handshake", h, clock) ELSE got
            /\ dropped' = IF done THEN dropped \cup {"Handshake"} ELSE dropped
            /\ acked' = [acked EXCEPT ![i] = @ \cup UNION {core.sp[i].sent[k].frames :
                                                             k \in NewlyAcked(core, i, S)}]
            /\ resend' = [resend EXCEPT !["Handshake"] = IF done THEN {} ELSE @]
            /\ started' = started
  BY ZenonT(30) DEF AckFrame
<1> DEFINE A == UNION {core.sp[i].sent[k].frames : k \in NewlyAcked(core, i, S)}
           got == OnAckReceived(core, i, S, delay, h, clock)
<1>2. /\ core' = IF done THEN OnDiscarded(got, "Handshake", h, clock) ELSE got
      /\ dropped' = IF done THEN dropped \cup {"Handshake"} ELSE dropped
      /\ acked' = [acked EXCEPT ![i] = @ \cup A]
      /\ resend' = [resend EXCEPT !["Handshake"] = IF done THEN {} ELSE @]
      /\ started' = started
  BY <1>1, Zenon
<1>3. /\ CoreOK(got)
      /\ \A j \in SpaceIds : Kept(core, j) \subseteq Kept(got, j) \cup (IF j = i THEN A ELSE {})
  BY AckKeeps, Zenon DEF RecInv
<1> HIDE DEF A, got
<1>4. "Handshake" \in SpaceIds
  BY SpacesAre
<1>5. /\ CoreOK(core')
      /\ \A j \in SpaceIds \ dropped' : Kept(got, j) \subseteq Kept(core', j)
      /\ \A j \in SpaceIds \ dropped' : j \notin dropped /\ resend'[j] = resend[j]
  <2>1. CASE done
    <3>1. /\ CoreOK(core')
          /\ \A j \in SpaceIds \ {"Handshake"} : Kept(got, j) \subseteq Kept(core', j)
      BY <1>2, <1>3, <1>4, <2>1, DiscardKeeps
    <3>2. \A j \in SpaceIds \ {"Handshake"} : resend'[j] = resend[j]
      BY <1>2 DEF RecInv
    <3> QED
      BY <1>2, <2>1, <3>1, <3>2
  <2>2. CASE ~done
    <3>1. \A j \in SpaceIds : resend'[j] = resend[j]
      BY <1>2, <2>2 DEF RecInv
    <3> QED
      BY <1>2, <1>3, <2>2, <3>1
  <2> QED
    BY <2>1, <2>2
<1>6. /\ DOMAIN resend' = SpaceIds /\ DOMAIN acked' = SpaceIds
      /\ \A j \in SpaceIds : acked'[j] = IF j = i THEN acked[j] \cup A ELSE acked[j]
  BY <1>2, Zenon DEF RecInv
<1>7. \A j \in SpaceIds \ dropped : started[j] \subseteq acked[j] \cup resend[j] \cup Kept(core, j)
  BY ForgottenIs DEF RecInv
<1>8. \A j \in SpaceIds \ dropped' :
        started'[j] \subseteq acked'[j] \cup resend'[j] \cup Kept(core', j)
  <2> TAKE j \in SpaceIds \ dropped'
  <2>1. /\ started[j] \subseteq acked[j] \cup resend[j] \cup Kept(core, j)
        /\ Kept(got, j) \subseteq Kept(core', j) /\ resend'[j] = resend[j] /\ started' = started
    BY <1>2, <1>5, <1>7
  <2>2. acked[j] \subseteq acked'[j] /\ Kept(core, j) \subseteq Kept(got, j) \cup acked'[j]
    BY <1>3, <1>6
  <2> QED
    BY <2>1, <2>2
<1>9. NothingForgotten'
  BY <1>8 DEF NothingForgotten, Tracked, Kept
<1> QED
  BY <1>2, <1>5, <1>6, <1>9 DEF RecInv

\* Every step of the recovery keeps the invariant.
LEMMA RecNextInv ==
  ASSUME RecInv, [RecNext]_recVars
  PROVE  RecInv'
<1>1. ASSUME NEW i \in SpaceIds, SendData(i)
      PROVE  RecInv'
  BY <1>1, SendDataInv
<1>2. ASSUME NEW i \in SpaceIds, SendPing(i)
      PROVE  RecInv'
  <2>1. Transmit(i, TRUE, TRUE, {}) /\ resend' = Held /\ started' = started
    BY <1>2, Zenon DEF SendPing
  <2> QED
    BY <2>1, SendOtherInv, Zenon
<1>3. ASSUME NEW i \in SpaceIds, SendAck(i)
      PROVE  RecInv'
  <2>1. PICK padded : Transmit(i, FALSE, padded, {}) /\ resend' = Held /\ started' = started
    BY <1>3, Zenon DEF SendAck
  <2> QED
    BY <2>1, SendOtherInv, Zenon
<1>4. ASSUME NEW i \in SpaceIds, AckFrame(i)
      PROVE  RecInv'
  BY <1>4, AckFrameInv
<1>5. ASSUME NEW i \in {"Initial", "Handshake"}, DropSpace(i)
      PROVE  RecInv'
  <2>1. /\ core' = OnDiscarded(core, i, hs', clock) /\ dropped' = dropped \cup {i}
        /\ resend' = [resend EXCEPT ![i] = {}] /\ started' = started /\ acked' = acked
    BY <1>5, Zenon DEF DropSpace
  <2>2. i \in SpaceIds
    BY SpacesAre
  <2> QED
    BY <2>1, <2>2, DiscardInv, Zenon
<1>6. CASE LossTimeout
  <2>1. /\ core' = OnTimeout(core, hs, clock) /\ dropped' = dropped
        /\ resend' = resend /\ started' = started /\ acked' = acked
    BY <1>6, Zenon DEF LossTimeout
  <2>2. Keeps(core, core')
    BY <2>1, TimeoutKeeps DEF RecInv
  <2>3. \A j \in SpaceIds \ dropped : started[j] \subseteq acked[j] \cup resend[j] \cup Kept(core, j)
    BY ForgottenIs DEF RecInv
  <2>4. \A j \in SpaceIds \ dropped' :
          started'[j] \subseteq acked'[j] \cup resend'[j] \cup Kept(core', j)
    BY <2>1, <2>2, <2>3 DEF Keeps
  <2>5. NothingForgotten'
    BY <2>4 DEF NothingForgotten, Tracked, Kept
  <2> QED
    BY <2>1, <2>2, <2>5 DEF RecInv, Keeps
<1>7. CASE ServerCompletes
  <2>1. PICK h : /\ core' = OnDiscarded(core, "Handshake", h, clock)
                 /\ dropped' = dropped \cup {"Handshake"}
                 /\ resend' = [resend EXCEPT !["Handshake"] = {}]
                 /\ started' = started /\ acked' = acked
    BY <1>7, Zenon DEF ServerCompletes
  <2>2. "Handshake" \in SpaceIds
    BY SpacesAre
  <2> QED
    BY <2>1, <2>2, DiscardInv, Zenon
<1>8. CASE UNCHANGED <<core, started, resend, acked, dropped>>
  BY <1>8 DEF RecInv, CoreOK, NothingForgotten, Tracked
<1>9. CASE Deliver \/ Lose \/ HandshakeStep \/ Tick \/ UNCHANGED recVars
  BY <1>8, <1>9, Zenon DEF Deliver, Lose, HandshakeStep, Tick, recVars
<1> QED
  BY <1>1, <1>2, <1>3, <1>4, <1>5, <1>6, <1>7, <1>9 DEF RecNext

\* Before the first packet there is nothing to forget.
LEMMA RecInitInv == RecInit => RecInv
<1> SUFFICES ASSUME RecInit PROVE RecInv
  OBVIOUS
<1>1. /\ core = [r |-> NewRecovery, sp |-> [i \in SpaceIds |-> NewSpace]]
      /\ started = [i \in SpaceIds |-> {}] /\ resend = [i \in SpaceIds |-> {}]
      /\ acked = [i \in SpaceIds |-> {}]
  BY DEF RecInit
<1>2. "sp" \in DOMAIN core /\ core.sp = [i \in SpaceIds |-> NewSpace]
  BY <1>1
<1>3. {"sent", "lost"} \subseteq DOMAIN NewSpace /\ NewSpace.sent = <<>>
  BY DEF NewSpace
<1>4. IsQueue(<<>>)
  BY DEF IsQueue
<1>5. CoreOK(core)
  BY <1>2, <1>3, <1>4 DEF CoreOK
<1>6. NothingForgotten
  BY <1>1 DEF NothingForgotten
<1> QED
  BY <1>1, <1>5, <1>6 DEF RecInv

\* The invariant of the recovery holds in every reachable state.
LEMMA RecInvHolds == RecSpec => []RecInv
BY RecInitInv, RecNextInv, PTL DEF RecSpec

\* Data that was sent and not acknowledged is never forgotten: for any frames,
\* thresholds and timeouts, whatever is acknowledged in whatever order, also
\* after it was declared lost, and however often the timer fires, it is in a
\* packet tracked as outstanding or waits to be sent again, until its space is
\* discarded. (on_ack_received, detect_lost_packets, drain_sent_packets,
\* on_loss_detection_timeout)
THEOREM DataNeverForgotten == RecSpec => []NothingForgotten
<1>1. RecInv => NothingForgotten
  BY DEF RecInv
<1> QED
  BY <1>1, RecInvHolds, PTL

=============================================================================
