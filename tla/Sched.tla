------------------------------- MODULE Sched --------------------------------
(***************************************************************************)
(* The multipath schedulers (multipath_scheduler/) and the part of the     *)
(* connection that asks them (select_send_path, try_write_buffered_frames, *)
(* try_write_stream_frames).  Stream data is a sequence of frames of one   *)
(* unit; a packet holds `room` of them.  Paths go, and open and close      *)
(* their congestion windows at any time; frames are acknowledged.          *)
(***************************************************************************)
EXTENDS Util, FiniteSetsExt, SequencesExt

CONSTANTS
    ScModes,     \* [algo, paths, room, frames]: an algorithm; the paths' srtt, cwnd and
                 \* bytes in flight; frames that fit a packet; bound: frames of stream data
    ScLambda,    \* blest_lambda, in percent
    ScInitRtt, ScInitCwnd,   \* of a new path
    ScEvents     \* bound: changes of the paths and acknowledgements

VARIABLE sc

scVars == <<sc>>

ScInit ==
    \E m \in ScModes :
        sc = [algo |-> m.algo, room |-> m.room, frames |-> m.frames, path |-> m.paths,
              last |-> Absent, counter |-> 0,
              buffered |-> [p \in DOMAIN m.paths |-> <<>>], fresh |-> 0, acked |-> {}, events |-> 0,
              sent |-> [p \in DOMAIN m.paths |-> <<>>], picks |-> <<>>]

Pids == DOMAIN sc.path

\* active(), not abandoned, and recovery.can_send()
Eligible(path) == {p \in DOMAIN path : path[p].active /\ path[p].open}

\* The first of the paths, in the order of the slab, with the least of these values.
Least(value) ==
    CHOOSE p \in DOMAIN value :
        \A q \in DOMAIN value : value[p] < value[q] \/ (value[p] = value[q] /\ p <= q)

MinRttSelect(path) == Least([p \in Eligible(path) |-> path[p].srtt])

RedundantSelect(path) == Min(Eligible(path))

\* The paths after the last one used, then all of them.
MRoundRobinSelect(path, last) == Min(Eligible(path))

RoundRobinSelect(path, last) ==
    LET after == {p \in Eligible(path) : p > last}
    IN  IF last \in DOMAIN path /\ after # {} THEN Min(after) ELSE Min(Eligible(path))

Weight(r) == IF r.srtt = 0 THEN r.cwnd ELSE (r.cwnd * 1000) \div r.srtt

Weighted(path) == {p \in Eligible(path) : Weight(path[p]) > 0}

Normalized(path, p) ==
    LET least == Min({Weight(path[q]) : q \in Weighted(path)})
    IN  AtLeast(Weight(path[p]) \div AtLeast(least, 1), 1)

Accumulated(path, p) ==
    MapThenSumSet(LAMBDA q : Normalized(path, q), {q \in Weighted(path) : q <= p})

TotalWeight(path) == Accumulated(path, Max(Weighted(path)))

WeightedSelect(path, counter) ==
    Min({p \in Weighted(path) : counter % TotalWeight(path) < Accumulated(path, p)})

CompletionTime(r) ==
    LET bandwidth == (r.cwnd * 1000) \div r.srtt
    IN  IF r.srtt = 0 \/ r.cwnd = 0 THEN r.srtt
        ELSE IF bandwidth = 0 THEN r.srtt ELSE r.srtt + (r.flight * 1000) \div bandwidth

\* Paths that would block the receiver are left out; when all would, the
\* fastest is taken.
BlestSelect(path) ==
    LET time(p) == CompletionTime(path[p])
        fastest == Min({time(p) : p \in Eligible(path)})
        rtt == Min({path[p].srtt : p \in Eligible(path)})
        calm == {p \in Eligible(path) : 100 * time(p) <= 100 * fastest + rtt * ScLambda}
    IN  Least([p \in (IF calm = {} THEN Eligible(path) ELSE calm) |-> time(p)])

\* on_select(): Absent for Err(Done)
OnSelect(s) ==
    IF Eligible(s.path) = {} THEN Absent
    ELSE CASE s.algo = "minrtt" -> MinRttSelect(s.path)
           [] s.algo = "redundant" -> RedundantSelect(s.path)
           [] s.algo = "roundrobin" -> RoundRobinSelect(s.path, s.last)
           [] s.algo = "weighted" -> IF Weighted(s.path) = {} THEN Absent
                                     ELSE WeightedSelect(s.path, s.counter + 1)
           [] OTHER -> BlestSelect(s.path)

Selected(s, p) ==
    IF p = Absent THEN s
    ELSE [s EXCEPT !.last = IF s.algo = "roundrobin" THEN p ELSE @,
                   !.counter = IF s.algo = "weighted" THEN @ + 1 ELSE @,
                   !.picks = Append(@, p)]

\* RedundantScheduler::on_sent().  Frames sent with copies are
\* not repeated.
MOnSent(s, p, copies, new) ==
    LET others == {q \in DOMAIN s.path : q # p /\ s.path[q].active}
    IN  IF s.algo # "redundant" THEN s
        ELSE [s EXCEPT !.buffered = [q \in DOMAIN @ |-> IF q \in others THEN @[q] \o copies \o new
                                                        ELSE @[q]]]

OnSent(s, p, copies, new) ==
    LET others == {q \in DOMAIN s.path : q # p /\ s.path[q].active}
    IN  IF s.algo # "redundant" THEN s
        ELSE IF copies # <<>> THEN s
        ELSE [s EXCEPT !.buffered = [q \in DOMAIN @ |-> IF q \in others THEN @[q] \o new
                                                        ELSE @[q]]]

\* Buffered frames that were acknowledged in the meantime are dropped on the
\* way (filter_acked): the frames a packet has room for, and what stays.
Copies(s, p) ==
    LET unacked == SelectSeq(s.buffered[p], LAMBDA f : f \notin s.acked)
    IN  SubSeq(unacked, 1, AtMost(s.room, Len(unacked)))

Kept(s, p) ==
    LET due == Len(Copies(s, p)) + 1
        nth(i) == Len(SelectSeq(SubSeq(s.buffered[p], 1, i), LAMBDA f : f \notin s.acked))
        rest == {i \in DOMAIN s.buffered[p] : nth(i) >= due}
    IN  IF rest = {} THEN <<>> ELSE SubSeq(s.buffered[p], Min(rest), Len(s.buffered[p]))

\* One packet on path p: buffered frames first, then new stream data.
SendOn(s, p) ==
    LET copies == Copies(s, p)
        n == AtMost(s.room - Len(copies), s.frames - s.fresh)
        new == [i \in 1..n |-> s.fresh + i]
        t == [s EXCEPT !.buffered[p] = Kept(s, p), !.fresh = @ + n,
                       !.sent[p] = @ \o copies \o new]
    IN  OnSent(t, p, copies, new)

\* select_send_path(): the scheduler while streams have data, else a path with
\* buffered frames.
ScSend ==
    LET asked == sc.fresh < sc.frames
        pick == IF asked THEN OnSelect(sc) ELSE Absent
        held == {p \in Eligible(sc.path) : sc.buffered[p] # <<>>}
        s == Selected(sc, pick)
    IN  IF pick # Absent THEN sc' = SendOn(s, pick)
        ELSE held # {} /\ sc' = SendOn(s, Min(held))

\* A path becomes active or abandoned, and its congestion window opens or closes.
ScEvent(p) ==
    /\ sc.events < ScEvents
    /\ \E a, o \in BOOLEAN :
          /\ <<a, o>> # <<sc.path[p].active, sc.path[p].open>>
          /\ sc' = [sc EXCEPT !.path[p].active = a, !.path[p].open = o, !.events = @ + 1,
                              !.picks = <<>>]

\* insert_path() at the limit of paths: a new path takes the place in the slab
\* of an abandoned one.  It has a packet number space of its own, with nothing
\* buffered, and is not active yet.
ScReplace(p) ==
    /\ sc.events < ScEvents /\ ~sc.path[p].active
    /\ sc' = [sc EXCEPT !.path[p] = [active |-> FALSE, open |-> TRUE, srtt |-> ScInitRtt,
                                     cwnd |-> ScInitCwnd, flight |-> 0],
                        !.buffered[p] = <<>>, !.sent[p] = <<>>, !.events = @ + 1, !.picks = <<>>]

\* The packets a path has sent are acknowledged, and their stream data with them.
\* It matters while copies of that data are buffered.
ScAck(p) ==
    LET copied == UNION {Range(sc.buffered[q]) : q \in Pids}
    IN  /\ sc.events < ScEvents /\ Range(sc.sent[p]) \cap (copied \ sc.acked) # {}
        /\ sc' = [sc EXCEPT !.acked = @ \cup Range(sc.sent[p]), !.events = @ + 1]

ScDone ==
    /\ sc.events = ScEvents
    /\ sc.fresh = sc.frames \/ Eligible(sc.path) = {} \/ OnSelect(sc) = Absent
    /\ \A p \in Eligible(sc.path) : sc.buffered[p] = <<>>
    /\ UNCHANGED sc

ScNext == ScSend \/ (\E p \in Pids : ScEvent(p) \/ ScReplace(p) \/ ScAck(p)) \/ ScDone

(***************************************************************************)
(* The redundant scheduler repeats new frames only: no path sends a frame  *)
(* twice, and copies are not copied again, so that the extra traffic is    *)
(* one copy for each other path.                                           *)
(***************************************************************************)
CopiesDoNotEcho == \A p \in Pids : IsInjective(sc.sent[p] \o sc.buffered[p])

(***************************************************************************)
(* While the paths stay as they are, the round robin scheduler picks every *)
(* path that can send once in as many picks as there are such paths, and   *)
(* the weighted one picks each path as often as its weight in total_weight *)
(* picks.                                                                  *)
(***************************************************************************)
PicksAreFair ==
    LET times(p, n) ==
            Cardinality({i \in DOMAIN sc.picks : i > Len(sc.picks) - n /\ sc.picks[i] = p})
        n == IF sc.algo = "roundrobin" THEN Cardinality(Eligible(sc.path))
             ELSE TotalWeight(sc.path)
    IN  sc.picks # <<>> =>
        /\ sc.algo = "roundrobin" /\ n <= Len(sc.picks) =>
              \A p \in Eligible(sc.path) : times(p, n) = 1
        /\ sc.algo = "weighted" /\ n <= Len(sc.picks) =>
              \A p \in Weighted(sc.path) : times(p, n) = Normalized(sc.path, p)
=============================================================================
