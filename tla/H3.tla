---------------------------------- MODULE H3 ----------------------------------
(***************************************************************************)
(* The HTTP/3 layer of src/src/h3 on both sides of one QUIC connection:    *)
(* Http3Connection (connection.rs), the per-stream parser Http3Stream      *)
(* (stream.rs) and the frames of frame.rs, above transport streams that    *)
(* keep what connection/stream/mod.rs promises: bytes arrive in order, in  *)
(* pieces of any size, the FIN with the last piece or alone.               *)
(*                                                                         *)
(* A byte is a unit [k, v, n].  A varint of n bytes is n units whose first *)
(* tells n, as the two high bits of its first byte do.  A frame is a type, *)
(* a length and that many payload units.  A poll is one step, as the       *)
(* application's single thread makes it; deliveries, acknowledgements,     *)
(* credit and the applications interleave between polls.                   *)
(***************************************************************************)
EXTENDS Util, SequencesExt

CONSTANTS
    H3Modes,        \* the scenarios an initial state is drawn from
    H3Window,       \* flow control window of a stream, in units
    H3Out,          \* size of the buffer the application hands to recv_body
    H3MaxStreams    \* bidirectional streams the server allows

VARIABLES
    hx,     \* [End -> Http3Connection]
    htr,    \* [stream, receiver -> one direction of a transport stream]
    hap,    \* [End -> [request stream -> what the application did and saw]]
    hmode   \* the scenario

h3Vars == <<hx, htr, hap, hmode>>

End == {"c", "s"}

Other(e) == IF e = "c" THEN "s" ELSE "c"

(* Request streams are 0 and 4.  The client's control, QPACK encoder and
   decoder streams are 2, 6, 10; the server's are 3, 7, 11; 14 and 15 are a
   further unidirectional stream of each side. *)
Request == {0, 4}

CriticalOf(e) == IF e = "c" THEN <<2, 6, 10>> ELSE <<3, 7, 11>>

UniOf(e) == IF e = "c" THEN {2, 6, 10, 14} ELSE {3, 7, 11, 15}

Key == (Request \X End) \cup (UniOf("c") \X {"s"}) \cup (UniOf("s") \X {"c"})

-------------------------------------------------------------------------------
(* Units, varints and frames *)

Varint(k, v, n) == [i \in 1..n |-> [k |-> k, v |-> v, n |-> IF i = 1 THEN n ELSE 0]]

Unit(k, v) == Varint(k, v, 1)

(* The frame types: DATA, HEADERS, CANCEL_PUSH, SETTINGS, PUSH_PROMISE,
   GOAWAY, MAX_PUSH_ID, the two PRIORITY_UPDATEs, and a reserved type. *)
FrameTypes == {"D", "H", "C", "S", "P", "G", "M", "U", "V", "R"}

(* The types beyond 0x3f take a longer varint. *)
TypeLen(f) == IF f \in {"U", "V", "R"} THEN 2 ELSE 1

Encode(f, payload) ==
    Varint(f, 0, TypeLen(f)) \o Unit("len", Len(payload)) \o payload

(* The frames that begin with an identifier. *)
WithId == {"G", "P", "C", "M", "U", "V"}

(* What decode_payload makes of a complete payload: its identifier, unless
   the payload ends inside it.  A reserved setting is a unit with value 1. *)
DecodeId(payload) == payload[1].v

DecodeError(f, payload) ==
    CASE f \in WithId /\ payload[1].n > Len(payload) -> "Transport"
      [] f = "S" /\ \E i \in DOMAIN payload : payload[i].v = 1 -> "SettingsError"
      [] OTHER -> ""

-------------------------------------------------------------------------------
(* Http3Stream *)

NoStream == [type |-> "absent"]

NewStream(sid, uni) ==
    [type |-> IF uni THEN "none" ELSE "req",
     state |-> IF uni THEN "StreamType" ELSE "FrameType",
     ft |-> "", buf |-> <<>>, off |-> 0, exp |-> 1,
     peerInit |-> FALSE, localInit |-> FALSE, wfin |-> FALSE,
     trig |-> FALSE, prioInit |-> FALSE, prio |-> FALSE, hb |-> "none"]

Transition(s, state, len) ==
    [s EXCEPT !.state = state, !.buf = <<>>, !.off = 0, !.exp = len]

(* A slip: the control stream may begin with any frame. *)

(* Which error a frame of type f is on stream s, "" for none. *)
CheckFrame(s, f) ==
    CASE s.type = "ctrl" ->
            IF ~s.peerInit THEN (IF f = "S" THEN "" ELSE "MissingSettings")
            ELSE IF f \in {"S", "D", "H", "P"} THEN "FrameUnexpected" ELSE ""
      [] s.type = "req" ->
            IF \/ f = "D" /\ ~s.peerInit
               \/ f \in {"C", "S", "G", "M", "U", "V"}
            THEN "FrameUnexpected" ELSE ""
      [] s.type = "push" ->
            IF f \in {"C", "S", "P", "G", "M", "U", "V"} THEN "FrameUnexpected" ELSE ""
      [] OTHER -> "FrameUnexpected"

SetFrameType(s, f) ==
    Transition([s EXCEPT !.ft = f,
                         !.peerInit = @ \/ (s.type = "ctrl" /\ f = "S")
                                        \/ (s.type = "req" /\ f = "H")],
               "FramePayloadLen", 1)

SetFramePayloadLen(s, len) ==
    Transition(s, IF s.ft = "D" THEN "Data" ELSE "FramePayload", len)

SetStreamType(s, type) ==
    Transition([s EXCEPT !.type = type, !.peerInit = @ \/ type \in {"enc", "dec"}],
               CASE type = "ctrl" -> "FrameType"
                 [] type = "push" -> "PushId"
                 [] type \in {"enc", "dec"} -> "Instruction"
                 [] OTHER -> "Skip", 1)

-------------------------------------------------------------------------------
(* The transport stream as HTTP/3 sees it (connection/stream/mod.rs).  One
   direction: w is written and not yet delivered, rx delivered and not yet
   read; efin is the empty buffer a lone FIN leaves in the receive buffer. *)

NewDirection ==
    [w |-> <<>>, wfin |-> FALSE, wrst |-> FALSE, stopped |-> FALSE, shut |-> FALSE, stopping |-> FALSE,
     rx |-> <<>>, fin |-> FALSE, efin |-> FALSE, rst |-> FALSE, acked |-> FALSE,
     cap |-> H3Window, want |-> FALSE, thresh |-> 1]

(* A call is evaluated over x: the connection h of end e, the transport tr,
   the event or error it ends with (rc), and the body it read (got). *)
In(x, sid) == x.tr[<<sid, x.e>>]

Out(x, sid) == x.tr[<<sid, Other(x.e)>>]

IsReadable(t) == ~t.shut /\ (t.rx # <<>> \/ t.efin)

IsFin(t) == t.fin /\ t.rx = <<>>

StreamFinished(x, sid) == sid \in x.h.gone \/ IsFin(In(x, sid))

StreamReadable(x, sid) == sid \notin x.h.gone /\ IsReadable(In(x, sid))

SendComplete(x, sid) == sid \notin Request \/ Out(x, sid).acked

(* A stream complete in both directions is closed, which takes it out of the
   readable set; the endpoint's event loop destroys it later. *)
MarkClosed(x, sid) ==
    IF IsFin(In(x, sid)) /\ SendComplete(x, sid)
    THEN [x EXCEPT !.h.cl = @ \cup {sid}] ELSE x

SetIn(x, sid, t) == MarkClosed([x EXCEPT !.tr[<<sid, x.e>>] = t], sid)

(* StreamMap::stream_read(sid, out) with Len(out) = n: the units it returns. *)
ReadUnits(x, sid, n) == SubSeq(In(x, sid).rx, 1, AtMost(n, Len(In(x, sid).rx)))

AfterRead(x, sid, n) ==
    SetIn(x, sid, [In(x, sid) EXCEPT !.rx = SubSeq(@, AtMost(n, Len(@)) + 1, Len(@)),
                                     !.efin = @ /\ n <= Len(In(x, sid).rx)])

AfterReset(x, sid) == SetIn(x, sid, [In(x, sid) EXCEPT !.efin = FALSE])

-------------------------------------------------------------------------------
(* Reading and parsing one stream (stream.rs) *)

Stop(x, rc) == [x EXCEPT !.rc = rc]

(* conn.close(true, code, ..)? followed by return Err(e). *)
Fail(x, code, e) ==
    [x EXCEPT !.h.closed = IF @ = "" THEN code ELSE @, !.h.ret = e, !.rc = "err"]

Put(x, sid, s) == [x EXCEPT !.h.st[sid] = s]

(* The units got fill the state's buffer, which then has all it needs. *)
Filled(x, sid, got) ==
    [x EXCEPT !.h.st[sid].buf = @ \o got, !.h.st[sid].off = @ + Len(got)]

(* Nothing more to read: the Data event is armed again. *)
Short(x, sid) == Stop([x EXCEPT !.h.st[sid].trig = FALSE], "done")

FillWith(x, sid, need, got) ==
    IF Len(got) < need THEN Short(AfterRead(Filled(x, sid, got), sid, need), sid)
    ELSE AfterRead(Filled(x, sid, got), sid, need)

(* read_and_fill_buffer: rc stays "run" once the state has what it needs. *)
Fill(x, sid) ==
    IF x.h.st[sid].off = x.h.st[sid].exp THEN x
    ELSE IF sid \in x.h.gone THEN Fail(x, "", "Transport")
    ELSE IF ~StreamReadable(x, sid) THEN Short(x, sid)
    ELSE IF In(x, sid).rst THEN Stop(AfterReset(x, sid), "reset")
    ELSE FillWith(x, sid, x.h.st[sid].exp - x.h.st[sid].off,
                  ReadUnits(x, sid, x.h.st[sid].exp - x.h.st[sid].off))

(* Once the first byte of a varint is there, its length is known. *)
Widen(x, sid) ==
    IF x.rc = "run" /\ x.h.st[sid].off = 1
    THEN [x EXCEPT !.h.st[sid].exp = x.h.st[sid].buf[1].n] ELSE x

(* read_and_parse_varint: the value is then the first unit of buf. *)
FillAgain(x, sid) == IF x.rc = "run" THEN Fill(x, sid) ELSE x

H3ReadVarint(x, sid) == FillAgain(Widen(Fill(x, sid), sid), sid)

OnFrameType(x, sid, s) ==
    IF x.rc # "run" THEN x
    ELSE IF CheckFrame(s, s.buf[1].k) # ""
    THEN Fail(x, CheckFrame(s, s.buf[1].k), CheckFrame(s, s.buf[1].k))
    ELSE Put(x, sid, SetFrameType(s, s.buf[1].k))

(* A frame that always carries an identifier may not be empty. *)
OnFramePayloadLength(x, sid, s) ==
    IF x.rc # "run" THEN x
    ELSE IF s.ft \in WithId /\ s.buf[1].v = 0
    THEN Fail(x, "FrameError", "FrameError")
    ELSE Put(x, sid, SetFramePayloadLen(s, s.buf[1].v))

OnPushId(x, sid, s) ==
    IF x.rc # "run" THEN x ELSE Put(x, sid, Transition(s, "FrameType", 1))

-------------------------------------------------------------------------------
(* The frame handlers (connection.rs): rc "event" returns Ok, "run" is Done:
   the frame is dealt with and the loop of the caller goes on. *)

Event(x, k, sid) == [x EXCEPT !.ev = [k |-> k, sid |-> sid], !.rc = "event"]

OnGoaway(x, id) ==
    IF x.e = "c" /\ id % 4 # 0 THEN Fail(x, "FrameUnexpected", "IdError")
    ELSE IF Present(x.h.pgo) /\ id > x.h.pgo THEN Fail(x, "IdError", "IdError")
    ELSE Event([x EXCEPT !.h.pgo = id], "GoAway", id)

OnMaxPushId(x, id) ==
    IF x.e = "c" THEN Fail(x, "FrameUnexpected", "FrameUnexpected")
    ELSE IF id < x.h.mpush THEN Fail(x, "IdError", "IdError")
    ELSE [x EXCEPT !.h.mpush = id]

OnPushPromise(x, sid, id) ==
    IF x.e = "s" \/ sid % 4 # 0 THEN Fail(x, "FrameUnexpected", "FrameUnexpected")
    ELSE IF id > x.h.mpush THEN Fail(x, "IdError", "IdError")
    ELSE x

(* get_or_create(sid, false) *)
CanCreate(x, sid) == x.h.st[sid] # NoStream \/ x.e = "s" \/ sid % 4 \notin {0, 1}

Create(x, sid) ==
    IF x.h.st[sid] = NoStream
    THEN Put(x, sid, NewStream(sid, sid \notin Request)) ELSE x

NotePriority(x, id) ==
    IF x.h.st[id].prio THEN x
    ELSE Event([x EXCEPT !.h.st[id].prio = TRUE], "PriorityUpdate", id)

OnPriorityUpdate(x, id) ==
    IF x.e = "c" THEN Fail(x, "FrameUnexpected", "FrameUnexpected")
    ELSE IF id % 4 # 0 \/ id > H3MaxStreams * 4 THEN Fail(x, "IdError", "IdError")
    ELSE IF id \in x.h.cl \/ id \notin Request THEN x
    ELSE NotePriority(Create(x, id), id)

(* A field section QPACK cannot decode has a unit with value 1. *)
OnHeaders(x, sid, section) ==
    IF \E i \in DOMAIN section : section[i].v = 1
    THEN Fail(x, "QpackDecompressionFailed", "QpackDecompressionFailed")
    ELSE Event(x, "Headers", sid)

ProcessFrame(x, sid, f, payload) ==
    CASE f = "S" -> [x EXCEPT !.h.settings = TRUE]
      [] f = "H" -> OnHeaders(x, sid, payload)
      [] f = "G" -> OnGoaway(x, DecodeId(payload))
      [] f = "M" -> OnMaxPushId(x, DecodeId(payload))
      [] f = "P" -> OnPushPromise(x, sid, DecodeId(payload))
      [] f = "U" -> OnPriorityUpdate(x, DecodeId(payload))
      [] f = "V" -> IF x.e = "c" THEN Fail(x, "FrameUnexpected", "FrameUnexpected") ELSE x
      [] OTHER -> x

(* to_wire: an error of the transport, a reset stream among them, goes out as
   H3_INTERNAL_ERROR. *)
ToWire(e) == IF e = "Transport" THEN "InternalError" ELSE e

(* parse_frame_payload, then process_frame.  Every error but Done closes the
   connection, also the reset of a stream in the middle of a frame, which is
   reported as a reset all the same. *)
HandleFrame(x, sid, s) ==
    CASE x.rc \in {"reset", "err"} -> [x EXCEPT !.h.closed = ToWire("Transport")]
      [] x.rc = "done" -> x
      [] OTHER ->
            LET e == DecodeError(s.ft, s.buf)
                y == Put(x, sid, [s EXCEPT !.trig = FALSE])
            IN  IF e # "" THEN Fail(y, ToWire(e), e)
                ELSE ProcessFrame(Put(y, sid, Transition(y.h.st[sid], "FrameType", 1)),
                                  sid, s.ft, s.buf)

(* A finished request or push stream is not read again. *)
LeaveIfFinished(x, sid) ==
    IF x.rc = "run" /\ x.h.st[sid].type # "ctrl" /\ StreamFinished(x, sid)
    THEN Stop(x, "done") ELSE x

DataEvent(x, sid) ==
    IF x.h.st[sid].trig THEN Stop(x, "done")
    ELSE Event([x EXCEPT !.h.st[sid].trig = TRUE], "Data", sid)

(* register_control_stream, register_qpack_encoder_stream and
   register_qpack_decoder_stream: a second one closes the connection.  A
   server refuses a push stream.  An unknown type is shut down. *)
Register(x, sid, type) ==
    CASE type \in {"ctrl", "enc", "dec"} ->
            IF Present(x.h.crit[type]) THEN Fail(x, "StreamCreation", "StreamCreation")
            ELSE [x EXCEPT !.h.crit[type] = sid]
      [] type = "push" /\ x.e = "s" -> Fail(x, "StreamCreation", "StreamCreation")
      [] OTHER -> x

OnStreamType(x, sid, s) ==
    IF x.rc # "run" THEN x
    ELSE Register(Put(x, sid, SetStreamType(s, s.buf[1].k)), sid, s.buf[1].k)

ReadThen(x, sid, state) ==
    CASE state = "StreamType" -> OnStreamType(x, sid, x.h.st[sid])
      [] state = "FrameType" -> OnFrameType(x, sid, x.h.st[sid])
      [] state = "FramePayloadLen" -> OnFramePayloadLength(x, sid, x.h.st[sid])
      [] state = "PushId" -> OnPushId(x, sid, x.h.st[sid])
      [] OTHER -> LeaveIfFinished(HandleFrame(x, sid, x.h.st[sid]), sid)

(* One turn of the loops of process_readable_request_stream,
   process_readable_push_stream and process_readable_control_stream. *)
Turn(x, sid, polling, state) ==
    CASE state \in {"PushId", "FrameType", "FramePayloadLen"} ->
            ReadThen(H3ReadVarint(x, sid), sid, state)
      [] state = "FramePayload" /\ polling -> ReadThen(Fill(x, sid), sid, state)
      [] state = "Data" /\ polling -> DataEvent(x, sid)
      [] OTHER -> Stop(x, "done")

RECURSIVE Parse(_, _, _)
Parse(x, sid, polling) ==
    IF x.rc # "run" THEN x
    ELSE IF x.h.st[sid] = NoStream THEN Stop(x, "done")
    ELSE Parse(Turn(x, sid, polling, x.h.st[sid].state), sid, polling)

(* process_readable_qpack_stream reads and drops everything. *)
ReadQpack(x, sid) ==
    IF sid \in x.h.gone THEN Fail(x, "", "Transport")
    ELSE IF ~StreamReadable(x, sid) THEN Stop(x, "done")
    ELSE IF In(x, sid).rst THEN Stop(AfterReset(x, sid), "reset")
    ELSE Stop(AfterRead(x, sid, Len(In(x, sid).rx) + 1), "done")

ParseStreamType(x, sid) ==
    IF x.h.st[sid].state # "StreamType" THEN x
    ELSE ReadThen(H3ReadVarint(x, sid), sid, "StreamType")

ShutdownRead(x, sid) ==
    IF sid \in x.h.gone \/ In(x, sid).shut THEN x
    ELSE [x EXCEPT !.tr[<<sid, x.e>>] =
            [In(x, sid) EXCEPT !.shut = TRUE, !.rx = <<>>, !.efin = FALSE,
                               !.stopping = ~In(x, sid).fin]]

ProcessTyped(x, sid, type) ==
    IF x.rc # "run" THEN x
    ELSE CASE type \in {"ctrl", "push"} -> Parse(x, sid, TRUE)
           [] type \in {"enc", "dec"} -> ReadQpack(x, sid)
           [] OTHER -> Stop(ShutdownRead(x, sid), "done")

ProcessParsed(x, sid) == ProcessTyped(x, sid, x.h.st[sid].type)

ProcessUni(x, sid) == ProcessParsed(ParseStreamType(x, sid), sid)

(* process_readable_stream, called by poll. *)
ProcessReadable(x, sid) ==
    IF ~CanCreate(x, sid) THEN Fail(x, "StreamCreation", "StreamCreation")
    ELSE IF sid \in Request THEN Parse(Create(x, sid), sid, TRUE)
    ELSE ProcessUni(Create(x, sid), sid)

(* A slip: a stream that was reported finished is reported again. *)
MProcessFinishedStream(x, sid) ==
    IF x.h.st[sid].type \in {"req", "push"}
    THEN [x EXCEPT !.h.st[sid] = Transition(@, "ReadFinished", 0),
                   !.h.finq = Append(@, sid)]
    ELSE x

ProcessFinishedStream(x, sid) ==
    IF x.h.st[sid].type \in {"req", "push"} /\ x.h.st[sid].state # "ReadFinished"
    THEN [x EXCEPT !.h.st[sid] = Transition(@, "ReadFinished", 0),
                   !.h.finq = Append(@, sid)]
    ELSE x

Destroy(x, sid) == Put(x, sid, NoStream)

DestroyIf(x, sid, cond) == IF cond THEN Destroy(x, sid) ELSE x

(* What process_readable_streams does with a stream it has processed. *)
Conclude(x, sid) ==
    IF x.rc \in {"reset", "err"} \/ ~StreamFinished(x, sid) THEN x
    ELSE DestroyIf(ProcessFinishedStream(x, sid), sid,
                   x.h.st[sid] # NoStream /\ x.h.st[sid].wfin)

(* A stream that was reset ends the poll with a Reset event; one that has
   nothing to report lets the next one be looked at. *)
Next1(x, sid) ==
    CASE x.rc = "reset" -> Event(x, "Reset", sid)
      [] x.rc = "done" -> Stop(x, "run")
      [] OTHER -> x

RECURSIVE ReadableStreams(_, _)
ReadableStreams(x, order) ==
    IF x.rc # "run" \/ order = <<>> THEN x
    ELSE ReadableStreams(Next1(Conclude(ProcessReadable(x, order[1]), order[1]), order[1]),
                         Tail(order))

CheckCritical(x, sid) ==
    IF StreamFinished(x, sid) THEN Fail(x, "ClosedCritical", "ClosedCritical") ELSE x

AfterCritical(x, sid) ==
    CASE x.rc = "done" -> CheckCritical(Stop(x, "run"), sid)
      [] x.rc = "reset" -> Fail(x, "", "Transport")
      [] OTHER -> x

CriticalStream(x, type) ==
    LET sid == x.h.crit[type] IN
    IF x.rc # "run" \/ ~Present(sid) THEN x
    ELSE IF StreamFinished(x, sid) THEN CheckCritical(x, sid)
    ELSE IF ~StreamReadable(x, sid) THEN x
    ELSE AfterCritical(ProcessUni(x, sid), sid)

PopFinished(x) ==
    IF x.rc = "run" /\ x.h.finq # <<>>
    THEN Event([x EXCEPT !.h.finq = Tail(@)], "Finished", x.h.finq[1])
    ELSE x

Call(e) == [h |-> hx[e], tr |-> htr, e |-> e, rc |-> "run",
            ev |-> [k |-> "none", sid |-> 0], got |-> <<>>, n |-> 0]

(* The streams poll finds readable: not those the transport closed. *)
ReadableIds(e) ==
    {sid \in Request \cup UniOf(Other(e)) :
        sid \notin hx[e].cl /\ IsReadable(htr[<<sid, e>>])}

(* Http3Connection::poll. *)
PollWith(x, order) ==
    IF x.h.closed # "" THEN Stop(x, "done")
    ELSE PopFinished(ReadableStreams(CriticalStream(CriticalStream(CriticalStream(
            PopFinished(x), "ctrl"), "enc"), "dec"), order))

-------------------------------------------------------------------------------
(* Reading a body: recv_body over a buffer of left units. *)

(* read_data_from_quic: the Data event is armed again once the stream has
   nothing more to read; a DATA frame read to its end is left behind. *)
DataRead(x, sid, s) ==
    Put(x, sid, IF s.off = s.exp THEN Transition(s, "FrameType", 1) ELSE s)

Armed(x, sid, s) == DataRead(x, sid, [s EXCEPT !.trig = @ /\ StreamReadable(x, sid)])

ReadDataFromQuic(x, sid, n) ==
    Armed(AfterRead([x EXCEPT !.got = @ \o ReadUnits(x, sid, n)], sid, n), sid,
          [x.h.st[sid] EXCEPT !.off = @ + Len(ReadUnits(x, sid, n))])

RECURSIVE BodyLoop(_, _, _), BodyRead(_, _, _, _), BodyParsed(_, _, _)
BodyLoop(x, sid, left) ==
    LET s == x.h.st[sid] IN
    IF left = 0 \/ s = NoStream \/ x.rc # "run" THEN x
    ELSE IF s.state # "Data" THEN x
    ELSE IF sid \in x.h.gone THEN Stop(x, "err")
    ELSE IF ~StreamReadable(x, sid) THEN [x EXCEPT !.h.st[sid].trig = FALSE]
    ELSE IF In(x, sid).rst THEN Stop(AfterReset(x, sid), "reset")
    ELSE BodyRead(ReadDataFromQuic(x, sid, AtMost(left, s.exp - s.off)), sid, left,
                  Len(ReadUnits(x, sid, AtMost(left, s.exp - s.off))))

(* Nothing read, or the FIN: no more.  Otherwise the next frame is parsed,
   without an event. *)
BodyRead(x, sid, left, n) ==
    IF n = 0 \/ IsFin(In(x, sid)) THEN x
    ELSE BodyParsed(Parse(x, sid, FALSE), sid, left - n)

BodyParsed(x, sid, left) ==
    IF x.rc # "done" THEN x
    ELSE IF StreamFinished(x, sid) THEN Stop(x, "run")
    ELSE BodyLoop(Stop(x, "run"), sid, left)

BodyEnd(x, sid, before) ==
    IF x.rc # "run" THEN x
    ELSE Stop(IF StreamFinished(x, sid) THEN ProcessFinishedStream(x, sid) ELSE x,
              IF Len(x.got) = before THEN "done" ELSE "ok")

RecvBody(x, sid) == BodyEnd(BodyLoop(x, sid, H3Out), sid, Len(x.got))

-------------------------------------------------------------------------------
(* Sending *)

(* StreamMap::stream_capacity fails once the stream is gone or stopped. *)
CapacityFails(x, sid) == sid \in x.h.gone \/ Out(x, sid).stopped \/ Out(x, sid).wrst

Write(x, sid, units, fin) ==
    [x EXCEPT !.tr[<<sid, Other(x.e)>>] =
        [@ EXCEPT !.w = @ \o units, !.wfin = @ \/ fin, !.cap = @ - Len(units)]]

(* stream_writable(sid, len) that fails, then stream_want_write. *)
WantWrite(x, sid, len) ==
    [x EXCEPT !.tr[<<sid, Other(x.e)>>] = [@ EXCEPT !.thresh = len, !.want = TRUE]]

HeaderFrame == Encode("H", Unit("h", 0))

(* send_header_block: the whole HEADERS frame or nothing; what does not fit
   is kept in the stream. *)
SendHeaderBlock(x, sid, fin) ==
    IF CapacityFails(x, sid)
    THEN Stop(DestroyIf(x, sid, StreamFinished(x, sid)), "err")
    ELSE IF Out(x, sid).cap < Len(HeaderFrame)
    THEN Stop([WantWrite(x, sid, Len(HeaderFrame)) EXCEPT
                    !.h.st[sid].hb = IF fin THEN "fin" ELSE "more"], "blocked")
    ELSE Stop(DestroyIf([Write(x, sid, HeaderFrame, fin) EXCEPT
                            !.h.st[sid].hb = "none", !.h.st[sid].localInit = TRUE,
                            !.h.st[sid].wfin = @ \/ fin],
                        sid, fin /\ StreamFinished(x, sid)), "ok")

SendHeaders(x, sid, fin) ==
    IF x.h.st[sid] = NoStream THEN Stop(x, "err")
    ELSE SendHeaderBlock([x EXCEPT !.h.st[sid].prioInit = TRUE], sid, fin)

(* The end of send_body, once the DATA frame of n of the len units is written. *)
BodyWritten(x, sid, n, len, fin) ==
    IF n < len THEN WantWrite(x, sid, 3)
    ELSE IF ~fin THEN x
    ELSE IF StreamFinished(x, sid) THEN Destroy(x, sid)
    ELSE [x EXCEPT !.h.st[sid].wfin = TRUE]

(* send_body of body, a sequence of units: a DATA frame for what fits. *)
SendData(x, sid, body, fin, n) ==
    IF n = 0 /\ ~(fin /\ body = <<>>) THEN Stop(x, "done")
    ELSE [Stop(BodyWritten(Write(x, sid, Encode("D", SubSeq(body, 1, n)),
                                 fin /\ n = Len(body)),
                           sid, n, Len(body), fin), "ok") EXCEPT !.n = n]

(* Held headers that went out are reported by NoError, without the body. *)
HeldSent(x) == IF x.rc = "ok" THEN Stop(x, "noerror") ELSE x

SendBody(x, sid, body, fin) ==
    LET s == x.h.st[sid] IN
    IF s = NoStream THEN Stop(x, "err")
    ELSE IF s.hb # "none"
    THEN HeldSent(SendHeaderBlock([x EXCEPT !.h.st[sid].hb = "none"], sid,
                                  s.hb = "fin" \/ (fin /\ body = <<>>)))
    ELSE IF ~s.localInit THEN Stop(x, "err")
    ELSE IF body = <<>> /\ ~fin THEN Stop(x, "done")
    ELSE IF CapacityFails(x, sid)
    THEN Stop(DestroyIf(x, sid, StreamFinished(x, sid)), "err")
    ELSE IF Out(x, sid).cap < 2 THEN Stop(WantWrite(x, sid, 3), "done")
    ELSE SendData(x, sid, body, fin, AtMost(Len(body), Out(x, sid).cap - 2))

(* send_goaway and send_priority_update_for_request, on the control stream. *)
SendGoaway(x, id) ==
    LET f == Encode("G", Unit("id", IF x.e = "c" THEN 0 ELSE id))
        ctl == CriticalOf(x.e)[1]
    IN  IF \/ x.e = "s" /\ id % 4 # 0
           \/ Present(x.h.lgo) /\ (IF x.e = "c" THEN 0 ELSE id) > x.h.lgo
        THEN Stop(x, "err")
        ELSE IF x.tr[<<ctl, Other(x.e)>>].cap < Len(f)
        THEN Stop([x EXCEPT !.tr[<<ctl, Other(x.e)>>].want = TRUE], "blocked")
        ELSE Stop([Write(x, ctl, f, FALSE) EXCEPT !.h.lgo = IF x.e = "c" THEN 0 ELSE id],
                  "ok")

SendPriorityUpdate(x, id) ==
    LET f == Encode("U", Unit("id", id) \o Unit("u", 0))
        ctl == CriticalOf(x.e)[1]
    IN  IF x.e = "s" \/ id \in x.h.cl \/ id % 4 # 0 \/ id > H3MaxStreams THEN Stop(x, "err")
        ELSE IF x.tr[<<ctl, Other(x.e)>>].cap < Len(f)
        THEN Stop(WantWrite(x, ctl, Len(f)), "blocked")
        ELSE Stop(Write(x, ctl, f, FALSE), "ok")

ShutdownWrite(x, sid) ==
    IF sid \in x.h.gone THEN x
    ELSE [x EXCEPT !.tr[<<sid, Other(x.e)>>] = [@ EXCEPT !.wrst = TRUE, !.w = <<>>]]

(* Http3Connection::stream_close. *)
StreamClose(x, sid) ==
    IF x.h.st[sid] = NoStream THEN x
    ELSE LET y == IF StreamFinished(x, sid) THEN x ELSE ShutdownRead(x, sid)
         IN  Destroy(IF x.h.st[sid].wfin THEN y ELSE ShutdownWrite(y, sid), sid)

-------------------------------------------------------------------------------
(* Initial states: both ends just made their connection and opened their
   critical streams (new_with_quic_conn); a foreign peer's stream may already
   carry what that peer wrote. *)

NewConnection(e) ==
    [st |-> [sid \in Request \cup UniOf(Other(e)) |-> NoStream],
     finq |-> <<>>, crit |-> [ctrl |-> Absent, enc |-> Absent, dec |-> Absent],
     settings |-> FALSE, lgo |-> Absent, pgo |-> Absent, mpush |-> Absent,
     next |-> 0, cl |-> {}, gone |-> {}, closed |-> "", ret |-> ""]

(* open_critical_streams: the control stream with SETTINGS, then the QPACK
   encoder and decoder streams. *)
OpenCritical(e) ==
    <<Unit("ctrl", 0) \o Encode("S", Unit("set", 0)), Unit("enc", 0), Unit("dec", 0)>>

Opened(sid) ==
    LET e == IF sid \in UniOf("c") THEN "c" ELSE "s"
        at == {i \in 1..3 : CriticalOf(e)[i] = sid}
    IN  IF at = {} THEN <<>> ELSE OpenCritical(e)[CHOOSE i \in at : TRUE]

NewApp == [hdr |-> "idle", body |-> <<>>, blocked |-> FALSE, reading |-> FALSE,
           log |-> <<>>, bytes |-> <<>>, sent |-> 0, fin |-> FALSE, dead |-> FALSE,
           prio |-> FALSE]

H3Init ==
    /\ hmode \in H3Modes
    /\ hx = [e \in End |-> NewConnection(e)]
    /\ htr = [k \in Key |->
                IF k \in DOMAIN hmode.foreign
                THEN [NewDirection EXCEPT !.w = hmode.foreign[k].units,
                                          !.wfin = hmode.foreign[k].fin]
                ELSE [NewDirection EXCEPT !.w = IF k[1] \in Request THEN <<>>
                                                ELSE Opened(k[1])]]
    /\ hap = [e \in End |-> [sid \in Request |-> NewApp]]

-------------------------------------------------------------------------------
(* The network *)

Foreign(e) == \E k \in DOMAIN hmode.foreign : k[2] = Other(e)

(* A STREAM frame: n units, with the FIN when it is sent along.  A stream
   that is shut down or closed drops what arrives. *)
InFlight(sid, e) ==
    /\ sid \in Request \cup hmode.uni
    /\ ~Foreign(e)
    /\ sid \in Request /\ e = "c" => sid < hx["c"].next
    /\ ~htr[<<sid, e>>].fin
    /\ htr[<<sid, e>>].w # <<>> \/ htr[<<sid, e>>].wfin

Deliver(sid, e) ==
    /\ InFlight(sid, e)
    /\ LET t == htr[<<sid, e>>] IN
       \E n \in 0..Len(t.w), f \in BOOLEAN :
            /\ n > 0 \/ f
            /\ e \in hmode.split \/ n = Len(t.w)
            /\ f => t.wfin /\ n = Len(t.w)
            /\ n = Len(t.w) /\ t.wfin /\ ~hmode.finAlone => f
            /\ htr' = [htr EXCEPT ![<<sid, e>>] =
                 [t EXCEPT !.w = SubSeq(@, n + 1, Len(@)),
                           !.rx = IF t.shut THEN <<>> ELSE @ \o SubSeq(t.w, 1, n),
                           !.fin = f, !.efin = f /\ n = 0 /\ t.rx = <<>> /\ ~t.shut]]
    /\ UNCHANGED <<hx, hap, hmode>>

(* A RESET_STREAM frame drops what is unread and leaves an empty buffer. *)
DeliverReset(sid, e) ==
    /\ LET t == htr[<<sid, e>>] IN
       /\ t.wrst /\ ~t.rst
       /\ htr' = [htr EXCEPT ![<<sid, e>>] =
            [t EXCEPT !.rst = TRUE, !.fin = TRUE, !.rx = <<>>,
                      !.efin = ~IsFin(t) /\ ~t.shut]]
    /\ UNCHANGED <<hx, hap, hmode>>

(* STOP_SENDING: the sender's capacity is gone. *)
DeliverStop(sid, e) ==
    /\ htr[<<sid, e>>].stopping /\ ~htr[<<sid, e>>].stopped
    /\ htr' = [htr EXCEPT ![<<sid, e>>] =
            [@ EXCEPT !.stopped = TRUE, !.wrst = @ \/ ~htr[<<sid, e>>].acked, !.w = <<>>]]
    /\ UNCHANGED <<hx, hap, hmode>>

(* Everything sent towards e, the FIN or the reset included, is acknowledged. *)
Acked(sid, e) ==
    LET t == htr[<<sid, e>>]
        x == [Call(Other(e)) EXCEPT !.tr[<<sid, e>>].acked = TRUE]
    IN  /\ sid \in Request /\ t.fin /\ ~t.acked /\ hmode.acks
        /\ htr' = x.tr
        /\ hx' = [hx EXCEPT ![Other(e)] =
                    IF StreamReadable(x, sid) THEN @ ELSE MarkClosed(x, sid).h]
        /\ UNCHANGED <<hap, hmode>>

(* The endpoint's event loop takes the StreamClosed event. *)
StreamDestroy(sid, e) ==
    /\ sid \in hx[e].cl \ hx[e].gone
    /\ hx' = [hx EXCEPT ![e].gone = @ \cup {sid}]
    /\ UNCHANGED <<htr, hap, hmode>>

(* MAX_STREAM_DATA gives the sender back what the receiver has read. *)
Room(t) == H3Window - Len(t.w) - Len(t.rx)

CanCredit(sid, e) ==
    LET t == htr[<<sid, e>>] IN t.cap < Room(t) /\ ~t.fin /\ ~t.wfin

Credit(sid, e) ==
    /\ CanCredit(sid, e)
    /\ htr' = [htr EXCEPT ![<<sid, e>>].cap = Room(htr[<<sid, e>>])]
    /\ UNCHANGED <<hx, hap, hmode>>

-------------------------------------------------------------------------------
(* The applications *)

Return(x) == /\ hx' = [hx EXCEPT ![x.e] = x.h]
             /\ htr' = x.tr
             /\ UNCHANGED hmode

(* What the application notes of an event; after Data it has a body to read. *)
Note(a, k) ==
    [a EXCEPT !.log = Append(@, k), !.reading = @ \/ k = "Data", !.dead = @ \/ k = "Reset"]

(* Http3Connection::poll, and the application's reaction. *)
PollMoves(e, x) == x.h # hx[e] \/ x.tr # htr

Poll(e) ==
    \E order \in SetToSeqs(ReadableIds(e)) :
        \E x \in {PollWith(Call(e), order)} :
            /\ PollMoves(e, x)
            /\ Return(x)
            /\ hap' = IF x.ev.k \in {"Headers", "Data", "Finished", "Reset", "PriorityUpdate"}
                          /\ x.ev.sid \in Request
                      THEN [hap EXCEPT ![e][x.ev.sid] = Note(@, x.ev.k)]
                      ELSE hap

(* The client opens its next request stream: stream_new. *)
CanOpen ==
    /\ hx["c"].next < 4 * hmode.reqs /\ hx["c"].closed = "" /\ ~Foreign("c")
    /\ ~Present(hx["c"].pgo)

H3Open ==
    LET sid == hx["c"].next IN
    /\ CanOpen
    /\ hx' = [hx EXCEPT !["c"].st[sid] = [NewStream(sid, FALSE) EXCEPT !.prioInit = TRUE],
                        !["c"].next = @ + 4]
    /\ hap' = [hap EXCEPT !["c"][sid].hdr = "todo", !["c"][sid].body = hmode.req]
    /\ UNCHANGED <<htr, hmode>>

(* The server answers once it has the headers, or the whole request. *)
CanAnswer(sid) ==
    /\ hap["s"][sid].hdr = "idle" /\ ~hap["s"][sid].dead /\ hx["s"].closed = ""
    /\ (IF hmode.early THEN "Headers" ELSE "Finished") \in Ran(hap["s"][sid].log)

Answer(sid) ==
    /\ CanAnswer(sid)
    /\ hap' = [hap EXCEPT !["s"][sid].hdr = "todo", !["s"][sid].body = hmode.resp]
    /\ UNCHANGED <<hx, htr, hmode>>

CanSend(e, sid) ==
    /\ hap[e][sid].hdr \in {"todo", "held", "sent"}
    /\ ~hap[e][sid].fin /\ ~hap[e][sid].blocked /\ ~hap[e][sid].dead
    /\ hx[e].closed = ""

AppHeaders(e, sid) ==
    /\ CanSend(e, sid) /\ hap[e][sid].hdr = "todo"
    /\ \E x \in {SendHeaders(Call(e), sid, hap[e][sid].body = <<>>)} :
        /\ Return(x)
        /\ hap' = [hap EXCEPT ![e][sid] =
             [@ EXCEPT !.hdr = IF x.rc = "ok" THEN "sent" ELSE "held",
                       !.blocked = x.rc = "blocked", !.dead = x.rc = "err",
                       !.fin = x.rc = "ok" /\ hap[e][sid].body = <<>>]]

(* The next body units of the message, numbered from the first. *)
Chunk(a) == [i \in 1..a.body[1] |-> [k |-> "b", v |-> a.sent + i, n |-> 1]]

(* send_body with the next chunk, the FIN with the last.  An application that
   was told its headers are blocked calls it too, with an empty body when it
   has none. *)
AfterBody(a, x, last) ==
    CASE x.rc = "ok" ->
            [a EXCEPT !.sent = @ + x.n, !.blocked = x.n < a.body[1],
                      !.body = IF x.n < a.body[1] THEN <<a.body[1] - x.n>> \o Tail(@)
                               ELSE Tail(@),
                      !.fin = last /\ x.n = a.body[1]]
      [] x.rc = "noerror" ->
            [a EXCEPT !.hdr = "sent",
                      !.fin = a.body = <<>> \/ a.body = <<0>>,
                      !.body = IF a.body = <<0>> THEN <<>> ELSE @]
      [] x.rc \in {"done", "blocked"} -> [a EXCEPT !.blocked = TRUE]
      [] OTHER -> [a EXCEPT !.dead = TRUE]

AppBody(e, sid) ==
    LET a == hap[e][sid]
        last == Len(a.body) <= 1
    IN  /\ CanSend(e, sid)
        /\ a.hdr \in {"held", "sent"}
        /\ a.hdr = "sent" => a.body # <<>>
        /\ \E x \in {SendBody(Call(e), sid, IF a.body = <<>> THEN <<>> ELSE Chunk(a), last)} :
            /\ Return(IF hmode.wants /\ x.rc = "done" THEN WantWrite(x, sid, 3) ELSE x)
            /\ hap' = [hap EXCEPT ![e][sid] = AfterBody(a, x, last)]

(* on_stream_writable: check_writable holds again. *)
Writable(e, sid) ==
    LET t == htr[<<sid, Other(e)>>] IN
    /\ hap[e][sid].blocked /\ sid \notin hx[e].gone
    /\ t.want /\ (t.stopped \/ t.cap >= t.thresh)

OnWritable(e, sid) ==
    /\ Writable(e, sid)
    /\ hap' = [hap EXCEPT ![e][sid].blocked = FALSE]
    /\ UNCHANGED <<hx, htr, hmode>>

(* while let Ok(read) = recv_body(..) *)
RECURSIVE ReadAll(_, _)
ReadAll(x, sid) ==
    IF x.rc = "ok" THEN ReadAll(RecvBody(Stop(x, "run"), sid), sid) ELSE x

AppRead(e, sid) ==
    /\ hap[e][sid].reading /\ hx[e].closed = ""
    /\ \E x \in {ReadAll(Stop(Call(e), "ok"), sid)} :
        /\ Return(x)
        /\ hap' = [hap EXCEPT ![e][sid] =
             [@ EXCEPT !.reading = FALSE, !.bytes = @ \o [i \in DOMAIN x.got |-> x.got[i].v],
                       !.dead = @ \/ x.rc \in {"err", "reset"},
                       !.log = IF x.rc = "event" THEN Append(@, "unreachable") ELSE @]]

AppClose(e, sid) ==
    /\ e \in hmode.close \/ hap[e][sid].dead
    /\ hx[e].st[sid] # NoStream /\ hx[e].closed = ""
    /\ Return(StreamClose(Call(e), sid))
    /\ hap' = [hap EXCEPT ![e][sid].dead = TRUE]

AppGoaway(e) ==
    \E id \in hmode.goaway[e] :
        /\ hx[e].closed = ""
        /\ \E x \in {SendGoaway(Call(e), id)} : x.rc = "ok" /\ x.h # hx[e] /\ Return(x)
        /\ UNCHANGED hap

AppPriority(sid) ==
    /\ hmode.prio /\ hx["c"].st[sid] # NoStream /\ ~hap["c"][sid].prio
    /\ \E x \in {SendPriorityUpdate(Call("c"), sid)} : Return(x)
    /\ hap' = [hap EXCEPT !["c"][sid].prio = TRUE]

(* take_priority_update *)
TakePriority(sid) ==
    /\ hx["s"].st[sid] # NoStream /\ hx["s"].st[sid].prio
    /\ hx' = [hx EXCEPT !["s"].st[sid].prio = FALSE]
    /\ UNCHANGED <<htr, hap, hmode>>

H3Step ==
    \/ \E k \in Key : \/ Deliver(k[1], k[2])
                      \/ DeliverReset(k[1], k[2])
                      \/ DeliverStop(k[1], k[2])
                      \/ Acked(k[1], k[2])
                      \/ Credit(k[1], k[2])
    \/ \E e \in End : Poll(e) \/ AppGoaway(e)
    \/ \E e \in End, sid \in Request \cup UniOf("c") \cup UniOf("s") : StreamDestroy(sid, e)
    \/ H3Open
    \/ \E sid \in Request : Answer(sid) \/ AppPriority(sid) \/ TakePriority(sid)
    \/ \E e \in End, sid \in Request :
            \/ AppHeaders(e, sid) \/ AppBody(e, sid) \/ OnWritable(e, sid)
            \/ AppRead(e, sid) \/ AppClose(e, sid)

(* Something is left to do; the peer's credit and further GOAWAYs apart. *)
H3Ready ==
    \/ \E k \in Key : \/ InFlight(k[1], k[2])
                      \/ htr[k].wrst /\ ~htr[k].rst
                      \/ htr[k].stopping /\ ~htr[k].stopped
                      \/ CanCredit(k[1], k[2])
    \/ \E e \in End : \E order \in SetToSeqs(ReadableIds(e)) :
            PollMoves(e, PollWith(Call(e), order))
    \/ CanOpen
    \/ \E sid \in Request : CanAnswer(sid)
    \/ \E e \in End, sid \in Request :
            \/ CanSend(e, sid) \/ Writable(e, sid)
            \/ hap[e][sid].reading /\ hx[e].closed = ""

H3Rest == ~H3Ready /\ UNCHANGED h3Vars

H3Next == H3Step \/ H3Rest

H3Spec == H3Init /\ [][H3Next]_h3Vars

-------------------------------------------------------------------------------
(* Properties *)

Count(log, k) == Cardinality({i \in DOMAIN log : log[i] = k})

BodySize(body) == FoldSeq(LAMBDA a, b : a + b, 0, body)

Message(e) == IF e = "c" THEN hmode.req ELSE hmode.resp

(* A message reaches the application whole and in order: the headers before
   any data, the body bytes as the peer wrote them, and one Finished event,
   which comes only after the last byte of the body was read and the peer
   wrote its FIN (process_readable_streams, recv_body, process_finished_stream). *)
H3MessageSound ==
    hmode.foreign = <<>> =>
    \A e \in End, sid \in Request :
        LET a == hap[e][sid]
            size == BodySize(Message(Other(e)))
        IN  /\ Count(a.log, "Headers") <= 1 /\ Count(a.log, "Finished") <= 1
            /\ "unreachable" \notin Ran(a.log)
            /\ \A i \in DOMAIN a.log :
                 /\ a.log[i] \in {"Data", "Finished"} =>
                        \E j \in 1..(i - 1) : a.log[j] = "Headers"
                 /\ a.log[i] = "Finished" =>
                        /\ \A j \in (i + 1)..Len(a.log) : a.log[j] # "Data"
            /\ a.bytes = [i \in 1..Len(a.bytes) |-> i]
            /\ "Finished" \in Ran(a.log) =>
                   Len(a.bytes) = size /\ htr[<<sid, e>>].wfin

===============================================================================
