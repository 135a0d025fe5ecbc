------------------------------- MODULE Frames -------------------------------
(***************************************************************************)
(* QUIC frames on the wire (frame.rs).  A frame is its kind, the one flag  *)
(* its type byte carries (bidi of MAX_STREAMS and STREAMS_BLOCKED, fin of  *)
(* STREAM) and its values in the order to_bytes writes them.  An ACK's     *)
(* values are its delay, its ranges (half-open, ascending, as RangeSet     *)
(* keeps them) and its ECN counts (none or three).                         *)
(*                                                                         *)
(* from_bytes, to_bytes and wire_len are three separate functions of the   *)
(* code, and three separate tables here.                                   *)
(***************************************************************************)
EXTENDS Integers, Sequences, SequencesExt, Bitwise, Util

CONSTANT MaxStreamSize   \* MAX_STREAM_SIZE, 2^62 in the code

(***************************************************************************)
(* The byte codec every wire format of the code is written with            *)
(* (codec.rs): fixed-width big-endian integers, QUIC variable-length       *)
(* integers, and byte strings with an explicit length.                     *)
(*                                                                         *)
(* A buffer is a sequence of bytes.  A message is described by a LAYOUT,   *)
(* the sequence of the kinds of its fields; the writer of a message and    *)
(* its reader each have their own layout, taken from the code of each.     *)
(* Values stay below 2^31, TLC's integers, so the four high bytes of an    *)
(* eight-byte integer are zero.                                            *)
(***************************************************************************)
\* put_u8 .. put_u64: the k low-order bytes of n, most significant first.
PutUint(n, k) ==
    [i \in 1..k |-> IF k - i > 3 THEN 0 ELSE (n \div 256^(k - i)) % 256]

\* get_u8 .. get_u64.
GetUint(s) == FoldLeft(LAMBDA a, b : 256 * a + b, 0, s)

\* A plausible mistake: the boundary counted into the shorter form.
MEncodeVarintLen(n) ==
    IF n <= 64 THEN 1 ELSE IF n <= 16384 THEN 2
    ELSE IF n <= 1073741824 THEN 4 ELSE 8

EncodeVarintLen(n) ==
    IF n <= 63 THEN 1 ELSE IF n <= 16383 THEN 2
    ELSE IF n <= 1073741823 THEN 4 ELSE 8

DecodeVarintLen(first) == 2^(first \div 64)

\* The two-bit prefix of a varint of the given length, OR-ed into its first
\* byte; a byte that has those bits already swallows it.
VarintPrefix(len) == CASE len = 1 -> 0 [] len = 2 -> 64 [] len = 4 -> 128 [] len = 8 -> 192

WriteVarintWithLen(n, len) ==
    [i \in 1..len |-> IF i = 1 THEN PutUint(n, len)[1] | VarintPrefix(len) ELSE PutUint(n, len)[i]]

WriteVarint(n) == WriteVarintWithLen(n, EncodeVarintLen(n))

(***************************************************************************)
(* Writing.  Each write_* call checks the room that is left, so a message  *)
(* is written iff all of it fits.                                          *)
(***************************************************************************)
WriteField(kind, x) ==
    CASE kind = "u8"     -> PutUint(x, 1)
      [] kind = "u16"    -> PutUint(x, 2)
      [] kind = "u32"    -> PutUint(x, 4)
      [] kind = "u64"    -> PutUint(x, 8)
      [] kind = "varint" -> WriteVarint(x)
      [] kind = "len2"   -> WriteVarintWithLen(x, 2)
      [] kind = "vec"    -> WriteVarint(Len(x)) \o x
      [] kind = "vec8"   -> PutUint(Len(x), 1) \o x
      [] kind = "raw"    -> x

WriteFields(layout, values) ==
    FlattenSeq([i \in 1..Len(layout) |-> WriteField(layout[i], values[i])])

(***************************************************************************)
(* Reading.  A reader is what is left of the buffer, the values read so    *)
(* far and the first error; after an error it reads no more.               *)
(***************************************************************************)
Reader(b) == [b |-> b, v |-> <<>>, err |-> "none"]

RdFail(r, e) == [r EXCEPT !.err = e]

Take(r, n) ==
    IF r.err # "none" THEN r
    ELSE IF Len(r.b) < n THEN RdFail(r, "BufferTooShort")
    ELSE [r EXCEPT !.b = SubSeq(@, n + 1, Len(@)), !.v = Append(@, SubSeq(r.b, 1, n))]

\* The last value read; a length is taken back once it has been used.
LastRead(r) == r.v[Len(r.v)]

\* read_u8 to read_u64
TakeUint(r, n) ==
    LET q == Take(r, n)
    IN  IF q.err # "none" THEN q ELSE [q EXCEPT !.v[Len(q.v)] = GetUint(@)]

\* read_varint: the value of the bytes without the prefix.
ReadVarint(r) ==
    IF r.err # "none" THEN r
    ELSE IF r.b = <<>> \/ Len(r.b) < DecodeVarintLen(r.b[1]) THEN RdFail(r, "BufferTooShort")
    ELSE TakeUint([r EXCEPT !.b[1] = @ % 64], DecodeVarintLen(r.b[1]))

TakeCounted(r) ==
    IF r.err # "none" THEN r
    ELSE Take([r EXCEPT !.v = Front(@)], LastRead(r))

ReadField(r, kind) ==
    CASE kind = "u8"     -> TakeUint(r, 1)
      [] kind = "u16"    -> TakeUint(r, 2)
      [] kind = "u32"    -> TakeUint(r, 4)
      [] kind = "u64"    -> TakeUint(r, 8)
      [] kind = "varint" -> ReadVarint(r)
      [] kind = "vec"    -> TakeCounted(ReadVarint(r))
      [] kind = "vec8"   -> TakeCounted(TakeUint(r, 1))
      [] kind = "raw4"   -> Take(r, 4)
      [] kind = "raw8"   -> Take(r, 8)
      [] kind = "raw16"  -> Take(r, 16)
      [] kind = "rest"   -> Take(r, Len(r.b))

ReadFields(r, layout) == FoldLeft(ReadField, r, layout)

(***************************************************************************)
(* Frames.                                                                 *)
(***************************************************************************)
Frame(kind, flag, v) == [kind |-> kind, flag |-> flag, v |-> v]

IntsOnly == {"ResetStream", "StopSending", "MaxData", "MaxStreamData", "MaxStreams",
             "DataBlocked", "StreamDataBlocked", "StreamsBlocked", "RetireConnectionId"}

VL(n) == EncodeVarintLen(n)

SumVL(s) == FoldLeft(LAMBDA a, n : a + VL(n), 0, s)

(***************************************************************************)
(* to_bytes.                                                               *)
(***************************************************************************)
FrameType(f) ==
    CASE f.kind = "Paddings" -> 0            [] f.kind = "Ping" -> 1
      [] f.kind = "Ack" -> IF f.v[3] = <<>> THEN 2 ELSE 3
      [] f.kind = "ResetStream" -> 4         [] f.kind = "StopSending" -> 5
      [] f.kind = "Crypto" -> 6              [] f.kind = "NewToken" -> 7
      [] f.kind = "Stream" -> IF f.flag THEN 15 ELSE 14
      [] f.kind = "MaxData" -> 16            [] f.kind = "MaxStreamData" -> 17
      [] f.kind = "MaxStreams" -> IF f.flag THEN 18 ELSE 19
      [] f.kind = "DataBlocked" -> 20        [] f.kind = "StreamDataBlocked" -> 21
      [] f.kind = "StreamsBlocked" -> IF f.flag THEN 22 ELSE 23
      [] f.kind = "NewConnectionId" -> 24    [] f.kind = "RetireConnectionId" -> 25
      [] f.kind = "PathChallenge" -> 26      [] f.kind = "PathResponse" -> 27
      [] f.kind = "ConnectionClose" -> 28    [] f.kind = "ApplicationClose" -> 29
      [] f.kind = "HandshakeDone" -> 30      [] f.kind = "Datagram" -> 49
      [] f.kind = "PathAbandon" -> 354585605 [] f.kind = "PathStatus" -> 354585606

WriteLayout(kind) ==
    CASE kind \in {"Ping", "HandshakeDone"} -> <<>>
      [] kind \in {"MaxData", "MaxStreams", "DataBlocked", "StreamsBlocked",
                   "RetireConnectionId"} -> <<"varint">>
      [] kind \in {"StopSending", "MaxStreamData", "StreamDataBlocked"}
            -> <<"varint", "varint">>
      [] kind \in {"ResetStream", "PathStatus"} -> <<"varint", "varint", "varint">>
      [] kind \in {"NewToken", "Datagram"} -> <<"vec">>
      [] kind = "NewConnectionId" -> <<"varint", "varint", "vec8", "raw">>
      [] kind \in {"PathChallenge", "PathResponse"} -> <<"raw">>
      [] kind = "ApplicationClose" -> <<"varint", "vec">>
      [] kind \in {"ConnectionClose", "PathAbandon"} -> <<"varint", "varint", "vec">>

\* The gap and the length of each range below the highest one, going down:
\* i counts the ranges from the top.
AckGap(ranges, i) ==
    LET n == Len(ranges) IN ranges[n - i + 2][1] - ranges[n - i + 1][2] - 1

AckLen(r) == (r[2] - 1) - r[1]

AckInts(f) ==
    LET ranges == f.v[2]
        n == Len(ranges)
        top == ranges[n]
    IN  <<top[2] - 1, f.v[1], n - 1, AckLen(top)>>
        \o FlattenSeq([i \in 1..(n - 1) |->
                         <<AckGap(ranges, i + 1), AckLen(ranges[n - i])>>])
        \o f.v[3]

EncodeInts(s) == FlattenSeq([i \in 1..Len(s) |-> WriteVarint(s[i])])

\* encode_crypto_header and encode_stream_header: the length always takes two
\* bytes, the offset is always there.
EncodeCryptoHeader(offset, length) ==
    WriteFields(<<"varint", "varint", "len2">>, <<6, offset, length>>)

EncodeStreamHeader(id, offset, length, fin) ==
    WriteFields(<<"varint", "varint", "varint", "len2">>,
                <<IF fin THEN 15 ELSE 14, id, offset, length>>)

ToBytes(f) ==
    CASE f.kind = "Paddings" -> [i \in 1..f.v[1] |-> 0]
      [] f.kind = "Ack" -> EncodeInts(<<FrameType(f)>> \o AckInts(f))
      [] f.kind = "Crypto" -> EncodeCryptoHeader(f.v[1], Len(f.v[2])) \o f.v[2]
      [] f.kind = "Stream" ->
            EncodeStreamHeader(f.v[1], f.v[2], Len(f.v[3]), f.flag) \o f.v[3]
      [] OTHER -> WriteVarint(FrameType(f)) \o WriteFields(WriteLayout(f.kind), f.v)

(***************************************************************************)
(* wire_len, and the header lengths the packet writer reserves.            *)
(***************************************************************************)

WireLen(f) ==
    LET v == f.v IN
    CASE f.kind = "Paddings" -> v[1]
      [] f.kind \in {"Ping", "HandshakeDone"} -> 1
      [] f.kind = "Ack" -> 1 + SumVL(AckInts(f))
      [] f.kind \in IntsOnly -> 1 + SumVL(v)
      [] f.kind = "Crypto" -> 1 + VL(v[1]) + 2 + Len(v[2])
      [] f.kind = "Stream" -> 1 + VL(v[1]) + VL(v[2]) + 2 + Len(v[3])
      [] f.kind \in {"NewToken", "Datagram"} -> 1 + VL(Len(v[1])) + Len(v[1])
      [] f.kind = "NewConnectionId" -> 1 + VL(v[1]) + VL(v[2]) + 1 + Len(v[3]) + Len(v[4])
      [] f.kind \in {"PathChallenge", "PathResponse"} -> 1 + 8
      [] f.kind = "ConnectionClose" ->
            1 + VL(v[1]) + VL(v[2]) + VL(Len(v[3])) + Len(v[3])
      [] f.kind = "ApplicationClose" -> 1 + VL(v[1]) + VL(Len(v[2])) + Len(v[2])
      [] f.kind = "PathAbandon" ->
            4 + VL(v[1]) + VL(v[2]) + VL(Len(v[3])) + Len(v[3])
      [] f.kind = "PathStatus" -> 4 + SumVL(v)

(***************************************************************************)
(* from_bytes.                                                             *)
(***************************************************************************)
\* The frames whose fields are read one after the other, by frame type.
ReadLayout(t) ==
    CASE t = 4  -> <<"varint", "varint", "varint">>
      [] t = 5  -> <<"varint", "varint">>
      [] t = 7  -> <<"vec">>
      [] t \in {16, 18, 19, 20, 22, 23, 25} -> <<"varint">>
      [] t \in {17, 21} -> <<"varint", "varint">>
      [] t = 24 -> <<"varint", "varint", "vec8", "raw16">>
      [] t \in {26, 27} -> <<"raw8">>
      [] t = 28 -> <<"varint", "varint", "vec">>
      [] t = 29 -> <<"varint", "vec">>
      [] t \in {1, 30} -> <<>>
      [] t = 48 -> <<"rest">>
      [] t = 49 -> <<"vec">>
      [] t = 354585605 -> <<"varint", "varint", "vec">>
      [] t = 354585606 -> <<"varint", "varint", "varint">>

ReadKind(t) ==
    CASE t = 1 -> "Ping"                     [] t = 4 -> "ResetStream"
      [] t = 5 -> "StopSending"              [] t = 7 -> "NewToken"
      [] t = 16 -> "MaxData"                 [] t = 17 -> "MaxStreamData"
      [] t \in {18, 19} -> "MaxStreams"      [] t = 20 -> "DataBlocked"
      [] t = 21 -> "StreamDataBlocked"       [] t \in {22, 23} -> "StreamsBlocked"
      [] t = 24 -> "NewConnectionId"         [] t = 25 -> "RetireConnectionId"
      [] t = 26 -> "PathChallenge"           [] t = 27 -> "PathResponse"
      [] t = 28 -> "ConnectionClose"         [] t = 29 -> "ApplicationClose"
      [] t = 30 -> "HandshakeDone"           [] t \in {48, 49} -> "Datagram"
      [] t = 354585605 -> "PathAbandon"      [] t = 354585606 -> "PathStatus"

PlainTypes == {1, 4, 5, 7} \cup (16..30) \cup {48, 49, 354585605, 354585606}

\* What a frame parser answers: the frame and what is left, or an error.
Parsed(r, f) == [frame |-> f, b |-> r.b, err |-> r.err]

NoFrame(e) == [frame |-> Frame("Paddings", FALSE, <<0>>), b |-> <<>>, err |-> e]

\* The type byte was zero; every zero byte that follows joins the frame.
ParsePaddings(r) ==
    LET n == CHOOSE k \in 0..Len(r.b) :
                 /\ \A i \in 1..k : r.b[i] = 0
                 /\ k < Len(r.b) => r.b[k + 1] # 0
    IN  Parsed([r EXCEPT !.b = SubSeq(@, n + 1, Len(@))], Frame("Paddings", FALSE, <<n + 1>>))

\* One more range below `smallest`: the reader carries the ranges so far in
\* `out`, lowest first.
AckRangeBelow(a, r, largest) ==
    IF r.err # "none" THEN [a EXCEPT !.r = r]
    ELSE IF largest < r.v[2] THEN [a EXCEPT !.r = RdFail(r, "FrameEncodingError")]
    ELSE [r |-> r, smallest |-> largest - r.v[2],
          out |-> <<<<largest - r.v[2], largest + 1>>>> \o a.out]

ParseAckRange(a) ==
    IF a.r.err # "none" THEN a
    ELSE With(ReadVarint([a.r EXCEPT !.v = <<>>]), LAMBDA r :
        IF r.err # "none" THEN [a EXCEPT !.r = r]
        ELSE IF a.smallest < 2 + r.v[1] THEN [a EXCEPT !.r = RdFail(r, "FrameEncodingError")]
        ELSE AckRangeBelow(a, ReadVarint(r), a.smallest - r.v[1] - 2))

AckEcn(t, delay, a) ==
    With(ReadFields([a.r EXCEPT !.v = <<>>], IF t = 3 THEN <<"varint", "varint", "varint">> ELSE <<>>),
         LAMBDA e : Parsed(e, Frame("Ack", FALSE, <<delay, a.out, e.v>>)))

ParseAckFrame(t, r0) ==
    With(ReadFields([r0 EXCEPT !.v = <<>>], <<"varint", "varint", "varint", "varint">>), LAMBDA r :
        IF r.err # "none" THEN NoFrame(r.err)
        ELSE IF r.v[1] < r.v[4] THEN NoFrame("FrameEncodingError")
        ELSE AckEcn(t, r.v[2],
                    FoldLeft(LAMBDA x, i : ParseAckRange(x),
                             [r |-> r, smallest |-> r.v[1] - r.v[4],
                              out |-> <<<<r.v[1] - r.v[4], r.v[1] + 1>>>>],
                             [i \in 1..r.v[3] |-> i])))

\* CRYPTO, and STREAM with its three flag bits.
ParseCrypto(r0) ==
    With(ReadFields([r0 EXCEPT !.v = <<>>], <<"varint", "vec">>),
         LAMBDA r : Parsed(r, Frame("Crypto", FALSE, r.v)))

StreamData(t, id, offset, length, r) ==
    IF offset + length >= MaxStreamSize THEN NoFrame("FrameEncodingError")
    ELSE With(Take(r, length), LAMBDA d :
        IF d.err # "none" THEN NoFrame(d.err)
        ELSE Parsed(d, Frame("Stream", t % 2 = 1, <<id, offset, LastRead(d)>>)))

HasOff(t) == (t \div 4) % 2 = 1

HasLen(t) == (t \div 2) % 2 = 1

ParseStream(t, r0) ==
    With(ReadFields([r0 EXCEPT !.v = <<>>],
                    <<"varint">> \o (IF HasOff(t) THEN <<"varint">> ELSE <<>>)
                                 \o (IF HasLen(t) THEN <<"varint">> ELSE <<>>)), LAMBDA r :
        IF r.err # "none" THEN NoFrame(r.err)
        ELSE StreamData(t, r.v[1], IF HasOff(t) THEN r.v[2] ELSE 0,
                        IF HasLen(t) THEN LastRead(r) ELSE Len(r.b), r))

ParsePlain(t, r0) ==
    With(ReadFields([r0 EXCEPT !.v = <<>>], ReadLayout(t)),
         LAMBDA r : Parsed(r, Frame(ReadKind(t), t \in {18, 22}, r.v)))

ParseFrame(r) ==
    IF r.err # "none" THEN NoFrame(r.err)
    ELSE LET t == r.v[1] IN
         CASE t = 0 -> ParsePaddings(r)
           [] t \in {2, 3} -> ParseAckFrame(t, r)
           [] t = 6 -> ParseCrypto(r)
           [] t \in 8..15 -> ParseStream(t, r)
           [] t \in PlainTypes -> ParsePlain(t, r)
           [] OTHER -> NoFrame("FrameEncodingError")

\* validate_frame: which frames a packet type may carry.
ValidateFrame(pkt, kind) ==
    \/ kind \in {"Paddings", "Ping"}
    \/ /\ kind \in {"Ack", "Crypto", "ConnectionClose"}
       /\ pkt # "ZeroRTT"
    \/ pkt = "OneRTT"
    \/ /\ pkt = "ZeroRTT"
       /\ kind \notin {"Ack", "Crypto", "HandshakeDone", "NewToken", "PathResponse",
                       "RetireConnectionId", "ConnectionClose"}

FromBytes(b, pkt) ==
    With(ParseFrame(ReadVarint(Reader(b))), LAMBDA p :
        IF p.err = "none" /\ ~ValidateFrame(pkt, p.frame.kind) THEN NoFrame("InvalidPacket")
        ELSE p)

Probing(kind) == kind \in {"Paddings", "NewConnectionId", "PathChallenge", "PathResponse"}

=============================================================================
