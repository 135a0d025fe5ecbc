------------------------------ MODULE Packets ------------------------------
(***************************************************************************)
(* QUIC packets on the wire (packet.rs): headers, header protection,       *)
(* payload protection, and the packets outside the handshake: Version      *)
(* Negotiation, Retry and Stateless Reset.                                 *)
(*                                                                         *)
(* A header's token is empty for None.  The AEAD and the mask of header    *)
(* protection are ring's; they are modelled by what the code relies on:    *)
(* a tag that depends on the header, the packet number and the payload,    *)
(* and a mask that depends on a 16-byte sample of the ciphertext.          *)
(***************************************************************************)
EXTENDS Frames, PktNum

CONSTANTS
    MinClientInitialLen,  \* MIN_CLIENT_INITIAL_LEN, 1200 in the code
    Setups,               \* what a sender may be about to send
    PacketFrames,         \* the frames it may put into a packet
    FramesPerPacket       \* bound: frames it puts into one packet

VARIABLE dgram

TagLen == 16
SampleLen == 16
MaxPktNumLen == 4
MaxCidLen == 20
MinResetPacketLen == 21
ResetTokenLen == 16
MinPayloadLen == 4
LengthFieldLen == 2
MaxCryptoOverhead == 8
MaxStreamOverhead == 19

VersionIsSupported(v) == v = 1

Header(type, dcid, scid, token, phase, pnLen) ==
    [type |-> type, version |-> IF type = "OneRTT" THEN 0 ELSE 1, dcid |-> dcid,
     scid |-> IF type = "OneRTT" THEN <<>> ELSE scid, token |-> token,
     phase |-> phase, pnLen |-> pnLen]

LongTypes == <<"Initial", "ZeroRTT", "Handshake", "Retry">>

LongBits(type) == CHOOSE i \in 0..3 : LongTypes[i + 1] = type

LongHeader(first) == first >= 128

\* PacketHeader::to_bytes.
HeaderToBytes(h) ==
    IF h.type = "OneRTT"
    THEN WriteFields(<<"u8", "raw">>,
                     <<64 + (IF h.phase THEN 4 ELSE 0) + SatSub(h.pnLen, 1), h.dcid>>)
    ELSE WriteFields(<<"u8", "u32", "vec8", "vec8">>,
                     <<192 + 16 * LongBits(h.type) + SatSub(h.pnLen, 1), h.version,
                       h.dcid, h.scid>>)
         \o CASE h.type = "Initial" -> WriteField("vec", h.token)
              [] h.type = "Retry"   -> h.token
              [] OTHER              -> <<>>

\* What PacketHeader::from_bytes answers: packet number and key phase are
\* still protected.
NoHeader(e) == [hdr |-> Header("Initial", <<>>, <<>>, <<>>, FALSE, 0), b |-> <<>>, err |-> e]

ParsedHeader(r, type, version, dcid, scid, token) ==
    [hdr |-> [Header(type, dcid, scid, token, FALSE, 0) EXCEPT !.version = version],
     b |-> r.b, err |-> r.err]

ShortHeader(r0, dcidLen) ==
    With(Take(r0, dcidLen), LAMBDA r :
        IF r.err # "none" THEN NoHeader(r.err)
        ELSE ParsedHeader(r, "OneRTT", 0, r.v[2], <<>>, <<>>))

\* A connection id behind its length byte, at most 20 bytes of it in a
\* version the code knows.
ReadCid(r0, version) ==
    With(TakeUint(r0, 1), LAMBDA r :
        IF r.err # "none" THEN r
        ELSE IF VersionIsSupported(version) /\ LastRead(r) > MaxCidLen
        THEN RdFail(r, "InvalidPacket")
        ELSE TakeCounted(r))

\* The token of an Initial, behind its length, and of a Retry: all but the tag.
ReadToken(r, type) ==
    CASE type = "Initial" -> ReadField(r, "vec")
      [] type = "Retry" /\ r.err = "none" ->
            IF Len(r.b) < TagLen THEN RdFail(r, "InvalidPacket")
            ELSE Take(r, Len(r.b) - TagLen)
      [] OTHER -> [r EXCEPT !.v = Append(@, <<>>)]

LongType(first, version) ==
    IF version = 0 THEN "VersionNegotiation" ELSE LongTypes[((first \div 16) % 4) + 1]

LongHeaderRest(r) ==
    IF r.err # "none" THEN NoHeader(r.err)
    ELSE LET type == LongType(r.v[1], r.v[2])
         IN  With(ReadToken(ReadCid(ReadCid(r, r.v[2]), r.v[2]), type), LAMBDA q :
                 IF q.err # "none" THEN NoHeader(q.err)
                 ELSE ParsedHeader(q, type, r.v[2], q.v[3], q.v[4], q.v[5]))

HeaderFromBytes(b, dcidLen) ==
    With(ReadField(Reader(b), "u8"), LAMBDA r :
        IF r.err # "none" THEN NoHeader(r.err)
        ELSE IF ~LongHeader(r.v[1]) THEN ShortHeader(r, dcidLen)
        ELSE LongHeaderRest(ReadField(r, "u32")))

\* PacketHeader::header_info, which the routing of datagrams uses: form,
\* version and destination id only.
HeaderInfo(b, dcidLen) ==
    With(ReadField(Reader(b), "u8"), LAMBDA r :
        IF r.err # "none" THEN <<r.err>>
        ELSE IF LongHeader(r.v[1])
        THEN With(ReadFields(r, <<"u32", "vec8">>), LAMBDA q :
                 IF q.err # "none" THEN <<q.err>> ELSE <<TRUE, q.v[2], q.v[3]>>)
        ELSE With(Take(r, dcidLen), LAMBDA q :
                 IF q.err # "none" THEN <<q.err>> ELSE <<FALSE, 0, q.v[2]>>))

(***************************************************************************)
(* Protection.                                                             *)
(***************************************************************************)
\* ring's AEAD and header mask, by what the code relies on.
\* The digest goes over the bytes eight at a time.
At(s, i) == IF i <= Len(s) THEN s[i] + 1 ELSE 0

Block(s, k) ==
    At(s, k + 1) + 3 * At(s, k + 2) + 5 * At(s, k + 3) + 7 * At(s, k + 4)
    + 11 * At(s, k + 5) + 13 * At(s, k + 6) + 17 * At(s, k + 7) + 19 * At(s, k + 8)

Digest(s) ==
    LET d[k \in 0..(Len(s) \div 8)] ==
            IF k = 0 THEN Block(s, 0) ELSE (31 * d[k - 1] + Block(s, 8 * k)) % 65521
    IN  d[Len(s) \div 8]

AeadTag(hdr, pn, plain) ==
    [i \in 1..TagLen |-> (Digest(hdr \o PutUint(pn, 8) \o plain) + 37 * i) % 256]

Seal(hdr, pn, plain) == [i \in DOMAIN plain |-> 255 - plain[i]] \o AeadTag(hdr, pn, plain)

Open(hdr, pn, cipher) ==
    LET n == Len(cipher) - TagLen
    IN  With([i \in 1..n |-> 255 - cipher[i]], LAMBDA plain :
            IF n >= 0 /\ SubSeq(cipher, n + 1, Len(cipher)) = AeadTag(hdr, pn, plain)
            THEN [plain |-> plain, err |-> "none"] ELSE [plain |-> <<>>, err |-> "CryptoFail"])

NewMask(sample) == SubSeq(sample, 1, 5)

\* The low bits of the first byte that header protection covers.
MaskFirst(first, mask) ==
    first ^^ (mask[1] % (IF LongHeader(first) THEN 16 ELSE 32))

MaskNum(num, mask) == [i \in DOMAIN num |-> num[i] ^^ mask[i + 1]]

\* encrypt_header: hdr ends with the packet number; `after` is the buffer
\* behind it, whose sample starts four bytes after the number began.
EncryptHeader(hdr, pnLen, after) ==
    LET from == MaxPktNumLen - pnLen
        n == Len(hdr) - pnLen
    IN  With(NewMask(SubSeq(after, from + 1, from + SampleLen)), LAMBDA mask :
            <<MaskFirst(hdr[1], mask)>> \o SubSeq(hdr, 2, n)
            \o MaskNum(SubSeq(hdr, n + 1, Len(hdr)), mask))

\* encrypt_packet; `tail` is what the buffer held behind the packet.
EncryptPacket(hdr, pn, pnLen, payload, tail) ==
    With(Seal(hdr, pn, payload),
         LAMBDA sealed : EncryptHeader(hdr, pnLen, sealed \o tail) \o sealed)

\* decrypt_header: the buffer with its header in the clear, and what it says.
Unmasked(b, off, h, first, pnLen, num) ==
    [err |-> "none",
     b |-> <<first>> \o SubSeq(b, 2, off) \o num \o SubSeq(b, off + pnLen + 1, Len(b)),
     hdr |-> [h EXCEPT !.pnLen = pnLen, !.phase = h.type = "OneRTT" /\ (first \div 4) % 2 = 1],
     trunc |-> GetUint(num)]

\* A plausible mistake: the sample is taken right behind the number.
MDecryptHeader(b, off, h) ==
    IF Len(b) < off + MaxPktNumLen + SampleLen
    THEN [err |-> "BufferTooShort", b |-> b, hdr |-> h, trunc |-> 0]
    ELSE With(NewMask(SubSeq(b, off + h.pnLen + 1, off + h.pnLen + SampleLen)), LAMBDA mask :
         With(MaskFirst(b[1], mask), LAMBDA first :
             Unmasked(b, off, h, first, (first % 4) + 1,
                      MaskNum(SubSeq(b, off + 1, off + (first % 4) + 1), mask))))

DecryptHeader(b, off, h) ==
    IF Len(b) < off + MaxPktNumLen + SampleLen
    THEN [err |-> "BufferTooShort", b |-> b, hdr |-> h, trunc |-> 0]
    ELSE With(NewMask(SubSeq(b, off + MaxPktNumLen + 1, off + MaxPktNumLen + SampleLen)),
         LAMBDA mask : With(MaskFirst(b[1], mask), LAMBDA first :
             Unmasked(b, off, h, first, (first % 4) + 1,
                      MaskNum(SubSeq(b, off + 1, off + (first % 4) + 1), mask))))

\* decrypt_header in plaintext mode, which has no mask and no sample.
ReadPlainHeader(b, off, h) ==
    IF Len(b) < off + MaxPktNumLen
    THEN [err |-> "BufferTooShort", b |-> b, hdr |-> h, trunc |-> 0]
    ELSE LET pnLen == (b[1] % 4) + 1
         IN  Unmasked(b, off, h, b[1], pnLen, SubSeq(b, off + 1, off + pnLen))

\* decrypt_payload of the first `len` bytes behind the header.
DecryptPayload(b, off, len, pn) ==
    IF Len(b) < off + len THEN [plain |-> <<>>, err |-> "BufferTooShort"]
    ELSE Open(SubSeq(b, 1, off), pn, SubSeq(b, off + 1, off + len))

(***************************************************************************)
(* Packets that no connection sends.                                       *)
(***************************************************************************)
VersionNegotiation(scid, dcid, unused) ==
    WriteFields(<<"u8", "u32", "vec8", "vec8", "u32">>, <<128 + unused, 0, dcid, scid, 1>>)

\* compute_retry_integrity_tag over the pseudo packet.
RetryTag(hdr, odcid) ==
    [i \in 1..TagLen |-> (Digest(WriteField("vec8", odcid) \o hdr) + 53 * i) % 256]

RetryPacket(scid, dcid, odcid, token) ==
    LET hdr == HeaderToBytes(Header("Retry", dcid, scid, token, FALSE, 0))
    IN  hdr \o RetryTag(hdr, odcid)

VerifyRetryTag(b, odcid) ==
    /\ Len(b) >= TagLen
    /\ SubSeq(b, Len(b) - TagLen + 1, Len(b)) = RetryTag(SubSeq(b, 1, Len(b) - TagLen), odcid)

\* stateless_reset: random bytes that look like a short header, then the token.
StatelessReset(noise, token) ==
    [noise EXCEPT ![1] = 64 + (@ % 64)] \o token

ResetTokenOf(b) ==
    IF Len(b) < MinResetPacketLen THEN <<>>
    ELSE SubSeq(b, Len(b) - ResetTokenLen + 1, Len(b))

(***************************************************************************)
(* One UDP datagram (Connection::send, send_packet, recv, recv_packet).    *)
(* The sender coalesces an Initial, a Handshake and a 1-RTT packet into    *)
(* it, in that order and as far as the setup has them, and the receiver    *)
(* takes it apart.  A setup gives the room, the connection ids, the token, *)
(* the key phase, whether the path is being validated (expand) and whether *)
(* 1-RTT packets go in the clear (plain), and per packet the type, the     *)
(* number, the largest acknowledged number and the receiver's largest.     *)
(***************************************************************************)
dgVars == <<dgram>>

Zeros(n) == [i \in 1..n |-> 0]

DgInit ==
    \E s \in Setups :
        dgram = [phase |-> "send", set |-> s, todo |-> s.packets, out |-> <<>>,
                 left |-> s.room, initial |-> FALSE, cur |-> <<>>, room |-> 0,
                 pkts |-> <<>>, rest |-> <<>>, got |-> <<>>]

CurPacket == dgram.todo[1]

CurPnLen == PacketNumLen(CurPacket.pn, CurPacket.acked)

CurHeader ==
    Header(CurPacket.type, dgram.set.dcid, dgram.set.scid,
           IF CurPacket.type = "Initial" THEN dgram.set.token ELSE <<>>,
           CurPacket.type = "OneRTT" /\ dgram.set.phase, CurPnLen)

FieldLen(type) == IF type = "OneRTT" THEN 0 ELSE LengthFieldLen

IsEncryptionDisabled(type) == type = "OneRTT" /\ dgram.set.plain

\* Header, length, number and tag of the packet.
Overhead ==
    Len(HeaderToBytes(CurHeader)) + FieldLen(CurPacket.type) + CurPnLen
    + (IF IsEncryptionDisabled(CurPacket.type) THEN 0 ELSE TagLen)

\* The last bytes of a datagram with an Initial are filled with zeros.
Flush(d) ==
    With(d.out \o Zeros(IF d.initial /\ Len(d.out) < MinClientInitialLen
                        THEN AtMost(d.left, MinClientInitialLen - Len(d.out)) ELSE 0),
         LAMBDA all : [d EXCEPT !.phase = "recv", !.cur = <<>>, !.out = all, !.rest = all])

\* The packet is complete: its length is filled in and it is protected.  A
\* 1-RTT packet has no length, so it ends the datagram.
Closed(d, frames, bytes) ==
    [d EXCEPT !.phase = "send", !.cur = <<>>, !.out = @ \o bytes,
              !.left = SatSub(@, Len(bytes)), !.todo = Tail(@),
              !.initial = @ \/ CurPacket.type = "Initial",
              !.pkts = Append(@, [hdr |-> CurHeader, pn |-> CurPacket.pn, frames |-> frames])]

ClearHeader(length) ==
    HeaderToBytes(CurHeader)
    \o (IF CurPacket.type = "OneRTT" THEN <<>> ELSE WriteField("len2", length))
    \o PutUint(EncodePacketNum(CurPacket.pn, CurPnLen), CurPnLen)

Finish(d, frames) ==
    With(FlattenSeq([i \in 1..Len(frames) |-> ToBytes(frames[i])]), LAMBDA payload :
        With(Closed(d, frames,
                    IF IsEncryptionDisabled(CurPacket.type) THEN ClearHeader(0) \o payload
                    ELSE EncryptPacket(ClearHeader(CurPnLen + Len(payload) + TagLen), CurPacket.pn,
                                  CurPnLen, payload, Zeros(d.left - Overhead - Len(payload)))),
             LAMBDA e : IF CurPacket.type = "OneRTT" THEN Flush(e) ELSE e))

\* send_packet begins: the room for frames, if there is enough of it.
DgOpen ==
    /\ dgram.phase = "send" /\ dgram.todo # <<>>
    /\ dgram' = IF dgram.left < Overhead + MinPayloadLen THEN Flush(dgram)
                ELSE [dgram EXCEPT !.phase = "frames", !.room = dgram.left - Overhead]

Written == FoldLeft(LAMBDA n, f : n + WireLen(f), 0, dgram.cur)

\* send_frames writes the kinds of frames in this order.
WriteOrder ==
    <<{"Ack"}, {"ConnectionClose", "ApplicationClose"}, {"PathResponse"}, {"PathChallenge"},
      {"NewConnectionId"}, {"RetireConnectionId"}, {"HandshakeDone"},
      {"ResetStream", "StopSending", "MaxData", "MaxStreamData", "MaxStreams", "DataBlocked",
       "StreamDataBlocked", "StreamsBlocked"},
      {"Crypto"}, {"Stream"}, {"NewToken"}, {"Datagram"}, {"Ping"}>>

Rank(f) == CHOOSE i \in DOMAIN WriteOrder : f.kind \in WriteOrder[i]

\* Frames that are written in a loop.
Repeated == {"PathResponse", "NewConnectionId", "RetireConnectionId", "ResetStream",
             "StopSending", "MaxStreamData", "StreamDataBlocked", "Stream", "Datagram"}

\* try_write_crypto_frame and try_write_stream_frames: as much of the data as
\* the room takes, the FIN with the last byte only.
Data(f) == f.v[Len(f.v)]

HeaderWireLen(f) == WireLen(f) - Len(Data(f))

CutTo(f, left) ==
    IF WireLen(f) <= left THEN f
    ELSE [f EXCEPT !.flag = FALSE,
                   !.v[Len(f.v)] = SubSeq(@, 1, left - HeaderWireLen(f))]

\* Stream and handshake data is cut to the room, and left for later when the
\* room is too small; a DATAGRAM that does not fit is dropped.  Any other
\* frame that does not fit (write_frame_to_packet) ends the packet with what
\* it has, or the datagram when it has nothing.
DgFrame(f) ==
    LET left == dgram.room - Written
        add(g) == [dgram EXCEPT !.cur = Append(@, g)]
    IN  /\ dgram.phase = "frames"
        /\ Len(dgram.cur) < FramesPerPacket
        /\ \A i \in DOMAIN dgram.cur :
              \/ Rank(dgram.cur[i]) < Rank(f)
              \/ Rank(dgram.cur[i]) = Rank(f) /\ f.kind \in Repeated
        /\ ValidateFrame(CurPacket.type, f.kind)
        /\ f.kind = "Crypto" => left > MaxCryptoOverhead /\ left > HeaderWireLen(f)
        /\ f.kind = "Stream" => left > MaxStreamOverhead
        /\ f.kind = "Datagram" => WireLen(f) <= left
        /\ dgram' = IF f.kind \in {"Crypto", "Stream"} THEN add(CutTo(f, left))
                    ELSE IF WireLen(f) <= left THEN add(f)
                    ELSE IF dgram.cur = <<>> THEN Flush(dgram)
                    ELSE Finish(dgram, dgram.cur)

\* All frames are written, if there are any; padding to the end of the
\* datagram behind an Initial or to validate a path, and to the smallest payload.
DgPad ==
    LET left == dgram.room - Written
        fill == IF left >= 1 /\ (dgram.initial \/ dgram.set.expand) THEN left
                ELSE IF Written < MinPayloadLen THEN MinPayloadLen - Written ELSE 0
    IN  /\ dgram.phase = "frames"
        /\ dgram' = IF dgram.cur = <<>> THEN Flush(dgram)
                    ELSE Finish(dgram, IF fill = 0 THEN dgram.cur
                                       ELSE Append(dgram.cur, Frame("Paddings", FALSE, <<fill>>)))

DgFlush ==
    /\ dgram.phase = "send" /\ dgram.todo = <<>>
    /\ dgram' = Flush(dgram)

(***************************************************************************)
(* recv_packet: header, length, header protection, number, payload, frames.*)
(* An error skips what is left of the datagram.                            *)
(***************************************************************************)
\* Every frame of the payload, one after the other.
RECURSIVE ReadFrames(_, _, _)
ReadFrames(b, type, frames) ==
    IF b = <<>> THEN [frames |-> frames, err |-> "none"]
    ELSE With(FromBytes(b, type), LAMBDA p :
             IF p.err # "none" THEN [frames |-> frames, err |-> p.err]
             ELSE ReadFrames(p.b, type, Append(frames, p.frame)))

\* The largest number received in the space of the packet.
LargestRx(type) ==
    LET of == SelectSeq(dgram.set.packets, LAMBDA p : p.type = type)
    IN  IF of = <<>> THEN 0 ELSE of[1].largest

\* From the packet number on: d is what decrypt_header gave, off where the
\* number is.
OpenFrames(d, off, length, pn, p) ==
    IF p.err # "none" THEN [err |-> "Done"]
    ELSE IF p.plain = <<>> THEN [err |-> "ProtocolViolation"]
    ELSE With(ReadFrames(p.plain, d.hdr.type, <<>>), LAMBDA f :
             [err |-> f.err, used |-> off + length,
              pkt |-> [hdr |-> d.hdr, pn |-> pn, frames |-> f.frames]])

OpenPacket(d, off, length) ==
    IF d.err # "none" \/ length < d.hdr.pnLen THEN [err |-> "Done"]
    ELSE With(DecodePacketNum(LargestRx(d.hdr.type), d.trunc, d.hdr.pnLen), LAMBDA pn :
             OpenFrames(d, off, length, pn,
                        IF IsEncryptionDisabled(d.hdr.type)
                        THEN [plain |-> SubSeq(d.b, off + d.hdr.pnLen + 1, off + length),
                              err |-> "none"]
                        ELSE DecryptPayload(d.b, off + d.hdr.pnLen, length - d.hdr.pnLen, pn)))

PayloadOf(b, h, r) ==
    IF r.err # "none" \/ r.v[1] > Len(r.b) THEN [err |-> "Done"]
    ELSE LET off == Len(b) - Len(r.b)
         IN  OpenPacket(IF IsEncryptionDisabled(h.type) THEN ReadPlainHeader(b, off, h)
                        ELSE DecryptHeader(b, off, h), off, r.v[1])

RecvPacket(b) ==
    With(HeaderFromBytes(b, Len(dgram.set.dcid)), LAMBDA h :
        IF h.err # "none" THEN [err |-> "Done"]
        ELSE PayloadOf(b, h.hdr, IF h.hdr.type = "OneRTT"
                                 THEN [Reader(h.b) EXCEPT !.v = <<Len(h.b)>>]
                                 ELSE ReadVarint(Reader(h.b))))

DgRecv ==
    /\ dgram.phase = "recv" /\ dgram.rest # <<>>
    /\ \E p \in {RecvPacket(dgram.rest)} :
         dgram' = IF p.err # "none"
                  THEN [dgram EXCEPT !.rest = <<>>,
                          !.got = IF p.err = "Done" THEN @ ELSE Append(@, [error |-> p.err])]
                  ELSE [dgram EXCEPT !.rest = SubSeq(@, p.used + 1, Len(@)),
                          !.got = Append(@, p.pkt)]

DgDone == dgram.phase = "recv" /\ dgram.rest = <<>> /\ UNCHANGED dgram

DgNext ==
    \/ DgOpen \/ DgPad \/ DgFlush \/ DgRecv \/ DgDone
    \/ \E f \in PacketFrames : DgFrame(f)

(***************************************************************************)
(* Properties                                                              *)
(***************************************************************************)
\* A packet that ended because a frame did not fit may be shorter than the
\* sample of header protection reaches; the receiver cannot open it.
TooShort(p) == Len(p.frames) > 0 /\
    p.hdr.pnLen + FoldLeft(LAMBDA n, f : n + WireLen(f), 0, p.frames) < MaxPktNumLen

\* The receiver gets every packet the sender coalesced into a datagram, each
\* with its header, its number and its frames, whatever the lengths of ids,
\* token and number are (to_bytes and from_bytes, header protection, the
\* length field, wire_len and the room it is compared with).
DatagramSurvives ==
    LET ok == SelectSeq(dgram.pkts, LAMBDA p : ~TooShort(p))
    IN  /\ Len(dgram.out) <= dgram.set.room
        /\ dgram.got = SubSeq(ok, 1, Len(dgram.got))
        /\ dgram.phase = "recv" /\ dgram.rest = <<>> => dgram.got = ok

=============================================================================
