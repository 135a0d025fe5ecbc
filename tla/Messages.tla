------------------------------ MODULE Messages ------------------------------
(***************************************************************************)
(* Messages that one endpoint encodes and the other decodes in one go:     *)
(* frames, transport parameters (trans_param.rs), address tokens           *)
(* (token.rs), the packets outside a connection and HTTP/3 field sections. *)
(* A behaviour takes one sample through its encoder and its decoder.       *)
(*                                                                         *)
(* An Option is a sequence of at most one value.  The sixteen-byte fields  *)
(* and the addresses of the code are byte strings.                         *)
(***************************************************************************)
EXTENDS Packets, Qpack, TLC

CONSTANTS
    SampleFrames,        \* frames with the packet type that carries them
    SampleParams,        \* transport parameters with the side that sends them
    SampleTokens,        \* address tokens with the circumstances of their use
    SampleHeaders,       \* header lists with the largest size the decoder takes
    SampleSpecials,      \* Retry, Version Negotiation and Stateless Reset
    MaxStreamsPerType,   \* MAX_STREAMS_PER_TYPE, 2^60 in the code
    MultipathParam       \* stands for the eight-byte id 0x0f739bbc1b666d05

VARIABLE job

TicksPerSecond == 2

(***************************************************************************)
(* Transport parameters.                                                   *)
(***************************************************************************)
DefaultParams ==
    [odcid |-> <<>>, idle |-> 0, reset |-> <<>>, udp |-> 65527, data |-> 0,
     bidiLocal |-> 0, bidiRemote |-> 0, uni |-> 0, streamsBidi |-> 0, streamsUni |-> 0,
     exponent |-> 3, delay |-> 25, noMigration |-> FALSE, preferred |-> <<>>,
     cidLimit |-> 2, iscid |-> <<>>, rscid |-> <<>>, multipath |-> FALSE,
     plain |-> FALSE, dgram |-> <<>>]

\* ConnectionId::new keeps at most twenty bytes.
CidNew(b) == SubSeq(b, 1, AtMost(Len(b), MaxCidLen))

\* PreferredAddress::to_bytes and from_bytes: an absent address is all zeros.
PreferredToBytes(p) ==
    (IF p.v4 = <<>> THEN Zeros(6) ELSE p.v4[1]) \o (IF p.v6 = <<>> THEN Zeros(18) ELSE p.v6[1])
    \o WriteField("vec8", p.cid) \o p.token

PreferredFromBytes(b) ==
    LET addr(x) == IF \A i \in DOMAIN x : x[i] = 0 THEN <<>> ELSE <<x>>
    IN  With(ReadFields(Take(Take(Reader(b), 6), 18), <<"vec8", "raw16">>),
             LAMBDA r :
                 IF r.err # "none" THEN [err |-> r.err]
                 ELSE [err |-> "none",
                       addr |-> [v4 |-> addr(r.v[1]), v6 |-> addr(r.v[2]),
                                 cid |-> CidNew(r.v[3]), token |-> r.v[4]]])

\* What encode writes, in its order: a parameter's id, whether it is written,
\* and its value.
Entry(id, on, val) == [id |-> id, on |-> on, val |-> val]

IntEntry(id, n) == Entry(id, n # 0, WriteVarint(n))

OptEntry(id, on, opt) == Entry(id, on /\ opt # <<>>, FlattenSeq(opt))

ParamEntries(tp, isServer) ==
    <<OptEntry(0, isServer, tp.odcid), IntEntry(1, tp.idle), OptEntry(2, isServer, tp.reset),
      IntEntry(3, tp.udp), IntEntry(4, tp.data), IntEntry(5, tp.bidiLocal),
      IntEntry(6, tp.bidiRemote), IntEntry(7, tp.uni), IntEntry(8, tp.streamsBidi),
      IntEntry(9, tp.streamsUni), IntEntry(10, tp.exponent), IntEntry(11, tp.delay),
      Entry(12, tp.noMigration, <<>>),
      OptEntry(13, TRUE, [i \in DOMAIN tp.preferred |-> PreferredToBytes(tp.preferred[i])]),
      Entry(14, tp.cidLimit >= 2, WriteVarint(tp.cidLimit)), OptEntry(15, TRUE, tp.iscid),
      OptEntry(16, isServer, tp.rscid), Entry(MultipathParam, tp.multipath, <<>>),
      Entry(47789, tp.plain, <<>>),
      OptEntry(32, TRUE, [i \in DOMAIN tp.dgram |-> WriteVarint(tp.dgram[i])])>>

EncodeParams(tp, isServer) ==
    With(ParamEntries(tp, isServer), LAMBDA s :
        FlattenSeq([i \in DOMAIN s |->
            IF s[i].on THEN WriteVarint(s[i].id) \o WriteField("vec", s[i].val) ELSE <<>>]))

\* decode.  Parameters whose value is one integer: the field, and the check.
IntField == 1 :> "idle" @@ 3 :> "udp" @@ 4 :> "data" @@ 5 :> "bidiLocal" @@ 6 :> "bidiRemote"
            @@ 7 :> "uni" @@ 8 :> "streamsBidi" @@ 9 :> "streamsUni" @@ 10 :> "exponent"
            @@ 11 :> "delay" @@ 14 :> "cidLimit"

IntAllowed(id, n) ==
    /\ id = 3 => n >= 1200
    /\ id \in {8, 9} => n <= MaxStreamsPerType
    /\ id = 10 => n <= 20
    /\ id = 11 => n < 16384
    /\ id = 14 => n >= 2

ServerOnly == {0, 2, 13, 16}

TpErr(e) == [tp |-> DefaultParams, err |-> e]

TpOk(tp) == [tp |-> tp, err |-> "none"]

DecodeInt(tp, id, val) ==
    With(ReadVarint(Reader(val)), LAMBDA r :
        IF r.err # "none" THEN TpErr(r.err)
        ELSE IF id = 32 THEN TpOk([tp EXCEPT !.dgram = IF r.v[1] = 0 THEN <<>> ELSE r.v])
        ELSE IF IntAllowed(id, r.v[1]) THEN TpOk([tp EXCEPT ![IntField[id]] = r.v[1]])
        ELSE TpErr("TransportParameterError"))

DecodeParam(tp, id, val, isServer) ==
    IF isServer /\ id \in ServerOnly THEN TpErr("TransportParameterError")
    ELSE CASE id = 0 -> TpOk([tp EXCEPT !.odcid = <<CidNew(val)>>])
           [] id = 2 -> IF Len(val) < 16 THEN TpErr("BufferTooShort")
                        ELSE TpOk([tp EXCEPT !.reset = <<SubSeq(val, 1, 16)>>])
           [] id = 12 -> TpOk([tp EXCEPT !.noMigration = TRUE])
           [] id = 13 -> With(PreferredFromBytes(val), LAMBDA p :
                             IF p.err # "none" THEN TpErr(p.err)
                             ELSE TpOk([tp EXCEPT !.preferred = <<p.addr>>]))
           [] id = 15 -> TpOk([tp EXCEPT !.iscid = <<CidNew(val)>>])
           [] id = 16 -> TpOk([tp EXCEPT !.rscid = <<CidNew(val)>>])
           [] id = MultipathParam -> TpOk([tp EXCEPT !.multipath = TRUE])
           [] id = 47789 -> TpOk([tp EXCEPT !.plain = TRUE])
           [] id \in DOMAIN IntField \cup {32} -> DecodeInt(tp, id, val)
           [] OTHER -> TpOk(tp)

RECURSIVE DecodeFrom(_, _, _, _)
DecodeFrom(b, st, found, isServer) ==
    IF b = <<>> \/ st.err # "none" THEN st
    ELSE With(ReadVarint(Reader(b)), LAMBDA r :
             IF r.err # "none" THEN TpErr(r.err)
             ELSE IF r.v[1] \in found THEN TpErr("TransportParameterError")
             ELSE With(ReadField(r, "vec"), LAMBDA q :
                 IF q.err # "none" THEN TpErr(q.err)
                 ELSE DecodeFrom(q.b, DecodeParam(st.tp, q.v[1], q.v[2], isServer),
                                 found \cup {q.v[1]}, isServer)))

DecodeParams(b, isServer) == DecodeFrom(b, TpOk(DefaultParams), {}, isServer)

(***************************************************************************)
(* Address tokens.                                                         *)
(***************************************************************************)
Label == <<113, 117, 105, 99>>

TypeByte(type) == IF type = "Retry" THEN 0 ELSE 1

AdditionalData(type, ip, port, rscid) ==
    ip \o (IF type = "Retry" THEN WriteField("u16", port) \o rscid ELSE <<>>)

\* encode; the nonce takes the place of the packet number in the AEAD.
EncodeToken(t, nonce) ==
    LET body == WriteField("u64", t.issued \div TicksPerSecond)
                \o (IF t.type = "Retry" THEN WriteField("vec8", t.odcid) ELSE <<>>)
    IN  Label \o <<TypeByte(t.type)>> \o PutUint(nonce, 12)
        \o Seal(AdditionalData(t.type, t.ip, t.port, t.rscid), nonce, body)

TokenErr(e) == [err |-> e]

TokenOut(type, issued, odcid, dcid) ==
    [err |-> "none", type |-> type, issued |-> issued, odcid |-> odcid,
     rscid |-> IF type = "Retry" THEN dcid ELSE <<>>]

\* The original id of a Retry, behind its length.
DecodeOdcid(type, issued, dcid, r) ==
    IF r.err # "none" THEN TokenErr(r.err)
    ELSE IF LastRead(r) = 0 THEN TokenOut(type, issued, <<>>, dcid)
    ELSE IF LastRead(r) > MaxCidLen THEN TokenErr("InvalidToken")
    ELSE With(TakeCounted(r), LAMBDA c :
             IF c.err # "none" THEN TokenErr(c.err)
             ELSE TokenOut(type, issued, <<LastRead(c)>>, dcid))

\* The body in the clear: time of issue, then the original id of a Retry.
DecodeBody(type, plain, dcid, now, lifetime) ==
    With(ReadField(Reader(plain), "u64"), LAMBDA r :
        IF r.err # "none" THEN TokenErr(r.err)
        ELSE With(r.v[1] * TicksPerSecond, LAMBDA issued :
            IF issued > now \/ now - issued > lifetime THEN TokenErr("InvalidToken")
            ELSE IF type = "Resume" THEN TokenOut(type, issued, <<dcid>>, dcid)
            ELSE DecodeOdcid(type, issued, dcid, ReadField(r, "u8"))))

DecodeToken(b, ip, port, dcid, now, lifetime) ==
    With(TakeUint(ReadFields(Reader(b), <<"raw4", "u8">>), 12), LAMBDA r :
        IF Len(r.v) > 0 /\ r.v[1] # Label THEN TokenErr("InvalidToken")
        ELSE IF Len(r.v) > 1 /\ r.v[2] > 1 THEN TokenErr("InvalidToken")
        ELSE IF r.err # "none" THEN TokenErr(r.err)
        ELSE LET type == IF r.v[2] = 0 THEN "Retry" ELSE "Resume"
             IN  With(Open(AdditionalData(type, ip, port, dcid), r.v[3], r.b), LAMBDA p :
                     IF p.err # "none" THEN TokenErr("InvalidToken")
                     ELSE DecodeBody(type, p.plain, dcid, now, lifetime)))

\* AddressToken::token_type, which looks at the label's neighbour only.
TokenType(b) ==
    IF Len(b) < 5 \/ b[5] > 1 THEN "InvalidToken" ELSE IF b[5] = 0 THEN "Retry" ELSE "Resume"

(***************************************************************************)
(* One sample through its encoder and its decoder.                         *)
(***************************************************************************)
JobInit ==
    \E s \in [lane : {"frame"}, in : SampleFrames] \cup [lane : {"params"}, in : SampleParams]
            \cup [lane : {"token"}, in : SampleTokens]
            \cup [lane : {"special"}, in : SampleSpecials]
            \cup [lane : {"headers"}, in : SampleHeaders] :
        job = [lane |-> s.lane, in |-> s.in, step |-> "new", wire |-> <<>>, cut |-> 0,
               out |-> [err |-> "none"]]

SpecialBytes(x) ==
    CASE x.kind = "Retry"  -> RetryPacket(x.scid, x.dcid, x.odcid, x.token)
      [] x.kind = "VersionNegotiation" -> VersionNegotiation(x.scid, x.dcid, x.noise)
      [] x.kind = "Reset"  -> StatelessReset(x.noise, x.token)

JobEncode ==
    /\ job.step = "new"
    /\ job' = [job EXCEPT !.step = "sent",
          !.wire = CASE job.lane = "frame"   -> ToBytes(job.in.frame)
                     [] job.lane = "params"  -> EncodeParams(job.in.tp, job.in.server)
                     [] job.lane = "token"   -> EncodeToken(job.in, job.in.nonce)
                     [] job.lane = "headers" -> QpackEncode(job.in.headers)
                     [] job.lane = "special" -> SpecialBytes(job.in)]

\* The payload may go on behind a frame (cut is -1) or end inside it.
JobFrame(cut) ==
    /\ job.step = "sent" /\ job.lane = "frame"
    /\ cut < Len(job.wire)
    /\ job' = [job EXCEPT !.step = "done", !.cut = cut,
          !.out = FromBytes(IF cut = -1 THEN job.wire \o <<1>>
                            ELSE SubSeq(job.wire, 1, Len(job.wire) - cut), job.in.pkt)]

\* So may a field section.
JobHeaders(cut) ==
    /\ job.step = "sent" /\ job.lane = "headers"
    /\ cut \in 0..(Len(job.wire) - 1)
    /\ job' = [job EXCEPT !.step = "done", !.cut = cut,
          !.out = QpackDecode(SubSeq(job.wire, 1, Len(job.wire) - cut), job.in.max)]

JobDecode ==
    /\ job.step = "sent" /\ job.lane \notin {"frame", "headers"}
    /\ job' = [job EXCEPT !.step = "done",
          !.out = CASE job.lane = "params" -> DecodeParams(job.wire, ~job.in.server)
                    [] job.lane = "token" ->
                         DecodeToken(job.wire, job.in.atIp, job.in.atPort, job.in.atDcid,
                                     job.in.now, job.in.lifetime)
                    [] job.in.kind = "Reset" ->
                         [hdr |-> HeaderFromBytes(job.wire, 4), ok |-> TRUE,
                          token |-> ResetTokenOf(job.wire), info |-> <<>>]
                    [] OTHER ->
                         [hdr |-> HeaderFromBytes(job.wire, 4), token |-> <<>>,
                          ok |-> VerifyRetryTag(job.wire, job.in.odcid),
                          info |-> HeaderInfo(job.wire, 4)]]

JobDone == job.step = "done" /\ UNCHANGED job

JobNext ==
    JobEncode \/ JobDecode \/ JobDone \/ \E cut \in (-1)..300 : JobFrame(cut) \/ JobHeaders(cut)

(***************************************************************************)
(* Properties                                                              *)
(***************************************************************************)
\* Every frame takes exactly wire_len bytes, is read back as it was written
\* whatever follows it, and no strict prefix of it is taken for a frame
\* (padding apart, whose prefixes are shorter padding).
FrameOk ==
    LET f == job.in.frame IN
    /\ Len(job.wire) = WireLen(f)
    /\ job.step = "done" =>
         CASE job.cut > 0 -> job.out.err # "none" \/ f.kind = "Paddings"
           [] OTHER -> /\ job.out.err = "none" /\ job.out.frame = f
                       /\ job.out.b = IF job.cut = 0 THEN <<>> ELSE <<1>>

\* The values decode refuses.
Refused(tp) == ~(\A id \in DOMAIN IntField : tp[IntField[id]] # 0 => IntAllowed(id, tp[IntField[id]]))

\* The values that encode has no way to send: it leaves a zero out (and a
\* limit of connection ids below two), and for these fields the value that
\* the peer then assumes is another one: 65527, 3, 25 and 2.
Unsendable(tp) ==
    {f \in {"udp", "exponent", "delay"} : tp[f] = 0} \cup {f \in {"cidLimit"} : tp[f] < 2}

\* What the peer of a server or a client is to learn of tp.  The fields that
\* only a server sends are left out by a client, and a DATAGRAM size of zero
\* means the same as none.
Meant(tp, server) ==
    [f \in DOMAIN tp |->
        IF f \in {"odcid", "reset", "rscid"} /\ ~server THEN <<>>
        ELSE IF f = "dgram" /\ tp[f] = <<0>> THEN <<>>
        ELSE IF f \in Unsendable(tp) THEN DefaultParams[f]
        ELSE tp[f]]

ParamsOk ==
    IF Refused(Meant(job.in.tp, job.in.server)) THEN job.out.err = "TransportParameterError"
    ELSE job.out = TpOk(Meant(job.in.tp, job.in.server))

\* A token is accepted from the address it was issued to, and a Retry token
\* from the port and with the id of the Retry, during its lifetime (which is
\* counted from the whole second), and gives the original id back.
TokenOk ==
    LET t == job.in
        same == t.ip = t.atIp /\ (t.type = "Retry" => t.port = t.atPort /\ t.rscid = t.atDcid)
        age == t.now - t.issued
    IN  IF job.out.err = "none"
        THEN /\ same /\ age <= t.lifetime
             /\ job.out.odcid = IF t.type = "Resume" THEN <<t.atDcid>> ELSE <<t.odcid>>
             /\ TokenType(job.wire) = t.type
        ELSE ~same \/ t.issued > t.now \/ age > t.lifetime - TicksPerSecond

SpecialOk ==
    LET x == job.in
        o == job.out
        h == o.hdr.hdr
    IN  /\ o.hdr.err = "none"
        /\ x.kind = "Reset" => o.token = x.token /\ h.type = "OneRTT"
        /\ x.kind # "Reset" => /\ h.type = x.kind /\ h.dcid = x.dcid /\ h.scid = x.scid
                              /\ o.info[1] /\ o.info[3] = x.dcid
        /\ x.kind = "Retry" => o.ok /\ h.token = x.token
        /\ x.kind = "VersionNegotiation" => o.hdr.b = PutUint(1, 4)

\* A field section gives back the headers, their names in lower case, unless
\* they are larger than the decoder takes; a prefix of it gives a prefix of
\* them or an error.
SizeOf(h) == Len(h.name) + Len(h.value) + 32
TotalSize(hs) == FoldLeft(LAMBDA acc, h : acc + SizeOf(h), 0, hs)
HeadersOk ==
    LET meant == [i \in DOMAIN job.in.headers |->
                     [job.in.headers[i] EXCEPT !.name = ToLower(@)]]
    IN  IF job.out.err = "none"
        THEN /\ IsPrefix(job.out.headers, meant) /\ TotalSize(job.out.headers) <= job.in.max
             /\ job.cut = 0 => job.out.headers = meant
        ELSE job.cut > 0 \/ TotalSize(meant) > job.in.max

\* What an endpoint encodes is what its peer decodes: each frame as above;
\* each transport parameter with the value that was set or, when the peer
\* must refuse the value, an error, except for the values encode cannot send
\* (Unsendable), where the peer goes by the default although the endpoint
\* goes by the value it set; each address token from its own address in its
\* own time; Retry, Version Negotiation and Stateless Reset packets; the
\* headers of an HTTP/3 message.
MessageSurvives ==
    /\ job.lane = "frame" /\ job.step # "new" => FrameOk
    /\ job.step = "done" => CASE job.lane = "params"  -> ParamsOk
                              [] job.lane = "token"   -> TokenOk
                              [] job.lane = "special" -> SpecialOk
                              [] job.lane = "headers" -> HeadersOk
                              [] OTHER -> TRUE

=============================================================================
