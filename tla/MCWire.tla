------------------------------- MODULE MCWire -------------------------------
EXTENDS Messages, RangeSet, KeyUpdate, Pmtud, Sched, H3

Bytes(n) == [i \in 1..n |-> (7 * i + n) % 256]

\* The boundaries of the varint lengths.
Edges == {0, 63, 64, 16383, 16384, 1073741823, 1073741824}

OneInt == {"MaxData", "DataBlocked", "RetireConnectionId"}
TwoInts == {"StopSending", "MaxStreamData", "StreamDataBlocked"}

MCSampleFrames ==
    {[frame |-> f, pkt |-> "OneRTT"] : f \in
        {Frame(k, FALSE, <<n>>) : k \in OneInt, n \in Edges}
        \cup {Frame(k, b, <<n>>) : k \in {"MaxStreams", "StreamsBlocked"}, b \in BOOLEAN, n \in {64}}
        \cup {Frame(k, FALSE, <<n, 16383>>) : k \in TwoInts, n \in {63, 16384}}
        \cup {Frame(k, FALSE, <<1, n, 64>>) : k \in {"ResetStream", "PathStatus"}, n \in {63, 64}}
        \cup {Frame("Stream", b, <<id, off, Bytes(n)>>) :
                 b \in BOOLEAN, id \in {0, 64}, off \in {0, 16384}, n \in {0, 1, 64}}
        \cup {Frame("NewToken", FALSE, <<Bytes(n)>>) : n \in {1, 63, 64}}
        \cup {Frame("Datagram", FALSE, <<Bytes(n)>>) : n \in {0, 63, 64}}
        \cup {Frame("NewConnectionId", FALSE, <<64, 3, Bytes(n), Bytes(16)>>) : n \in {1, 20}}
        \cup {Frame(k, FALSE, <<Bytes(8)>>) : k \in {"PathChallenge", "PathResponse"}}
        \cup {Frame("ApplicationClose", FALSE, <<256, Bytes(n)>>) : n \in {0, 64}}
        \cup {Frame("PathAbandon", FALSE, <<1, 64, Bytes(n)>>) : n \in {0, 64}}
        \cup {Frame("HandshakeDone", FALSE, <<>>)}}
    \cup {[frame |-> f, pkt |-> "Initial"] : f \in
        {Frame("Crypto", FALSE, <<off, Bytes(n)>>) : off \in {0, 16384}, n \in {1, 64}}
        \cup {Frame("Ack", FALSE, <<64, r, e>>) :
                 r \in {<<<<0, 1>>>>, <<<<5, 9>>>>, <<<<0, 1>>, <<2, 3>>>>,
                        <<<<3, 10>>, <<80, 200>>, <<16600, 16700>>>>},
                 e \in {<<>>, <<1, 64, 0>>}}
        \cup {Frame("ConnectionClose", FALSE, <<10, 0, Bytes(n)>>) : n \in {0, 64}}
        \cup {Frame("Ping", FALSE, <<>>), Frame("Paddings", FALSE, <<3>>)}}

Base == [DefaultParams EXCEPT !.idle = 30000, !.data = 16384, !.bidiLocal = 64,
            !.bidiRemote = 1073741824, !.uni = 63, !.streamsBidi = 100, !.streamsUni = 3,
            !.iscid = <<Bytes(8)>>]

Preferred(v4, v6) ==
    <<[v4 |-> IF v4 THEN <<Bytes(6)>> ELSE <<>>, v6 |-> IF v6 THEN <<Bytes(18)>> ELSE <<>>,
       cid |-> Bytes(4), token |-> Bytes(16)]>>

MCSampleParams ==
    [server : BOOLEAN, tp :
        {Base, DefaultParams}
        \cup {[Base EXCEPT !.odcid = <<Bytes(20)>>, !.reset = <<Bytes(16)>>, !.rscid = <<<<>>>>]}
        \cup {[Base EXCEPT !.udp = n] : n \in {0, 1199, 1200, 65527}}
        \cup {[Base EXCEPT !.exponent = n] : n \in {0, 20, 21}}
        \cup {[Base EXCEPT !.delay = n] : n \in {0, 16383, 16384}}
        \cup {[Base EXCEPT !.cidLimit = n] : n \in {0, 1, 2, 64}}
        \cup {[Base EXCEPT !.streamsBidi = n] : n \in {MaxStreamsPerType, MaxStreamsPerType + 1}}
        \cup {[Base EXCEPT !.streamsUni = n] : n \in {0, MaxStreamsPerType + 1}}
        \cup {[Base EXCEPT !.dgram = <<n>>] : n \in {0, 1, 65535}}
        \cup {[Base EXCEPT !.noMigration = b, !.multipath = c, !.plain = ~c] :
                 b \in BOOLEAN, c \in BOOLEAN}]
    \cup [server : {TRUE}, tp :
             {[Base EXCEPT !.preferred = Preferred(a, b)] : a \in BOOLEAN, b \in BOOLEAN}]

MCSampleTokens ==
    [type : {"Retry", "Resume"}, issued : {20, 21}, ip : {Bytes(4), Bytes(16)}, port : {443},
     odcid : {Bytes(8), Bytes(20)}, rscid : {Bytes(5)}, nonce : {9},
     atIp : {Bytes(4), Bytes(16)}, atPort : {443, 444}, atDcid : {Bytes(5), Bytes(20)},
     now : {19, 20, 21, 24, 25, 26, 30}, lifetime : {4}]

MCSampleSpecials ==
    [kind : {"Retry"}, scid : {<<>>, Bytes(20)}, dcid : {Bytes(4), <<>>},
     odcid : {Bytes(8)}, token : {Bytes(1), Bytes(70)}]
    \cup [kind : {"VersionNegotiation"}, scid : {Bytes(20), Bytes(3)}, dcid : {Bytes(4)},
          noise : {0, 127}, odcid : {<<>>}]
    \cup [kind : {"Reset"}, noise : {Bytes(5), Bytes(25)}, token : {Bytes(16)}]

Pkt(type, pn, acked, largest) == [type |-> type, pn |-> pn, acked |-> acked, largest |-> largest]

MCSetups ==
    [room : {60, 75, 100, 150}, dcid : {<<>>, Bytes(8)}, scid : {Bytes(3)},
     token : {<<>>, Bytes(5)}, phase : {FALSE}, expand : {FALSE}, plain : {FALSE},
     packets : {<<Pkt("Initial", 0, Absent, 0), Pkt("Handshake", 1, 0, 0),
                  Pkt("OneRTT", 0, Absent, 0)>>}]
    \cup [room : {30, 40, 60}, dcid : {<<>>, Bytes(8)}, scid : {<<>>}, token : {<<>>},
          phase : BOOLEAN, expand : BOOLEAN, plain : BOOLEAN,
          packets : {<<Pkt("OneRTT", 300, Absent, 0)>>, <<Pkt("OneRTT", 70000, 20, 69000)>>,
                     <<Pkt("OneRTT", 256, 255, 260)>>,
                     <<Pkt("Handshake", 5, 4, 4), Pkt("OneRTT", 7, 6, 5)>>}]

MCPacketFrames ==
    {Frame("Ack", FALSE, <<3, <<<<0, 1>>, <<3, 9>>>>, <<>>>>),
     Frame("ConnectionClose", FALSE, <<10, 0, Bytes(2)>>),
     Frame("PathChallenge", FALSE, <<Bytes(8)>>),
     Frame("HandshakeDone", FALSE, <<>>), Frame("MaxData", FALSE, <<16384>>),
     Frame("Crypto", FALSE, <<64, Bytes(14)>>), Frame("Stream", TRUE, <<4, 64, Bytes(6)>>),
     Frame("Stream", TRUE, <<8, 0, Bytes(30)>>), Frame("Datagram", FALSE, <<Bytes(9)>>),
     Frame("NewToken", FALSE, <<Bytes(20)>>), Frame("Ping", FALSE, <<>>)}

MCCapacities == {Absent, 2, 3}

(***************************************************************************)
(* HTTP/3: messages written in pieces and answered late or early, split at *)
(* any byte; streams given up half way; control streams with GOAWAY and    *)
(* PRIORITY_UPDATE; and what a foreign peer may write on its streams.      *)
(***************************************************************************)
Plain == [req |-> <<>>, resp |-> <<1>>, reqs |-> 1, early |-> FALSE, split |-> {},
          finAlone |-> FALSE, uni |-> {}, acks |-> FALSE, close |-> {},
          goaway |-> [e \in End |-> {}], prio |-> FALSE,
          wants |-> TRUE, foreign |-> <<>>]

H3Messages ==
    {[Plain EXCEPT !.req = <<1, 0>>, !.resp = <<1>>, !.split = End],
     [Plain EXCEPT !.req = <<2>>, !.resp = <<>>, !.split = {"s"}, !.finAlone = TRUE, !.acks = TRUE],
     [Plain EXCEPT !.resp = <<2, 1>>, !.split = {"c"}, !.finAlone = TRUE, !.acks = TRUE],
     [Plain EXCEPT !.resp = <<2>>, !.reqs = 2]}

Early == {[Plain EXCEPT !.early = TRUE, !.req = <<1, 1>>, !.split = {"s"}],
          [Plain EXCEPT !.early = TRUE, !.req = <<3>>, !.finAlone = TRUE, !.acks = TRUE]}

Close == {[Plain EXCEPT !.early = TRUE, !.req = <<1>>, !.close = c, !.acks = TRUE] :
            c \in {{"c"}, {"s"}}}
         \cup {[Plain EXCEPT !.early = TRUE, !.req = <<1>>, !.close = {"c"}, !.split = {"s"}]}

Control == {[Plain EXCEPT !.uni = {2, 3}, !.prio = TRUE,
                          !.goaway = [e \in End |-> IF e = "s" THEN {0, 4} ELSE {4}]]}

(* Frames of a foreign peer. *)
H3Frame(f) == CASE f = "D" -> Encode("D", <<>>)
              [] f = "H" -> Encode("H", Unit("h", 0))
              [] f \in {"S", "R"} -> Encode(f, <<>>)
              [] OTHER -> Encode(f, Unit("id", 1))

From(k, units, fin) == [Plain EXCEPT !.uni = UniOf("c") \cup UniOf("s"), !.finAlone = TRUE,
                                     !.foreign = (k :> [units |-> units, fin |-> fin])]

ForeignControl ==
    {From(k, Unit("ctrl", 0) \o H3Frame(f) \o H3Frame(g), fin) :
        k \in {<<2, "s">>, <<3, "c">>}, f \in {"S", "G", "R"}, g \in FrameTypes, fin \in BOOLEAN}

ForeignRequest ==
    {From(<<0, "s">>, H3Frame(f) \o H3Frame(g), TRUE) : f \in FrameTypes, g \in {"D", "H", "P"}}

ForeignUni ==
    {From(k, Unit(t, 0) \o Unit("id", 0) \o H3Frame("H"), TRUE) :
        k \in {<<14, "s">>, <<15, "c">>}, t \in {"push", "enc", "dec", "unknown", "ctrl"}}

\* Payloads that do not decode: an identifier cut short, a reserved setting,
\* a field section that is none.
Broken ==
    {From(<<2, "s">>, Unit("ctrl", 0) \o Encode("S", <<>>) \o Encode("G", <<Varint("id", 1, 2)[1]>>), FALSE),
     From(<<2, "s">>, Unit("ctrl", 0) \o Encode("S", Unit("set", 1)), FALSE),
     From(<<0, "s">>, Encode("H", Unit("h", 1)), TRUE)}

MCH3Modes == H3Messages \cup Early \cup Close \cup Control
                \cup ForeignControl \cup ForeignRequest \cup ForeignUni \cup Broken

(***************************************************************************)
(* Multipath scheduling.                                                   *)
(***************************************************************************)
ScPath(srtt, cwnd, flight) ==
    [active |-> TRUE, open |-> TRUE, srtt |-> srtt, cwnd |-> cwnd, flight |-> flight]
ScMode(algo, room, frames, paths) ==
    [algo |-> algo, room |-> room, frames |-> frames, paths |-> paths]
ThreePaths == <<ScPath(200, 12, 0), ScPath(100, 12, 6), ScPath(100, 6, 24)>>
MCScModes ==
    {ScMode("redundant", 2, 4, ThreePaths), ScMode("roundrobin", 1, 5, ThreePaths),
     ScMode("weighted", 1, 6, ThreePaths), ScMode("minrtt", 1, 3, ThreePaths),
     ScMode("blest", 1, 3, ThreePaths),
     ScMode("weighted", 1, 3, <<ScPath(200, 12, 0), ScPath(40000, 12, 6), ScPath(0, 24, 24)>>)}

(***************************************************************************)
(* Field sections.  The table has a name without a value, two rows of one  *)
(* name (not in the order of their indexes), and indexes of one and of two *)
(* octets in either representation.  The octets are '0', 'A', '\\' and 'a', *)
(* with their codes; '\\' is one the Huffman code makes longer.             *)
(***************************************************************************)
MCHuffmanCode ==
    48 :> <<0, 0, 0, 0, 0>> @@ 65 :> <<1, 0, 0, 0, 0, 1>> @@ 97 :> <<0, 0, 0, 1, 1>>
    @@ 92 :> <<1, 1, 1, 1, 1, 1, 1, 1, 1, 1, 1, 1, 1, 1, 1, 0, 0, 0, 0>>
MCStaticTable ==
    <<[name |-> <<97>>, value |-> <<>>, idx |-> 0],
      [name |-> <<97, 48>>, value |-> <<48, 48>>, idx |-> 63],
      [name |-> <<97, 48>>, value |-> <<97>>, idx |-> 14],
      [name |-> <<48>>, value |-> <<65>>, idx |-> 98],
      [name |-> <<48, 48>>, value |-> <<97, 97>>, idx |-> 62],
      [name |-> <<48, 97>>, value |-> <<>>, idx |-> 15]>>
Same(c, n) == [i \in 1..n |-> c]
Hdr(name, value) == [name |-> name, value |-> value]
MCSampleHeaders ==
    [max : {1000}, headers :
        {<<Hdr(<<65>>, <<48>>), Hdr(<<65, 48>>, <<48, 48>>), Hdr(<<97, 48>>, <<97>>)>>,
         <<Hdr(<<97, 48>>, <<92>>), Hdr(<<48>>, <<65>>), Hdr(<<48, 48>>, <<97, 97>>)>>,
         <<Hdr(<<48>>, <<>>), Hdr(<<48, 65>>, <<>>), Hdr(<<92, 65>>, <<92, 97>>)>>}
        \cup {<<Hdr(Same(c, n), Same(d, m))>> :
                 c \in {65, 92}, d \in {48, 92}, n \in {6, 7, 8, 11}, m \in {1, 3}}
        \cup {<<Hdr(<<97>>, Same(92, m))>> : m \in {126, 127, 128}}]
    \cup [max : {33, 34, 67, 68}, headers : {<<Hdr(<<65>>, <<48>>), Hdr(<<97, 48>>, <<>>)>>}]

(***************************************************************************)
(* The components share nothing: a behaviour is one of a single component, *)
(* named by lane, and the others rest.                                     *)
(***************************************************************************)
MCKuSends == [a |-> 3, b |-> 2]

CONSTANT Lanes

VARIABLE lane

DgOff == [phase |-> "off", set |-> [room |-> 0], pkts |-> <<>>, out |-> <<>>, got |-> <<>>]
JobOff == [lane |-> "off", step |-> "off"]
PnOff == [flight |-> {}, seen |-> {}, got |-> {}, win |-> WinNew]
KuOff == [end |-> [s \in KuSides |-> KuEndpoint(0)], net |-> {}, early |-> FALSE,
          refused |-> {}]
PmOff == [d |-> DplpmtudNew(FALSE, BasePmtu, FALSE), enable |-> FALSE, path |-> BasePmtu,
          peer |-> BasePmtu, flight |-> {}, losses |-> 0]
ScOff == [algo |-> "off", path |-> <<>>, sent |-> <<>>, buffered |-> <<>>, picks |-> <<>>]

MCInit ==
    /\ lane \in Lanes
    /\ IF lane = "datagram" THEN DgInit ELSE dgram = DgOff
    /\ IF lane = "message" THEN JobInit ELSE job = JobOff
    /\ IF lane = "number" THEN PnInit ELSE pns = PnOff
    /\ IF lane = "ranges" THEN RsInit ELSE rset = {} /\ ghost = {} /\ capacity = Absent
    /\ IF lane = "keys" THEN KuInit ELSE ku = KuOff
    /\ IF lane = "pmtu" THEN PmInit ELSE pm = PmOff
    /\ IF lane = "sched" THEN ScInit ELSE sc = ScOff
    /\ IF lane = "http3" THEN H3Init
       ELSE hx = <<>> /\ htr = <<>> /\ hap = <<>> /\ hmode = [foreign |-> <<0>>]

MCNext ==
    /\ UNCHANGED lane
    /\ IF lane = "datagram" THEN DgNext ELSE UNCHANGED dgram
    /\ IF lane = "message" THEN JobNext ELSE UNCHANGED job
    /\ IF lane = "number" THEN PnNext ELSE UNCHANGED pns
    /\ IF lane = "ranges" THEN RsNext ELSE UNCHANGED rsVars
    /\ IF lane = "keys" THEN KuNext ELSE UNCHANGED ku
    /\ IF lane = "pmtu" THEN PmNext ELSE UNCHANGED pm
    /\ IF lane = "sched" THEN ScNext ELSE UNCHANGED sc
    /\ IF lane = "http3" THEN H3Next ELSE UNCHANGED h3Vars

MCSpec == MCInit /\ [][MCNext]_<<lane, dgram, job, pns, rsVars, ku, pm, sc, h3Vars>>
=============================================================================
