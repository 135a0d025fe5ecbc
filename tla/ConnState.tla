----------------------------- MODULE ConnState ------------------------------
(* The life of a connection (src/connection: recv, send, handshake, query,   *)
(* dgram): the encryption levels and their keys, packets that arrive before  *)
(* their keys, when an ACK is due, what a packet may carry, HANDSHAKE_DONE   *)
(* and NEW_TOKEN, Retry and Version Negotiation, closing, draining and the   *)
(* idle, handshake, ack and draining timers.                                 *)
(*                                                                           *)
(* A client and a server over a network that loses, delays, reorders and     *)
(* duplicates datagrams.  The handshake messages of a level are one unit,    *)
(* as is the stream data a side sends.  Which packets are declared lost and  *)
(* when a probe is due is the subject of Recovery; here both may happen to   *)
(* any packet the rules there allow.                                         *)
EXTENDS Util, SequencesExt

CONSTANTS
  CnModes,      \* the scenarios, see CnMode
  CnThreshold,  \* ack_eliciting_threshold
  CnCapacity,   \* max_undecryptable_packets
  CnDgramCap,   \* the limit of the datagram queues, 128 in the code
  CnMaxProbes,  \* MAX_PTO_PROBES_COUNT
  CnMaxPkts     \* bound: packets a side sends in one space

VARIABLES
  cn,           \* the two connections
  cnet,         \* datagrams on their way: a set of [to, id, pkts]
  cmode         \* the scenario, and what is left of its budgets

cnVars == <<cn, cnet, cmode>>

Sides == {"client", "server"}
Peer(e) == IF e = "client" THEN "server" ELSE "client"
CnSpaces == {"I", "H", "D"}
\* Initial, 0-RTT, Handshake and 1-RTT packets; to_space()
SpaceOf(t) == IF t = "Z" THEN "D" ELSE t
\* frames that elicit an acknowledgment
Eliciting(fr) == fr \ {"ack", "close", "appclose"} # {}
MaxOf(S) == CHOOSE x \in S : \A y \in S : y <= x

\* ---------------------------------------------------------------------- state
NewCnSpace ==
  [next |-> 0, need |-> {}, win |-> {}, ae |-> 0, due |-> {}, sendAck |-> FALSE, count |-> 0,
   timer |-> FALSE, sent |-> {}, lost |-> {}, acked |-> -1, probes |-> 0, low |-> CnMaxPkts + 1]

NewCn(e) ==
  [side |-> e,
   open |-> IF e = "client" THEN {"I"} ELSE {}, seal |-> IF e = "client" THEN {"I"} ELSE {},
   flags |-> {}, err |-> "none", perr |-> "none",
   timers |-> IF cmode.hs THEN {"hs"} ELSE {}, idle |-> "off", quiet |-> TRUE,
   crypto |-> [t \in {"I", "H"} |-> "none"], data |-> "none",
   sp |-> [s \in CnSpaces |-> NewCnSpace], undec |-> [t \in {"Z", "H", "D"} |-> <<>>],
   order |-> <<>>, out |-> <<>>, in |-> <<>>, recv |-> 0, pto |-> 0]

Done(c) == "completed" \in c.flags
IsServer(c) == c.side = "server"
IsClosing(c) == c.err # "none"
IsDraining(c) == "drain" \in c.timers
IsClosed(c) == "closed" \in c.flags
Dead(c) == IsClosing(c) \/ IsDraining(c) \/ IsClosed(c)
EarlyData(c) == "Z" \in c.seal

Flag(c, F) == [c EXCEPT !.flags = @ \cup F]

\* close()
CloseWith(c, kind) == IF Dead(c) THEN c ELSE [c EXCEPT !.err = kind]

\* drop_space_state(): the keys, the crypto stream and what was sent
DropSpaceState(c, s) ==
  IF s \notin c.open THEN c
  ELSE [c EXCEPT !.open = @ \ {s}, !.seal = @ \ {s}, !.crypto["I"] = "none",
                 !.sp[s].sent = {}, !.sp[s].lost = {}, !.sp[s].probes = 0]

\* ------------------------------------------------------------------------ TLS
\* process() of a client that starts, or starts again after Retry
TlsStart(c) ==
  [c EXCEPT !.crypto["I"] = "ready", !.seal = @ \cup (IF cmode.early THEN {"Z"} ELSE {})]

\* provide(): the handshake messages of level t have been read
TlsProvide(c, t) ==
  CASE IsServer(c) /\ t = "I" /\ c.crypto["H"] = "none" ->
         [c EXCEPT !.crypto = [I |-> "ready", H |-> "ready"],
                   !.open = @ \cup {"H"} \cup (IF cmode.early THEN {"Z"} ELSE {}),
                   !.seal = @ \cup {"H", "D"}]
    [] ~IsServer(c) /\ t = "I" /\ "started" \in c.flags /\ c.crypto["H"] = "none" ->
         [c EXCEPT !.open = @ \cup {"H"}, !.seal = @ \cup {"H"}]
    [] ~IsServer(c) /\ t = "H" /\ ~Done(c) ->
         [c EXCEPT !.open = @ \cup {"D"}, !.seal = (@ \ {"Z"}) \cup {"D"}, !.crypto["H"] = "ready"]
    [] IsServer(c) /\ t = "H" /\ ~Done(c) -> [c EXCEPT !.open = (@ \ {"Z"}) \cup {"D"}]
    [] OTHER -> c
TlsCompleted(c) == "D" \in c.open

\* process_tls_session(): the packets that waited for keys follow
RECURSIVE ProcessUndecryptable(_)
ConfirmedServer(c) ==
  IF IsServer(c) THEN DropSpaceState(Flag(c, {"confirmed", "needDone", "needToken"}), "H") ELSE c
ProcessTls(c) ==
  IF Done(c) \/ ~TlsCompleted(c) THEN c
  ELSE ConfirmedServer(ProcessUndecryptable([Flag(c, {"completed"}) EXCEPT !.timers = @ \ {"hs"}]))

\* -------------------------------------------------------------------- receive
\* try_process_acked_frames() for one packet
AckedFrames(c, s, p) ==
  [c EXCEPT
     !.sp[s].need = IF "ack" \in p.fr THEN {n \in @ : n > MaxOf(p.acks)} ELSE @,
     !.crypto = IF "crypto" \in p.fr THEN [@ EXCEPT ![s] = "acked"] ELSE @,
     !.flags = IF "done" \in p.fr THEN (@ \ {"needDone"}) \cup {"doneAcked"} ELSE @,
     !.data = IF "data" \in p.fr THEN "acked" ELSE @]

MConfirmsHandshake(c, acks) == ~IsServer(c)
\* A client takes the handshake for confirmed when a 1-RTT packet is acked
ConfirmsHandshake(c, acks) == ~IsServer(c) /\ MaxOf(acks) > c.sp["D"].low

\* recv_frame(): ACK.  The frames of the packets it acknowledges are kept
\* until the packet that carries the ACK has been read.
Hit(c, s, acks) == {p \in c.sp[s].sent : p.pn \in acks}
DropIfConfirmed(c) == IF "confirmed" \in c.flags THEN DropSpaceState(c, "H") ELSE c
RecvAck(c, s, acks) ==
  DropIfConfirmed(
    [c EXCEPT
       !.flags = @ \cup (IF s = "H" \/ (s = "D" /\ Done(c)) THEN {"verified"} ELSE {})
                   \cup (IF s = "D" /\ Done(c) /\ ConfirmsHandshake(c, acks)
                         THEN {"confirmed"} ELSE {}),
       !.sp[s].sent = @ \ Hit(c, s, acks), !.sp[s].acked = AtLeast(@, MaxOf(acks)),
       !.pto = IF Hit(c, s, acks) = {} THEN @ ELSE 0])

\* recv_frame(): CONNECTION_CLOSE, HANDSHAKE_DONE, CRYPTO and DATAGRAM
RecvClose(c, p) ==
  IF p.fr \cap {"close", "appclose"} = {} THEN c
  ELSE [c EXCEPT !.perr = IF "close" \in p.fr THEN "trans" ELSE "app", !.timers = @ \cup {"drain"}]
RecvDone(c, p) ==
  IF "done" \notin p.fr \/ IsServer(c) THEN c
  ELSE DropSpaceState(Flag(c, {"verified", "confirmed"}), "H")
RecvCrypto(c, p) == IF "crypto" \notin p.fr THEN c ELSE ProcessTls(TlsProvide(c, p.t))
RecvDatagrams(c, p) ==
  [c EXCEPT !.in = @ \o SubSeq(p.dg, 1, AtMost(SatSub(CnDgramCap, Len(@)), Len(p.dg)))]

\* recv_frame() for the first n kinds of frames of a packet, in the order they
\* are written
RecvSome(c, p, n) ==
  LET One(x, k) == CASE k = 1 -> IF "ack" \in p.fr THEN RecvAck(x, SpaceOf(p.t), p.acks) ELSE x
                     [] k = 2 -> RecvClose(x, p)
                     [] k = 3 -> RecvDone(x, p)
                     [] k = 4 -> RecvCrypto(x, p)
                     [] k = 5 -> RecvDatagrams(x, p)
  IN  FoldLeft(One, c, [k \in 1..n |-> k])

\* all of them, and then what the acknowledged packets carried
RecvFrames(c, p) ==
  LET s == SpaceOf(p.t)
      hit == IF "ack" \in p.fr THEN Hit(c, s, p.acks) ELSE {}
  IN  FoldLeft(LAMBDA x, q : AckedFrames(x, s, q), RecvSome(c, p, 5), SetToSeq(hit))

\* a threshold that is met only by the packet after it, with the timer stopped
MScheduleAck(c, s, pn, eliciting) ==
  LET b == c.sp[s]
      n == b.count + 1
  IN  IF ~eliciting \/ b.sendAck THEN c
      ELSE IF s # "D" \/ n > CnThreshold THEN [c EXCEPT !.sp[s].sendAck = TRUE]
      ELSE [c EXCEPT !.sp[s].count = n, !.sp[s].timer = n < CnThreshold]
\* try_schedule_ack_frame(): the packet is already in need and in ae
ScheduleAck(c, s, pn, eliciting) ==
  LET b == c.sp[s]
      now == [c EXCEPT !.sp[s].sendAck = TRUE]
      n == b.count + 1
  IN  IF ~eliciting \/ b.sendAck THEN c
      ELSE IF s # "D" THEN now
      ELSE IF n >= CnThreshold \/ pn < b.ae \/ pn > b.ae + 1
           THEN [now EXCEPT !.sp[s].count = n, !.sp[s].timer = FALSE]
           ELSE [c EXCEPT !.sp[s].count = n, !.sp[s].timer = TRUE]

\* Timer::Idle is set again
RestartIdle(c) == [c EXCEPT !.idle = IF cmode.idle THEN "fresh" ELSE "off"]

\* UndecryptablePackets: push(), pop() of the first packet of type t, ~is_empty()
PushUndecryptable(c, p) ==
  IF Len(c.undec[p.t]) > CnCapacity THEN c ELSE [c EXCEPT !.undec[p.t] = Append(@, p)]
PopUndecryptable(c, t) == [c EXCEPT !.undec[t] = Tail(@)]
HasUndecryptable(c, t) == c.undec[t] # <<>>

\* try_buffer_undecryptable_packets()
BufferUndecryptable(c, p) ==
  IF Done(c) \/ p.t \notin (IF IsServer(c) THEN {"Z", "D"} ELSE {"H", "D"}) THEN c
  ELSE PushUndecryptable(c, p)

\* process_retry() and process_version_negotiation(): the client starts again
StartAgain(c, flag) ==
  TlsStart([DropSpaceState(Flag(c, {flag}), "I") EXCEPT !.open = @ \cup {"I"}, !.seal = @ \cup {"I"}])

\* recv_packet() once the packet is decrypted.  reject: a frame of the packets
\* of one type is refused, after the first n kinds of frames were received
NoReject == [t |-> "none", n |-> 0]
Registered(c, p) ==
  LET s == SpaceOf(p.t)
      ae == Eliciting(p.fr)
  IN  [RestartIdle(ScheduleAck(
         [c EXCEPT !.sp[s].win = @ \cup {p.pn}, !.sp[s].need = @ \cup {p.pn},
                   !.sp[s].ae = IF ae THEN AtLeast(@, p.pn) ELSE @,
                   !.sp[s].due = IF ae THEN @ \cup {p.pn} ELSE @, !.recv = 1],
         s, p.pn, ae)) EXCEPT !.quiet = TRUE]
ProcessPacket(c, p, reject) ==
  IF p.t = reject.t THEN CloseWith(RecvSome(c, p, reject.n), "trans")
  ELSE IF IsServer(c) /\ p.t = "H" THEN DropSpaceState(Registered(RecvFrames(c, p), p), "I")
  ELSE Registered(RecvFrames(c, p), p)

\* detect_duplicated_pkt_num()
Duplicated(c, p) == p.pn \in c.sp[SpaceOf(p.t)].win

\* recv_packet(): the outcome and whether the rest of the datagram is read
Derived(c) ==
  IF IsServer(c) /\ "derived" \notin c.flags
  THEN [Flag(c, {"derived"}) EXCEPT !.open = {"I"}, !.seal = {"I"}] ELSE c
Decrypted(c, p, reject) ==
  IF p.t \notin c.open THEN [c |-> BufferUndecryptable(c, p), more |-> TRUE]
  ELSE IF Duplicated(c, p) THEN [c |-> c, more |-> FALSE]
  ELSE [c |-> ProcessPacket(c, p, reject), more |-> p.t # reject.t]
RecvPacket(r, p, reject) ==
  LET c == r.c IN
  IF ~r.more THEN r
  ELSE IF Dead(c) THEN [c |-> c, more |-> FALSE]
  ELSE IF p.t = "V"
       THEN [c |-> IF IsServer(c) \/ "didVn" \in c.flags \/ c.recv > 0 THEN c
                   ELSE StartAgain(c, "didVn"), more |-> FALSE]
  ELSE IF p.t = "R"
       THEN [c |-> IF IsServer(c) \/ "didRetry" \in c.flags THEN c
                   ELSE StartAgain(c, "didRetry"), more |-> FALSE]
  ELSE Decrypted(Derived(c), p, reject)

\* try_process_undecryptable_packets(): the packets whose keys have come, one at
\* a time, each a datagram to recv(), which ends here again
ProcessUndecryptable(c) ==
  LET Types == IF IsServer(c) THEN <<"Z", "D">> ELSE <<"H", "D">>
      ready == SelectSeq(Types, LAMBDA t : t \in c.open /\ HasUndecryptable(c, t))
      t == Head(ready)
  IN  IF ready = <<>> THEN c
      ELSE ProcessUndecryptable(
             RecvPacket([c |-> PopUndecryptable(c, t), more |-> TRUE], Head(c.undec[t]), NoReject).c)

\* recv()
WithUndecryptable(c, reject) ==
  IF Done(c) \/ reject # NoReject THEN c ELSE ProcessUndecryptable(c)
Recv(c, pkts, reject) ==
  WithUndecryptable(
    FoldLeft(LAMBDA x, p : RecvPacket(x, p, reject), [c |-> c, more |-> TRUE], pkts).c, reject)

\* ----------------------------------------------------------------------- send
\* crypto data is not sent again
MLostFrames(c) ==
  LET One(x, s) ==
        [x EXCEPT !.sp[s].lost = {}, !.sp[s].sendAck = @ \/ "ack" \in x.sp[s].lost]
  IN  FoldLeft(One, c, <<"I", "H", "D">>)
\* process_all_lost_frames()
LostFrames(c) ==
  LET Resent(x) == IF x = "sent" THEN "ready" ELSE x
      One(x, s) ==
        [x EXCEPT
           !.sp[s].lost = {},
           !.sp[s].sendAck = @ \/ "ack" \in x.sp[s].lost,
           !.flags = @ \cup (IF "done" \in x.sp[s].lost /\ "doneAcked" \notin @
                             THEN {"needDone"} ELSE {})
                       \cup (IF "token" \in x.sp[s].lost THEN {"needToken"} ELSE {}),
           !.crypto = IF "crypto" \in x.sp[s].lost THEN [@ EXCEPT ![s] = Resent(@)] ELSE @,
           !.data = IF "data" \in x.sp[s].lost THEN Resent(@) ELSE @]
  IN  FoldLeft(One, c, <<"I", "H", "D">>)

\* write_level() of the TLS session
WriteLevel(c) == IF "D" \in c.seal THEN "D" ELSE IF "H" \in c.seal THEN "H" ELSE "I"

NeedDone(c) == IsServer(c) /\ Done(c) /\ "needDone" \in c.flags
NeedToken(c) == IsServer(c) /\ Done(c) /\ "needToken" \in c.flags

\* select_send_packet_type(): "none" is Error::Done
SelectType(c) ==
  LET w == WriteLevel(c)
      Busy(s) == /\ s \in c.seal
                 /\ \/ s # "D" /\ c.crypto[s] = "ready"
                    \/ c.sp[s].sendAck \/ c.sp[s].probes > 0
      more == NeedDone(c) \/ NeedToken(c) \/ c.err = "app" \/ c.data = "ready" \/ c.out # <<>>
  IN  CASE c.err = "trans" -> IF Done(c) THEN w
                              ELSE IF w = "D" THEN "H"
                              ELSE IF "I" \in c.seal THEN "I" ELSE w
        [] c.err # "trans" /\ Busy("I") -> "I"
        [] c.err # "trans" /\ ~Busy("I") /\ Busy("H") -> "H"
        [] c.err # "trans" /\ ~Busy("I") /\ ~Busy("H") /\ Busy("D") -> "D"
        [] OTHER -> IF (Done(c) \/ c.seal \cap {"Z", "D"} # {}) /\ more
                    THEN IF EarlyData(c) THEN "Z" ELSE "D"
                    ELSE "none"

\* try_write_datagram_frames(): cmode.dgfit datagrams fit into a packet, and the
\* first that does not is dropped
DgramsFor(c) == SubSeq(c.out, 1, AtMost(cmode.dgfit, Len(c.out)))
PopDgrams(c, t, room) ==
  IF t # "D" \/ IsClosing(c) \/ (c.sp["D"].probes = 0 /\ ~room) THEN c.out
  ELSE SubSeq(c.out, cmode.dgfit + 2, Len(c.out))

\* send_frames(): what a packet of type t carries.  room: the congestion
\* window admits a packet that is no probe
FramesFor(c, t, room) ==
  LET s == SpaceOf(t)
      live == ~IsClosing(c)
      f1 == (IF c.sp[s].need # {} /\ c.sp[s].sendAck /\ live THEN {"ack"} ELSE {})
            \cup (IF c.err = "trans" THEN {"close"}
                  ELSE IF c.err = "app" /\ t \in {"D", "Z"} THEN {"appclose"} ELSE {})
      f2 == {f \in {"done", "crypto", "data", "token", "dgram"} :
               CASE f = "done" -> t = "D" /\ NeedDone(c)
                 [] f = "crypto" -> t \in {"I", "H"} /\ c.crypto[t] = "ready"
                 [] f = "data" -> t \in {"D", "Z"} /\ c.data = "ready"
                 [] f = "token" -> t = "D" /\ NeedToken(c)
                 [] OTHER -> t = "D" /\ DgramsFor(c) # <<>>}
  IN  IF ~live \/ (c.sp[s].probes = 0 /\ ~room) THEN f1
      ELSE f1 \cup f2 \cup (IF c.sp[s].probes > 0 /\ f2 = {} THEN {"ping"} ELSE {})

\* An endpoint restarts its idle timer with the first packet it sends
RestartIdleOnSend(c, ae) ==
  IF ~ae THEN c
  ELSE [Flag(IF "sentAe" \in c.flags THEN c ELSE RestartIdle(c), {"sentAe"}) EXCEPT !.quiet = FALSE]

\* send_packet() with the frames fr: on_packet_sent() and what the frames clear
PacketOf(c, t, fr) ==
  LET s == SpaceOf(t)
  IN  [t |-> t, pn |-> c.sp[s].next, fr |-> fr, acks |-> IF "ack" \in fr THEN c.sp[s].need ELSE {},
       dg |-> IF "dgram" \in fr THEN DgramsFor(c) ELSE <<>>, tok |-> "didRetry" \in c.flags]
OnPacket(c, t, fr) ==
  LET s == SpaceOf(t)
      ae == fr # {"ack"}
      ack == "ack" \in fr
  IN  [c EXCEPT
         !.sp[s].sendAck = @ /\ ~ack, !.sp[s].count = IF ack THEN 0 ELSE @,
         !.sp[s].due = IF ack THEN @ \ c.sp[s].need ELSE @,
         !.timers = IF fr \cap {"close", "appclose"} # {} THEN @ \cup {"drain"} ELSE @,
         !.flags = @ \ ((IF "done" \in fr THEN {"needDone"} ELSE {})
                        \cup (IF "token" \in fr THEN {"needToken"} ELSE {})),
         !.crypto = IF "crypto" \in fr THEN [@ EXCEPT ![t] = "sent"] ELSE @,
         !.data = IF "data" \in fr THEN "sent" ELSE @,
         !.sp[s].sent = @ \cup {PacketOf(c, t, fr)}, !.sp[s].next = @ + 1,
         !.sp[s].probes = IF ae THEN SatSub(@, 1) ELSE @,
         !.sp[s].low = IF t = "D" THEN AtMost(@, c.sp[s].next) ELSE @,
         !.order = IF ae THEN Append(Remove(@, s), s) ELSE @]
SendPacket(c, t, fr) ==
  RestartIdleOnSend(IF ~IsServer(c) /\ t = "H" THEN DropSpaceState(OnPacket(c, t, fr), "I")
                    ELSE OnPacket(c, t, fr), fr # {"ack"})

\* The loop of send(): packets until nothing is left to send, the datagram is
\* full, or a packet with a short header ends it
FillDatagram(c, fit, room) ==
  LET Add(r, t, fr) ==
        IF fr = {} THEN [r EXCEPT !.more = FALSE, !.c.out = PopDgrams(r.c, t, room)]
        ELSE [c |-> [SendPacket(r.c, t, fr) EXCEPT !.out = PopDgrams(r.c, t, room)], pkts |-> Append(r.pkts, PacketOf(r.c, t, fr)), more |-> t # "D"]
      Choose(r, t) == Add(r, t, IF t = "none" THEN {} ELSE FramesFor(r.c, t, room))
      One(r, i) == IF ~r.more \/ i > fit \/ IsDraining(r.c) THEN [r EXCEPT !.more = FALSE]
                   ELSE Choose(r, SelectType(r.c))
  IN  FoldLeft(One, [c |-> c, pkts |-> <<>>, more |-> TRUE], <<1, 2, 3>>)

\* send() up to the loop
Prepared(c) ==
  LostFrames(IF ~IsServer(c) /\ "started" \notin c.flags THEN Flag(TlsStart(c), {"started"}) ELSE c)

MaySend(c) == ~IsDraining(c) /\ ~IsClosed(c) /\ (IsServer(c) => "derived" \in c.flags)
CnCanSend(c) == MaySend(c) /\ FillDatagram(Prepared(c), 1, TRUE).pkts # <<>>
\* packets older than one that was acknowledged
Overtaken(c, s) == {p \in c.sp[s].sent : p.pn < c.sp[s].acked}
\* nothing is on its way and nobody has anything to say
Quiet ==
  /\ cnet = {}
  /\ \A e \in Sides :
       /\ ~CnCanSend(cn[e])
       /\ MaySend(cn[e]) => /\ ~cn[e].sp["D"].timer
                           /\ \A s \in CnSpaces : Overtaken(cn[e], s) = {}

\* -------------------------------------------------------------------- actions
CnInit ==
  /\ cmode \in CnModes
  /\ cn = [e \in Sides |-> NewCn(e)]
  /\ cnet = {}

Set(e, c) == cn' = [cn EXCEPT ![e] = c]
Spend(f) == cmode[f] > 0 /\ cmode' = [cmode EXCEPT ![f] = @ - 1]

\* send() and the datagram it leaves on the wire
CnSend(e) ==
  /\ MaySend(cn[e])
  /\ \E fit \in cmode.fits, room \in cmode.rooms : \E r \in {FillDatagram(Prepared(cn[e]), fit, room)} :
       /\ IF r.pkts = <<>> THEN r.c # cn[e] /\ UNCHANGED cnet
          ELSE cnet' = cnet \cup {[to |-> Peer(e), pkts |-> r.pkts]}
       /\ Set(e, r.c)
       /\ UNCHANGED cmode

\* recv(); the network may keep a copy, the endpoint of the server may answer
\* an Initial packet with Retry or Version Negotiation instead
CnRecv(d) ==
  /\ d \in cnet
  /\ \E copy \in {0, cmode.dup} : \E reject \in {NoReject} \cup cmode.reject :
       /\ Set(d.to, Recv(cn[d.to], d.pkts, reject))
       /\ cnet' = IF copy = 0 THEN cnet \ {d} ELSE cnet
       /\ cmode' = [cmode EXCEPT !.dup = IF copy = 0 THEN @ ELSE @ - 1]
  /\ d.to = "server" => /\ "derived" \in cn["server"].flags \/ d.pkts[1].t = "I"
                        /\ cmode.answer # "R" \/ d.pkts[1].tok
                        /\ cmode.answer # "V"

EndpointAnswers(d) ==
  /\ d \in cnet /\ d.to = "server" /\ d.pkts[1].t = "I"
  /\ \/ cmode.answer = "R" /\ ~d.pkts[1].tok /\ UNCHANGED cmode
     \/ cmode.answer = "V" /\ cmode' = [cmode EXCEPT !.answer = "none"]
  /\ cnet' = (cnet \ {d})
             \cup {[to |-> "client", pkts |-> <<[t |-> cmode.answer, pn |-> 0, fr |-> {}, acks |-> {},
                                                 dg |-> <<>>, tok |-> FALSE]>>]}
  /\ UNCHANGED cn

\* a packet before the first Initial finds no connection
Stray(d) ==
  /\ d \in cnet /\ d.to = "server" /\ "derived" \notin cn["server"].flags /\ d.pkts[1].t # "I"
  /\ cnet' = cnet \ {d} /\ UNCHANGED <<cn, cmode>>

CnLose == \E d \in cnet : cnet' = cnet \ {d} /\ Spend("loss") /\ UNCHANGED cn

\* detect_lost_packets() may give up a packet older than one that was acked
DeclareLost(e, s) ==
  \E p \in Overtaken(cn[e], s) :
    /\ MaySend(cn[e])
    /\ Set(e, [cn[e] EXCEPT !.sp[s].sent = @ \ {p}, !.sp[s].lost = @ \cup p.fr])
    /\ UNCHANGED <<cnet, cmode>>

\* get_pto_time_and_space(): the space that has waited longest for an ACK, or
\* the one a client without a validated address probes
CnInFlight(c, s) == \E p \in c.sp[s].sent : p.fr # {"ack"}
ProbeSpace(c) ==
  LET wait == SelectSeq(c.order, LAMBDA s : CnInFlight(c, s) /\ (s = "D" => Done(c)))
  IN  IF wait # <<>> THEN {Head(wait)}
      ELSE IF IsServer(c) \/ "verified" \in c.flags THEN {}
      ELSE {IF "H" \in c.open THEN "H" ELSE "I"}

\* on_timeout(): LossDetection, the probe timeout of space s.  When
\* nothing else happens the timers of the two sides expire in turn
ProbeTimeout(e, s) ==
  LET c == cn[e]
      peer == cn[Peer(e)]
      data == {p \in c.sp[s].sent : p.fr \cap {"crypto", "data"} # {}}
      pto == AtMost(c.pto + 1, CnMaxProbes)
      probes == IF s = "D" THEN pto ELSE 1
      oldest == {p \in data : Cardinality({q \in data : q.pn < p.pn}) < probes}
  IN  /\ ~IsDraining(c) /\ ~IsClosed(c) /\ s \in ProbeSpace(c) /\ c.sp[s].probes = 0
      /\ \/ /\ Quiet /\ ~Dead(peer) /\ (cmode.turn = e => ProbeSpace(peer) = {})
            /\ cmode' = [cmode EXCEPT !.turn = e]
         \/ ~Quiet /\ Spend("pto")
      /\ Set(e, [c EXCEPT !.sp[s].probes = probes, !.pto = pto,
                          !.sp[s].lost = @ \cup UNION {p.fr : p \in oldest}])
      /\ UNCHANGED cnet

\* on_timeout(): Ack
OnAckTimeout(c) == [c EXCEPT !.sp["D"].sendAck = TRUE, !.sp["D"].timer = FALSE]
AckTimeout(e) ==
  /\ ~IsDraining(cn[e]) /\ ~IsClosed(cn[e]) /\ cn[e].sp["D"].timer
  /\ Set(e, OnAckTimeout(cn[e]))
  /\ UNCHANGED <<cnet, cmode>>

\* on_timeout(): Draining
DrainTimeout(e) ==
  /\ IsDraining(cn[e]) /\ ~IsClosed(cn[e])
  /\ Set(e, Flag(cn[e], {"closed"}))
  /\ UNCHANGED <<cnet, cmode>>

\* on_timeout(): Idle and Handshake, long after anything else happened
IdleTimeout(e) ==
  /\ ~IsDraining(cn[e]) /\ ~IsClosed(cn[e]) /\ cn[e].idle # "off"
  /\ Quiet /\ (Dead(cn[Peer(e)]) \/ IsClosing(cn[e]))
  /\ Set(e, Flag(cn[e], {"closed", "idle"}))
  /\ UNCHANGED <<cnet, cmode>>
HandshakeTimeout(e) ==
  /\ ~IsDraining(cn[e]) /\ ~IsClosed(cn[e]) /\ "hs" \in cn[e].timers /\ Quiet
  /\ Dead(cn[Peer(e)]) \/ IsClosing(cn[e])
  /\ Set(e, [Flag(cn[e], {"closed", "hsTimeout"}) EXCEPT !.timers = @ \ {"hs"}])
  /\ UNCHANGED <<cnet, cmode>>

\* Time passes that is not yet an idle timeout
Age(e) ==
  /\ cmode.age /\ cn[e].idle = "fresh" /\ Set(e, [cn[e] EXCEPT !.idle = "old"])
  /\ UNCHANGED <<cnet, cmode>>

AppClose(e) ==
  /\ e \in cmode.closers /\ ~Dead(cn[e])
  /\ IsServer(cn[e]) => "derived" \in cn[e].flags
  /\ Set(e, CloseWith(cn[e], "app"))
  /\ UNCHANGED <<cnet, cmode>>

\* reset(): a stateless reset has been received
Reset(e) ==
  /\ cmode.reset /\ Done(cn[e]) /\ ~IsClosed(cn[e]) /\ ~IsDraining(cn[e])
  /\ Set(e, [Flag(cn[e], {"reset"}) EXCEPT !.timers = @ \cup {"drain"}])
  /\ UNCHANGED <<cnet, cmode>>

AppWrite(e) ==
  /\ e \in cmode.writers /\ cn[e].data = "none"
  /\ IsServer(cn[e]) => "derived" \in cn[e].flags
  /\ Set(e, [cn[e] EXCEPT !.data = "ready"])
  /\ UNCHANGED <<cnet, cmode>>

\* dgram_send(): the oldest makes room; dgram_recv()
DgramSend(e) ==
  /\ Done(cn[e]) /\ e = "client" /\ Spend("dgrams")
  /\ Set(e, [cn[e] EXCEPT !.out = Append(IF Len(@) >= CnDgramCap THEN Tail(@) ELSE @, cmode.dgrams)])
  /\ UNCHANGED cnet
DgramRecv(e) ==
  /\ cn[e].in # <<>>
  /\ Set(e, [cn[e] EXCEPT !.in = Tail(@)])
  /\ UNCHANGED <<cnet, cmode>>

\* Weak fairness of what does not depend on the application: datagrams that
\* are not lost arrive, a connection with something to send is served by its
\* endpoint and every timer expires.  CnReady says when one of these steps can
\* be taken; each goes forward, so one condition stands for that of each.
CnReady ==
  \/ cnet # {}
  \/ \E e \in Sides :
       LET c == cn[e] IN
       /\ ~IsClosed(c)
       /\ \/ CnCanSend(c) \/ IsDraining(c) \/ c.sp["D"].timer
          \/ MaySend(c) /\ \E s \in CnSpaces : Overtaken(c, s) # {}
          \/ ~Dead(cn[Peer(e)]) /\ \E s \in ProbeSpace(c) : c.sp[s].probes = 0
          \/ /\ c.idle # "off" \/ "hs" \in c.timers
             /\ Dead(cn[Peer(e)]) \/ IsClosing(c)
CnRest == ~CnReady /\ UNCHANGED cnVars

CnNext ==
  \/ \E d \in cnet : CnRecv(d) \/ EndpointAnswers(d) \/ Stray(d)
  \/ CnLose \/ CnRest
  \/ \E e \in Sides :
       \/ CnSend(e) \/ AckTimeout(e) \/ DrainTimeout(e) \/ IdleTimeout(e) \/ HandshakeTimeout(e)
       \/ Age(e) \/ AppClose(e) \/ Reset(e) \/ AppWrite(e) \/ DgramSend(e) \/ DgramRecv(e)
       \/ \E s \in CnSpaces : DeclareLost(e, s) \/ ProbeTimeout(e, s)

CnSpec == CnInit /\ [][CnNext]_cnVars

CnFairSpec == CnSpec /\ ([]<>~CnReady \/ []<><<TRUE>>_cnVars)

\* ----------------------------------------------------------------- properties
\* try_schedule_ack_frame() and on_timeout(): a packet that elicits an
\* acknowledgment, was in no ACK yet and is still to be acknowledged has an
\* ACK pending, or the timer that will make one pending, whatever else was
\* received, sent, acknowledged or lost since
AckIsDue ==
  \A e \in Sides, s \in CnSpaces :
    LET c == cn[e]
    IN  ~Dead(c) /\ s \in c.seal /\ c.sp[s].due \cap c.sp[s].need # {} => c.sp[s].sendAck \/ c.sp[s].timer

\* recv_frame(): a client that takes the handshake for confirmed, and so drops
\* the keys its Finished is sent with, has a peer that completed the handshake,
\* also when 0-RTT packets are acknowledged earlier
ConfirmedIsMutual == "confirmed" \in cn["client"].flags => Done(cn["server"])

\* recv(), send() and on_timeout() together: every connection either confirms
\* its handshake and has its data acknowledged, or is closed, although
\* packets are lost, duplicated and arrive before their keys
ConnectionSettles ==
  <>[](\A e \in Sides :
         LET c == cn[e]
         IN  \/ IsClosed(c)
             \/ ~Dead(c) /\ "confirmed" \in c.flags /\ c.data \in {"none", "acked"}
             \/ IsServer(c) /\ "derived" \notin c.flags /\ IsClosed(cn["client"]))

=============================================================================
