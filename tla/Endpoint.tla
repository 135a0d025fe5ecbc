------------------------------ MODULE Endpoint ------------------------------
(* The endpoint (src/endpoint): the table of connections, the routes that  *)
(* lead an incoming datagram to one of them, the timer queue, the queues   *)
(* of tickable and sendable connections, the buffer of early 0-RTT packets *)
(* and the queue of outgoing packets.  The application calls recv(),       *)
(* on_timeout() and process_connections(), in any order.  The loops of     *)
(* process_connections() are one step per connection, because the queues   *)
(* are hash sets that are walked in no order anyone chose.                 *)
(*                                                                         *)
(* A connection is what the endpoint sees of it: its ids, the events it    *)
(* has for the endpoint, whether its streams want attention, the packets   *)
(* it would send, its next timer, and whether it drains or is closed.      *)
EXTENDS Util, SequencesExt

CONSTANTS
  Modes,        \* what the endpoint is configured for, chosen at the start: [server,
                \* zero (length ids), retry, max (_concurrent_conns), faults, two bounds: the connections
                \* ever made (conns) and the datagrams that arrive (recv)]
  Attempts,     \* the connection attempts of clients (or of this client)
  CidLimit,     \* the peers' active_connection_id_limit
  BatchSize,    \* Config::send_batch_size
  BufferSize,   \* Config::zerortt_buffer_size
  BufferPkts,   \* MAX_ZERORTT_PACKETS_PER_CONN
  MaxOut,       \* bound: packets a connection has to send
  MaxBlocked    \* bound: packets in the queue while the sender blocks

VARIABLES
  ep,           \* the Endpoint, and in its field `stale`, which no step reads, the connections
                \* that sent in a call that failed before it had refreshed their timers
  mode,         \* the member of Modes
  retried,      \* attempts that hold a Retry token
  arrived,      \* datagrams received so far
  pc,           \* where process_connections() is: idle, tick, send
  ready,        \* its local set of connections to mark tickable again
  sent          \* its local set of connections that sent

epVars == <<ep, mode, retried, arrived, pc, ready, sent>>

\* Connection ids: the ones a client chose, the ones a Retry gave it, the
\* n-th one of connection i; and, with zero-length ids, the address tuple.
Odcid(a) == <<"o", a>>
Rscid(a) == <<"r", a>>
Scid(i, n) == <<"s", i, n>>
Addr(a) == <<"a", a>>
ResetToken(i, n) == <<"t", i, n>>

NewEndpoint ==
  [conns |-> <<>>, next |-> 0, route |-> <<>>, token |-> <<>>, timers |-> <<>>,
   tickable |-> {}, sendable |-> {}, buffer |-> <<>>, packets |-> 0, closed |-> FALSE,
   stale |-> {}]

NewConn(a, odcid) ==
  [att |-> a, scids |-> {0}, issued |-> 1, odcid |-> odcid, toks |-> {},
   st |-> "open", est |-> FALSE, ev |-> <<>>, work |-> FALSE, out |-> 0, timer |-> "none"]

Live(e) == DOMAIN e.conns
Fault(f) == f \in mode.faults
Put(f, k, v) == (k :> v) @@ f
Del(f, K) == [k \in DOMAIN f \ K |-> f[k]]

\* mark_tickable() and mark_sendable(): the flag of the connection always
\* agrees with the queue, so the queue is enough.
MarkTickable(e, i, b) == [e EXCEPT !.tickable = IF b THEN @ \cup {i} ELSE @ \ {i}]
MarkSendable(e, i, b) == [e EXCEPT !.sendable = IF b THEN @ \cup {i} ELSE @ \ {i}]
Draining(c) == c.st = "draining"
Closed(c) == c.st = "closed"
IsReady(c) == c.ev # <<>> \/ c.work \/ Closed(c)

\* Connection::timeout(), and what the endpoint does with it wherever it is
\* asked: finalize_conn_tick(), update_sent_timers(), refresh_conn_timer().
RefreshTimer(e, i) ==
  LET t == IF Closed(e.conns[i]) THEN "none" ELSE e.conns[i].timer
  IN  [e EXCEPT !.timers = IF t = "none" THEN Del(@, {i}) ELSE Put(@, i, t), !.stale = @ \ {i}]

TimeoutNow(e) == e.packets # 0 \/ e.tickable # {} \/ e.sendable # {}

\* ------------------------------------------------------ what a connection does
\* What recv() may do to a connection, as the endpoint can tell: report
\* something, give its streams work, answer, begin to drain because the peer
\* closed, or close itself over an error and have CONNECTION_CLOSE to send.
\* An id the peer retires leaves the connection at once, its route only when
\* the event is processed; an id the peer takes back (Retire Prior To)
\* leaves the connection before RETIRE_CONNECTION_ID is sent for it, so that
\* try_write_cid_control_frame() no longer finds the token to report.
Reports(c) ==
  IF ~c.est THEN {<<<<"Established">>, <<"ScidToAdvertise", CidLimit - 1>>>>}
  ELSE {<<<<"ScidRetired", n>>>> : n \in {m \in c.scids : c.scids # {m}}}
       \cup {<<<<"DcidAdvertised", n>>>> : n \in {0, 1} \ c.toks}

Reported(c, r) ==
  [c EXCEPT !.ev = r, !.est = TRUE,
            !.scids = IF r[1][1] = "ScidRetired" THEN @ \ {r[1][2]} ELSE @,
            !.toks = IF r[1][1] = "DcidAdvertised"
                     THEN (IF Fault("rotate") THEN {} ELSE @) \cup {r[1][2]} ELSE @]

ConnRecv(c) ==
  IF c.st # "open" THEN {c}
  ELSE LET c1 == [c EXCEPT !.odcid = IF @ = <<>> THEN Odcid(c.att) ELSE @,
                           !.timer = "later", !.out = AtMost(@ + 1, MaxOut)]
       IN  {c1, [c1 EXCEPT !.work = TRUE], [c1 EXCEPT !.st = "draining", !.out = 0],
            [c1 EXCEPT !.st = "closing"]}
           \cup {Reported(c1, r) : r \in {x \in Reports(c) : c.ev = <<>>}}

\* A first Initial packet that cannot be decrypted leaves no trace in the
\* connection: recv_packet() gives up with Done.  The handshake timer runs.
ConnRecvFirst(c) == ConnRecv(c) \cup (IF Fault("corrupt") THEN {[c EXCEPT !.timer = "later"]} ELSE {})

\* Connection::on_timeout(): the connection ends (idle, drained or handshake
\* timer) or has something to send (loss, ack and keep-alive timers); nothing
\* happens when a packet put its timers off after the endpoint noted them.
ConnTimeout(c) ==
  IF c.timer # "due" THEN {c}
  ELSE {[c EXCEPT !.st = "closed", !.timer = "none"]}
       \cup (IF c.st = "open" THEN {[c EXCEPT !.timer = "later", !.out = AtMost(@ + 1, MaxOut)]} ELSE {})

\* Connection::reset()
ConnReset(c) == IF Closed(c) \/ Draining(c) THEN c ELSE [c EXCEPT !.st = "draining", !.out = 0, !.timer = "later"]

\* --------------------------------------------------------------- the routes
RouteFor(e, key) == IF key \in DOMAIN e.route THEN {e.route[key]} ELSE {}

\* create_server_conn() and add_client_route()
AddRoutes(e, i, a, odcid) ==
  [e EXCEPT !.route = IF mode.zero THEN Put(@, Addr(a), i)
                      ELSE IF mode.server THEN Put(Put(@, Scid(i, 0), i), odcid, i)
                      ELSE Put(@, Scid(i, 0), i)]


RemoveRoutes(e, i) ==
  LET c == e.conns[i]
      keys == IF mode.zero THEN {Addr(c.att)} ELSE {Scid(i, n) : n \in c.scids}
      orig == IF mode.server /\ c.odcid # <<>> THEN {c.odcid} ELSE {}
  IN  [e EXCEPT !.route = Del(@, keys \cup orig),
                !.token = Del(@, {ResetToken(i, n) : n \in c.toks})]

\* conn_add_scids(): each id is added to the connection, then routed; a
\* connection with a zero-length id refuses the first one.
AddScids(e, i, num) ==
  LET c == e.conns[i]
      n == IF mode.zero THEN 0 ELSE num
      new == c.issued .. (c.issued + n - 1)
  IN  [e EXCEPT !.conns[i].scids = @ \cup new, !.conns[i].issued = @ + n,
                !.route = [k \in {Scid(i, s) : s \in new} |-> i] @@ @]

\* One event of process_conn_events()
ProcessEvent(e, i, v) ==
  CASE v[1] = "ScidToAdvertise" -> AddScids(e, i, v[2])
    [] v[1] = "ScidRetired" -> [e EXCEPT !.route = Del(@, {Scid(i, v[2])})]
    [] v[1] = "DcidAdvertised" -> [e EXCEPT !.token = Put(@, ResetToken(i, v[2]), i)]
    [] v[1] = "DcidRetired" -> [e EXCEPT !.token = Del(@, {ResetToken(i, v[2])})]
    [] OTHER -> e

\* ------------------------------------------------------- the life of a connection
\* cleanup_closed_conn()
CleanupClosed(e, i) ==
  LET e1 == RemoveRoutes(MarkSendable(MarkTickable(e, i, FALSE), i, FALSE), i)
  IN  [e1 EXCEPT !.timers = Del(@, {i}), !.conns = Del(@, {i})]

\* The callbacks of process_conn_events(), process_conn_readable() and
\* process_conn_writable(): the handler may serve the streams or leave them,
\* may write, and what it does may leave the connection with a new event.
AfterCallbacks(e, i) ==
  LET c == e.conns[i]
      e1 == IF c.ev = <<>> THEN e ELSE FoldLeft(LAMBDA x, v : ProcessEvent(x, i, v), [e EXCEPT !.conns[i].ev = <<>>], c.ev)
  IN  {[e1 EXCEPT !.conns[i].work = w, !.conns[i].out = AtMost(@ + o, MaxOut), !.conns[i].ev = v] :
         w \in {FALSE, c.work}, o \in (IF c.ev # <<>> \/ c.work THEN {0, 1} ELSE {0}),
         v \in (IF c.work THEN {<<>>, <<<<"StreamClosed">>>>} ELSE {<<>>})}

\* finalize_conn_tick()
Finalize(e, i) == MarkTickable(RefreshTimer(MarkSendable(e, i, TRUE), i), i, FALSE)

\* process_connection() of a connection that is not closed: what it leaves
Processed(e, i) == {Finalize(x, i) : x \in AfterCallbacks(e, i)}

\* on_packets_send(): the sender takes any number of the packets of a batch
Taken(n) == (IF n > MaxBlocked THEN 1 ELSE 0) .. AtMost(n, BatchSize)

\* flush_remaining() ends when the queue is empty or the sender takes none; the
\* sender takes everything, or blocks.
Flushed(e) == {[e EXCEPT !.packets = n] : n \in {0} \cup {m \in {e.packets} : m <= MaxBlocked}}

\* ------------------------------------------------------------- the operations
EpInit ==
  /\ mode \in Modes
  /\ ep = NewEndpoint
  /\ retried = {} /\ arrived = 0
  /\ pc = "idle" /\ ready = {} /\ sent = {}

Idle == pc = "idle" /\ UNCHANGED <<mode, pc, ready, sent>>
Arrives == arrived < mode.recv /\ arrived' = arrived + 1

\* connect() creates the connection, starts its handshake and routes its id.
\* With a session or a token it cannot use it fails with `?`, and leaves the
\* connection in the table.
Connect(a) ==
  /\ Idle /\ ~mode.server /\ ~ep.closed /\ ep.next < mode.conns /\ a = ep.next + 1
  /\ LET i == ep.next
         e == [ep EXCEPT !.next = @ + 1, !.conns = Put(@, i, [NewConn(a, <<>>) EXCEPT !.out = 1])]
     IN  \/ ep' = MarkTickable(AddRoutes(e, i, a, <<>>), i, TRUE)
         \/ Fault("session") /\ ep' = e
  /\ UNCHANGED <<retried, arrived>>

\* recv_existing_conn(); an error of Connection::recv() is the caller's to see
\* (a stateless reset, when those are switched off, among them).
RecvExisting(i, reset) ==
  IF i \notin Live(ep) THEN ep' = ep
  ELSE \E c \in (IF ~reset THEN ConnRecv(ep.conns[i])
                 ELSE {IF Fault("noreset") THEN ep.conns[i] ELSE ConnReset(ep.conns[i])}) :
         ep' = [MarkTickable(ep, i, TRUE) EXCEPT !.conns[i] = c]

\* A datagram whose destination id is known, or else the token at its end
RecvRouted ==
  /\ Idle /\ Arrives
  /\ \/ \E key \in DOMAIN ep.route : RecvExisting(ep.route[key], FALSE)
     \/ \E tok \in DOMAIN ep.token : RecvExisting(ep.token[tok], TRUE)
  /\ UNCHANGED retried

\* recv_unknown_client(), send_stateless_reset() and the packets a server
\* ignores: a datagram for no known connection.
RecvUnknown ==
  /\ Idle /\ Arrives
  /\ \E answer \in (IF Fault("noreset") THEN {FALSE} ELSE BOOLEAN) :
       ep' = [ep EXCEPT !.packets = IF answer THEN @ + 1 ELSE @]
  /\ UNCHANGED retried

\* PacketBuffer::add(): the packets of at most BufferSize ids, the one used
\* last at the end, and of each id no more than BufferPkts
BufferAdd(b, key) ==
  LET old == {j \in DOMAIN b : b[j].key = key}
      rest == SelectSeq(b, LAMBDA x : x.key # key)
      item == IF old = {} THEN [key |-> key, n |-> 1]
              ELSE [key |-> key, n |-> AtMost(BufferPkts, b[CHOOSE j \in old : TRUE].n + 1)]
  IN  Append(IF old = {} /\ Len(b) = BufferSize THEN Tail(b) ELSE rest, item)

RecvZeroRtt(a) ==
  /\ Idle /\ Arrives /\ mode.server /\ ~mode.zero /\ ~ep.closed
  /\ RouteFor(ep, Odcid(a)) = {}
  /\ ep' = [ep EXCEPT !.buffer = BufferAdd(@, Odcid(a))]
  /\ UNCHANGED retried

\* A server's recv_server_initial_idx() for an Initial packet that no route
\* leads anywhere.  It carries the client's own id, or the id and the token
\* of a Retry.
SendRetry(a) ==
  /\ ep' = [ep EXCEPT !.packets = @ + 1]
  /\ retried' = retried \cup {a}

CreateServerConn(a, key, token) ==
  LET i == ep.next
      e == AddRoutes([ep EXCEPT !.next = @ + 1, !.buffer = SelectSeq(@, LAMBDA x : x.key # key)],
                     i, a, Odcid(a))
      early == \E j \in DOMAIN ep.buffer : ep.buffer[j].key = key
      c0 == NewConn(a, IF token THEN Odcid(a) ELSE <<>>)
  IN  /\ i < mode.conns
      /\ \E c1 \in ConnRecvFirst(c0) : \E c2 \in (IF early THEN ConnRecv(c1) ELSE {c1}) :
           ep' = MarkTickable([e EXCEPT !.conns = Put(@, i, c2)], i, TRUE)
      /\ UNCHANGED retried

RecvInitial(a) ==
  /\ Idle /\ Arrives /\ mode.server /\ ~ep.closed
  /\ \E key \in (IF mode.zero THEN {Addr(a)} ELSE IF a \in retried THEN {Rscid(a)} ELSE {Odcid(a)}) :
       /\ RouteFor(ep, key) = {}
       /\ \/ Cardinality(Live(ep)) >= mode.max /\ UNCHANGED <<ep, retried>>
          \/ /\ Cardinality(Live(ep)) < mode.max
             /\ \/ ep' = [ep EXCEPT !.packets = @ + 1] /\ UNCHANGED retried    \* Version Negotiation
                \/ mode.retry /\ a \notin retried /\ SendRetry(a)
                \/ (mode.retry => a \in retried) /\ CreateServerConn(a, key, a \in retried)

\* The application writes to a stream, or closes the connection.
AppWrite(i) ==
  /\ Idle /\ i \in Live(ep) /\ ep.conns[i].st = "open" /\ ep.conns[i].out < MaxOut
  /\ ep' = [MarkTickable(ep, i, TRUE) EXCEPT !.conns[i].out = @ + 1]
  /\ UNCHANGED <<retried, arrived>>

AppClose(i) ==
  /\ Idle /\ i \in Live(ep) /\ ep.conns[i].st = "open"
  /\ ep' = [MarkTickable(ep, i, TRUE) EXCEPT !.conns[i].st = "closing", !.conns[i].out = 1]
  /\ UNCHANGED <<retried, arrived>>

\* Time passes until timers are due.  While timeout() asks to be called back
\* at once, the application does not wait that long.
Elapse ==
  /\ Idle /\ ~TimeoutNow(ep)
  /\ \E D \in SUBSET {i \in DOMAIN ep.timers : ep.timers[i] = "later"} :
       /\ D # {}
       /\ ep' = [ep EXCEPT !.timers = [i \in DOMAIN @ |-> IF i \in D THEN "due" ELSE @[i]],
                           !.conns = [i \in DOMAIN @ |-> IF i \in D THEN [@[i] EXCEPT !.timer = "due"] ELSE @[i]]]
  /\ UNCHANGED <<retried, arrived>>

OnTimeout ==
  /\ Idle
  /\ LET due == {i \in DOMAIN ep.timers : ep.timers[i] = "due"}
         hit == due \cap Live(ep)
     IN  /\ due # {}
         /\ \E f \in [hit -> UNION {ConnTimeout(ep.conns[i]) : i \in hit}] :
              /\ \A i \in hit : f[i] \in ConnTimeout(ep.conns[i])
              /\ ep' = [ep EXCEPT !.timers = Del(@, due), !.tickable = @ \cup hit, !.conns = f @@ @]
  /\ UNCHANGED <<retried, arrived>>

\* close(): with force, the connections are told and forgotten, and so are
\* timers and routes; the queues are not.
CloseEndpoint(force) ==
  /\ Idle /\ ~ep.closed
  /\ ep' = IF force THEN [ep EXCEPT !.closed = TRUE, !.timers = <<>>, !.route = <<>>,
                                    !.token = <<>>, !.conns = <<>>]
           ELSE [ep EXCEPT !.closed = TRUE]
  /\ UNCHANGED <<retried, arrived>>

\* ------------------------------------------------- process_connections()
Return == pc' = "idle" /\ ready' = {} /\ sent' = {}
Caller == UNCHANGED <<mode, retried, arrived>>

\* After close(true) its loops never end while a queue names a connection
\* that is gone, so it is called then only to show that.
ProcessConnections ==
  /\ pc = "idle" /\ (Fault("reprocess") \/ ep.tickable \cup ep.sendable \subseteq Live(ep))
  /\ pc' = "tick" /\ UNCHANGED <<ep, ready, sent>> /\ Caller

TickOne(i) ==
  /\ pc = "tick" /\ i \in ep.tickable
  /\ \/ i \notin Live(ep) /\ UNCHANGED <<ep, ready>>
     \/ i \in Live(ep) /\ Closed(ep.conns[i]) /\ ep' = CleanupClosed(ep, i) /\ UNCHANGED ready
     \/ /\ i \in Live(ep) /\ ~Closed(ep.conns[i])
        /\ \E e \in Processed(ep, i) :
             /\ ep' = e
             /\ ready' = ready \cup {j \in {i} : IsReady(e.conns[i])}
  /\ UNCHANGED <<pc, sent>> /\ Caller

TickDone ==
  /\ pc = "tick" /\ ep.tickable = {}
  /\ pc' = "send" /\ UNCHANGED <<ep, ready, sent>> /\ Caller

\* Connection::send() with something to send; a connection that closes
\* itself drains once CONNECTION_CLOSE is out.
Emit(c) == [c EXCEPT !.out = @ - 1, !.timer = "later",
                     !.st = IF @ = "closing" THEN "draining" ELSE @]

\* An error of Connection::send() or of the sender's on_packets_send() ends
\* send_packets_out() on the spot: update_sent_timers() is not reached.
Abort(e, S) == ep' = [e EXCEPT !.stale = @ \cup (S \cap Live(e))] /\ Return

\* send_conn_packets(), and flush_batch() when a batch is full
SendOne(i) ==
  /\ pc = "send" /\ i \in ep.sendable
  /\ \/ i \notin Live(ep) /\ UNCHANGED <<ep, pc, ready, sent>>
     \/ /\ i \in Live(ep) /\ ep.conns[i].st \in {"draining", "closed"}
        /\ ep' = MarkSendable(ep, i, FALSE) /\ UNCHANGED <<pc, ready, sent>>
     \/ /\ i \in Live(ep) /\ ep.conns[i].st \in {"open", "closing"}
        /\ \/ /\ ep.conns[i].out > 0
              /\ \E n \in (IF ep.packets + 1 >= BatchSize THEN Taken(ep.packets + 1) ELSE {0}) :
                   ep' = [ep EXCEPT !.conns[i] = Emit(@), !.packets = @ + 1 - n]
              /\ sent' = sent \cup {i} /\ UNCHANGED <<pc, ready>>
           \/ /\ ep.conns[i].out = 0
              /\ ep' = MarkSendable(ep, i, FALSE)
              /\ sent' = sent \cup {i} /\ UNCHANGED <<pc, ready>>
           \/ Fault("senderr") /\ Abort(ep, sent)
           \/ /\ Fault("senderr") /\ ep.conns[i].out > 0 /\ ep.packets + 1 >= BatchSize
              /\ ep.packets < MaxBlocked
              /\ Abort([ep EXCEPT !.conns[i] = Emit(@), !.packets = @ + 1], sent \cup {i})
  /\ Caller

MRefreshAll(e, S) == e
RefreshAll(e, S) == FoldLeft(LAMBDA x, i : RefreshTimer(x, i), e, SetToSeq(S \cap Live(e)))

\* update_sent_timers(), flush_remaining(), and then the connections with
\* more to do are marked tickable again, unless the sender failed.
MSendDone ==
  /\ pc = "send" /\ ep.sendable = {}
  /\ \E e \in Flushed(RefreshAll(ep, sent)) : ep' = e
  /\ Return /\ Caller

SendDone ==
  /\ pc = "send" /\ ep.sendable = {}
  /\ \E e \in Flushed(RefreshAll(ep, sent)) :
       \/ ep' = [e EXCEPT !.tickable = @ \cup (ready \cap Live(e))]
       \/ Fault("senderr") /\ ep' = e
  /\ Return /\ Caller

\* -------------------------------------------- the calls for one connection
\* generate_conn_packets(): everything the connection has to send
Generate(e, i) ==
  IF e.conns[i].out = 0 THEN e
  ELSE [e EXCEPT !.packets = @ + e.conns[i].out,
                 !.conns[i] = [Emit(@) EXCEPT !.out = 0]]
CanGenerate(e, i) == i \in Live(e) /\ e.conns[i].st \in {"open", "closing"}

\* flush_connection(): generated, handed to the sender, the timer refreshed.
\* An error, of Connection::send() before or after some packets or of the
\* sender, leaves it before the timer.
FlushErrors(e, i) ==
  IF Fault("senderr") /\ CanGenerate(e, i)
  THEN {x \in {e, [Generate(e, i) EXCEPT !.stale = @ \cup {i}]} : x.packets <= MaxBlocked} ELSE {}
FlushConnection(e, i) ==
  IF CanGenerate(e, i) THEN {RefreshTimer(x, i) : x \in Flushed(Generate(e, i))} ELSE {e}
Flush(i) ==
  /\ Idle /\ i \in Live(ep)
  /\ \E e \in FlushConnection(ep, i) \cup FlushErrors(ep, i) : ep' = e
  /\ UNCHANGED <<retried, arrived>>

\* process_single_connection()
ProcessSingle(i) ==
  /\ Idle /\ i \in Live(ep)
  /\ \/ Closed(ep.conns[i]) /\ ep' = CleanupClosed(ep, i)
     \/ /\ ~Closed(ep.conns[i])
        /\ \E e1 \in Processed(MarkTickable(ep, i, TRUE), i) :
             \/ \E e2 \in FlushConnection(e1, i) :
                  ep' = [e2 EXCEPT !.tickable = @ \cup {j \in {i} : IsReady(e1.conns[i])}]
             \/ \E e2 \in FlushErrors(e1, i) : ep' = e2
  /\ UNCHANGED <<retried, arrived>>

\* generate_and_take_packets(): the packets are the caller's now
GenerateAndTake(i) ==
  /\ Idle /\ CanGenerate(ep, i)
  /\ \/ ep' = [RefreshTimer(Generate(ep, i), i) EXCEPT !.packets = 0]
     \/ \E e \in FlushErrors(ep, i) : ep' = e
  /\ UNCHANGED <<retried, arrived>>

EpStep == \/ \E i \in ep.tickable : TickOne(i)
          \/ TickDone
          \/ \E i \in ep.sendable : SendOne(i)
          \/ SendDone

EpNext ==
  \/ \E a \in Attempts : Connect(a) \/ RecvInitial(a) \/ RecvZeroRtt(a)
  \/ RecvRouted \/ RecvUnknown \/ Elapse \/ OnTimeout
  \/ \E i \in Live(ep) : AppWrite(i) \/ AppClose(i) \/ ProcessSingle(i) \/ GenerateAndTake(i)
                         \/ Flush(i)
  \/ \E force \in BOOLEAN : CloseEndpoint(force)
  \/ ProcessConnections \/ EpStep

EpSpec == EpInit /\ [][EpNext]_epVars

\* --------------------------------------------------------------- properties
Owned(i, key) ==
  /\ i \in Live(ep)
  /\ LET c == ep.conns[i]
     IN  key \in {Scid(i, n) : n \in c.scids} \cup {Odcid(c.att), Addr(c.att)}
                 \cup {Scid(i, c.ev[j][2]) : j \in {k \in DOMAIN c.ev : c.ev[k][1] = "ScidRetired"}}


\* process_connections(): between two calls of the application, a connection
\* that has events, streams to serve, or is to be cleaned up is on the
\* tickable queue, and one with packets to send is on one of the queues, so
\* that timeout() asks for the call that serves it.  (Not so after an error
\* of the sender or of Connection::send(), which drops the set `ready`.)
WorkIsQueued ==
  pc = "idle" /\ ~Fault("senderr") /\ ~Fault("session") => \A i \in Live(ep) :
    /\ IsReady(ep.conns[i]) => i \in ep.tickable
    /\ ep.conns[i].out > 0 /\ ~Draining(ep.conns[i]) => i \in ep.tickable \cup ep.sendable

\* TimerQueue: the endpoint wakes for every timer of a connection it is not
\* about to process anyway; a connection that drains without one would never
\* be cleaned up.  The one exception: an error of Connection::send() or of
\* the sender leaves send_packets_out() or flush_connection() before
\* update_sent_timers() or refresh_conn_timer(), so a connection that had
\* sent by then (even its CONNECTION_CLOSE) keeps the timer it had, or none,
\* until it is next processed.  An error that comes later, in the
\* flush_remaining() of process_connections(), is no exception.
TimerIsArmed ==
  pc = "idle" => \A i \in Live(ep) \ (ep.tickable \cup ep.sendable \cup ep.stale) :
    /\ ep.conns[i].timer # "none" => i \in DOMAIN ep.timers
    /\ Draining(ep.conns[i]) => i \in DOMAIN ep.timers
=============================================================================
