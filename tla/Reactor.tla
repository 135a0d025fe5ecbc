------------------------------ MODULE Reactor -------------------------------
(* The tokio adapter built on a reactor task (src/tokio_adapter: reactor,  *)
(* shared, direct_stream, reactor_connection, reactor_endpoint,            *)
(* reactor_handler, cmd).  The endpoint is behind a mutex.  The reactor    *)
(* task owns the socket, the timer, the command channels and the table of  *)
(* connections; the tasks of the application read and write streams under  *)
(* the same mutex, and leave a waker when they must wait.                  *)
(*                                                                         *)
(* One connection with one bidirectional stream: a reader and a writer,    *)
(* tasks that wait for datagrams, one that connects and then opens a       *)
(* stream, and one each in established() and in closed().  A step is what  *)
(* a task or the reactor does under one lock, or between two.              *)
EXTENDS Util, FiniteSets, SequencesExt

CONSTANTS
  Dgrams,       \* the tasks in read_datagram()
  ControlCap,   \* CONTROL_CHAN_CAP
  DataCap,      \* DATA_CHAN_CAP
  IncomingCap,  \* INCOMING_STREAM_CAP
  Modes,        \* what the application does: [drop, close, shutdown, waiters, net], where
                \* waiters are the tasks that wait for the connection or for datagrams,
                \* and net bounds what the network brings, by kind
  Bytes         \* bound: the bytes the writer has for the stream

VARIABLES
  core,         \* the connection inside the endpoint, under the mutex
  waker,        \* SharedInner::stream_wakers of the stream: {"reader", "writer"}
  events,       \* HandlerEvents on their way to the reactor (unbounded)
  control, data,\* the command channels
  permit,       \* driver_notify holds a permit
  react,        \* the reactor: [at, known, parked, connects, incoming]
  shared,       \* SharedConnState: [est, closed] and who waits on its Notify
  task,         \* what each task of the application is doing
  mode, net     \* the member of Modes; what the network may still bring

coreVars == <<core, waker, events>>
chanVars == <<control, data, permit>>
reactVars == <<core, waker, events, control, data, permit, react, shared, task, mode, net>>

Tasks == {"reader", "writer", "opener", "est", "closed"} \cup Dgrams
Woken(T) == [t \in Tasks |-> IF t \in T /\ task[t] = "wait" THEN "run" ELSE task[t]]
Answer(f, T, r) == [t \in Tasks |-> IF t \in T THEN r ELSE f[t]]
InTable(c) == c.st \in {"live", "closing", "draining", "closed"}

ReactInit ==
  /\ mode \in Modes /\ net = mode.net
  /\ core = [st |-> "none", est |-> FALSE, ev |-> <<>>, in |-> 0, fin |-> "no", stop |-> FALSE,
             credit |-> 0, out |-> 0, dgrams |-> 0, shut |-> {}]
  /\ waker = {} /\ events = <<>>
  /\ control = <<>> /\ data = <<>> /\ permit = FALSE
  /\ react = [at |-> "select", known |-> FALSE, parked |-> <<>>, connects |-> {}, incoming |-> 0]
  /\ shared = [est |-> FALSE, closed |-> FALSE]
  /\ task = [t \in Tasks |-> "idle"]

Stopped == react.at = "stopped"

\* ---------------------------------------------------------- the application
\* Sending a command waits for room in the channel, and fails once the
\* reactor is gone.  A oneshot brings the answer back.
SendControl(t, cmd) ==
  \/ /\ ~Stopped /\ Len(control) < ControlCap
     /\ control' = Append(control, cmd) /\ task' = [task EXCEPT ![t] = "sent"]
  \/ Stopped /\ task' = [task EXCEPT ![t] = "gone"] /\ UNCHANGED control

SendData(t, cmd) ==
  \/ /\ ~Stopped /\ Len(data) < DataCap
     /\ data' = Append(data, cmd) /\ task' = [task EXCEPT ![t] = "sent"]
  \/ Stopped /\ task' = [task EXCEPT ![t] = "gone"] /\ UNCHANGED data

\* TquicEndpoint::connect()
Connect ==
  /\ task["opener"] = "idle"
  /\ SendControl("opener", <<"Connect">>)
  /\ UNCHANGED <<coreVars, data, permit, react, shared, mode, net>>

\* With the handle, the application opens a stream, waits in established()
\* and in closed(), and asks for datagrams.
OpenBi ==
  /\ task["opener"] = "handle"
  /\ SendControl("opener", <<"OpenBi">>)
  /\ UNCHANGED <<coreVars, data, permit, react, shared, mode, net>>

HasHandle == task["opener"] \in {"handle", "stream"}

ReadDatagram(d) ==
  /\ task[d] = "idle" /\ HasHandle /\ d \in mode.waiters
  /\ SendData(d, <<"DgramRecv", d>>)
  /\ UNCHANGED <<coreVars, control, permit, react, shared, mode, net>>

\* close() and TquicEndpoint::close(): try_send(), which a full channel drops
CloseConn ==
  /\ HasHandle /\ ~Stopped /\ mode.close
  /\ control' = IF Len(control) < ControlCap THEN Append(control, <<"Close">>) ELSE control
  /\ mode' = [mode EXCEPT !.close = FALSE]
  /\ UNCHANGED <<coreVars, data, permit, react, shared, task, net>>

CloseEndpoint ==
  /\ mode.shutdown /\ ~Stopped /\ Len(control) < ControlCap
  /\ control' = Append(control, <<"Shutdown">>)
  /\ mode' = [mode EXCEPT !.shutdown = FALSE]
  /\ UNCHANGED <<coreVars, data, permit, react, shared, task, net>>

MPollRead ==
  /\ task["reader"] \in {"run", "half"}
  /\ \/ /\ task["reader"] = "half"
        /\ waker' = waker \cup {"reader"} /\ task' = [task EXCEPT !["reader"] = "wait"]
        /\ UNCHANGED <<core, permit>>
     \/ /\ task["reader"] = "run" /\ (~InTable(core) \/ (core.in = 0 /\ core.fin # "no"))
        /\ task' = [task EXCEPT !["reader"] = "done"] /\ UNCHANGED <<core, waker, permit>>
     \/ /\ task["reader"] = "run" /\ InTable(core) /\ core.in > 0
        /\ core' = [core EXCEPT !.in = @ - 1] /\ permit' = TRUE /\ UNCHANGED <<waker, task>>
     \/ /\ task["reader"] = "run" /\ InTable(core) /\ core.in = 0 /\ core.fin = "no"
        /\ task' = [task EXCEPT !["reader"] = "half"] /\ UNCHANGED <<core, waker, permit>>
  /\ UNCHANGED <<events, control, data, react, shared, mode, net>>

\* poll_read() and poll_read_chunk(): a byte is read, and the driver told;
\* or the stream was finished or reset, or the connection is over; or the
\* reader leaves its waker.
PollRead ==
  /\ task["reader"] = "run"
  /\ \/ /\ ~InTable(core)
        /\ task' = [task EXCEPT !["reader"] = "done"] /\ UNCHANGED <<core, waker, permit>>
     \/ /\ InTable(core) /\ core.in > 0
        /\ core' = [core EXCEPT !.in = @ - 1] /\ permit' = TRUE /\ UNCHANGED <<waker, task>>
     \/ /\ InTable(core) /\ core.in = 0 /\ core.fin # "no"
        /\ task' = [task EXCEPT !["reader"] = "done"] /\ UNCHANGED <<core, waker, permit>>
     \/ /\ InTable(core) /\ core.in = 0 /\ core.fin = "no"
        /\ waker' = waker \cup {"reader"} /\ task' = [task EXCEPT !["reader"] = "wait"]
        /\ UNCHANGED <<core, permit>>
  /\ UNCHANGED <<events, control, data, react, shared, mode, net>>

\* write_all_inner(): all that flow control allows is written under one lock,
\* the packets are generated, and the writer leaves its waker if that was not
\* all.  (write_bytes_inner() leaves it without telling the driver.)  A stream
\* the peer stopped is an error at once.  The credit is the stream's, the
\* connection is taken to have more.
PollWrite ==
  /\ task["writer"] = "run"
  /\ \/ /\ ~InTable(core) \/ core.stop
        /\ task' = [task EXCEPT !["writer"] = "done"] /\ UNCHANGED <<core, waker, permit>>
     \/ /\ InTable(core) /\ ~core.stop
        /\ LET n == AtMost(core.credit, Bytes - core.out)
               all == core.out + n = Bytes
           IN  /\ core' = [core EXCEPT !.credit = @ - n, !.out = @ + n]
               /\ waker' = IF all THEN waker ELSE waker \cup {"writer"}
               /\ task' = [task EXCEPT !["writer"] = IF all THEN "done" ELSE "wait"]
        /\ permit' = TRUE
  /\ UNCHANGED <<events, control, data, react, shared, mode, net>>

\* Drop of a SendStream or RecvStream: the wakers of the stream, which are
\* those of both halves, are removed, and the shutdown is sent if there is
\* room for it.
Other(t) == IF t = "reader" THEN "writer" ELSE "reader"
DropHalf(t) ==
  /\ task[t] \in {"run", "wait", "done"} /\ (mode.drop \/ task[Other(t)] \in {"done", "dropped"})
  /\ waker' = {}
  /\ task' = [task EXCEPT ![t] = "dropped"]
  /\ data' = IF task[t] # "done" /\ Len(data) < DataCap /\ ~Stopped
             THEN Append(data, <<"StreamShutdown", t>>) ELSE data
  /\ UNCHANGED <<core, events, control, permit, react, shared, mode, net>>

\* established(): looks at the flags, registers with `established`, looks
\* again, and only then registers with `closed`.
Established ==
  /\ \/ /\ task["est"] = "idle" /\ HasHandle /\ "est" \in mode.waiters
        /\ task' = [task EXCEPT !["est"] = IF shared.est \/ shared.closed THEN "done" ELSE "half"]
     \/ /\ task["est"] = "half"
        /\ task' = [task EXCEPT !["est"] = IF shared.est THEN "done" ELSE "wait"]
     \/ /\ task["est"] = "run"
        /\ task' = [task EXCEPT !["est"] = "done"]
  /\ UNCHANGED <<coreVars, chanVars, react, shared, mode, net>>

\* closed(): looks for the close info, then registers with `closed`; when
\* woken it looks again.
ClosedWait ==
  /\ \/ /\ task["closed"] = "idle" /\ HasHandle /\ "closed" \in mode.waiters
        /\ task' = [task EXCEPT !["closed"] = IF shared.closed THEN "done" ELSE "half"]
     \/ /\ task["closed"] = "half"
        /\ task' = [task EXCEPT !["closed"] = "wait"]
     \/ /\ task["closed"] = "run"
        /\ task' = [task EXCEPT !["closed"] = IF shared.closed THEN "done" ELSE "half"]
  /\ UNCHANGED <<coreVars, chanVars, react, shared, mode, net>>

\* ------------------------------------------------------------- the endpoint
\* What a datagram does to the connection, and what it has to report then.
\* A FIN on bytes that were read already ends the stream without making it
\* readable; RESET_STREAM takes the place of what was not read.
FromNet(c, k) ==
  CASE k = "est" -> [c EXCEPT !.est = TRUE, !.ev = Append(@, "ConnEstablished")]
    [] k = "data" -> [c EXCEPT !.in = @ + 1]
    [] k = "fin" -> [c EXCEPT !.fin = "reported"]
    [] k = "latefin" -> [c EXCEPT !.fin = "silent"]
    [] k = "reset" -> [c EXCEPT !.fin = "reported", !.in = 0]
    [] k = "stop" -> [c EXCEPT !.stop = TRUE]
    [] k = "credit" -> [c EXCEPT !.credit = @ + 1]
    [] k = "dgram" -> [c EXCEPT !.dgrams = @ + 1, !.ev = Append(@, "DgramReadable")]
    [] k = "stream" -> [c EXCEPT !.ev = Append(@, "StreamCreated")]
    [] k = "close" -> [c EXCEPT !.st = "draining"]

\* The callbacks of process_connections(), which TquicHandler turns into
\* events: of a live connection what it reports, then the stream if it can be
\* read or written; of a closed one that its stream and it are closed.
Callbacks(c) ==
  CASE c.st = "none" \/ c.st = "gone" -> <<>>
    [] c.st = "closed" -> <<"StreamClosed", "ConnClosed">>
    [] OTHER -> c.ev \o (IF c.in > 0 \/ c.fin = "reported" THEN <<"StreamReadable">> ELSE <<>>)
                     \o (IF c.credit > 0 \/ c.stop THEN <<"StreamWritable">> ELSE <<>>)

Processed(c) ==
  [c EXCEPT !.ev = <<>>,
            !.st = CASE @ = "closing" -> "draining" [] @ = "closed" -> "gone" [] OTHER -> @]

\* -------------------------------------------------------------- the reactor
At(x) == react.at = x
GoTo(x) == react' = [react EXCEPT !.at = x]

\* handle_control(): Connect creates the connection, whose callback is the
\* event that answers; OpenBi answers at once; Close closes; Shutdown ends
\* the loop, and shutdown_all() follows.
Control ==
  /\ At("select") /\ control # <<>> /\ Head(control)[1] # "Shutdown"
  /\ control' = Tail(control)
  /\ LET cmd == Head(control)[1]
     IN  \/ /\ cmd = "Connect"
            /\ core' = [core EXCEPT !.st = "live"] /\ events' = Append(events, "ConnCreated")
            /\ react' = [react EXCEPT !.at = "process", !.connects = @ \cup {"opener"}]
            /\ UNCHANGED task
         \/ /\ cmd = "OpenBi" /\ InTable(core)
            /\ task' = [task EXCEPT !["opener"] = "stream", !["reader"] = "run", !["writer"] = "run"]
            /\ GoTo("process") /\ UNCHANGED <<core, events>>
         \/ /\ cmd = "OpenBi" /\ ~InTable(core)
            /\ task' = [task EXCEPT !["opener"] = "failed"]
            /\ GoTo("process") /\ UNCHANGED <<core, events>>
         \/ /\ cmd = "Close"
            /\ core' = IF core.st = "live" THEN [core EXCEPT !.st = "closing"] ELSE core
            /\ GoTo("process") /\ UNCHANGED <<events, task>>
  /\ UNCHANGED <<waker, data, permit, shared, mode, net>>

\* handle_udp_recv(), and drain_udp_recv() as long as the socket has more
UdpRecv(k) ==
  /\ (At("select") /\ control = <<>>) \/ At("recv")
  /\ net[k] > 0 /\ core.st = "live"
  /\ k \in {"data", "fin", "latefin", "reset", "credit", "stop"} => task["opener"] = "stream"
  /\ k \in {"data", "fin", "latefin", "reset"} => core.fin = "no"
  /\ k = "latefin" => core.in = 0 /\ net["data"] < mode.net["data"]
  /\ k # "est" /\ k # "close" => core.est
  /\ core' = FromNet(core, k) /\ net' = [net EXCEPT ![k] = @ - 1]
  /\ GoTo("recv")
  /\ UNCHANGED <<waker, events, chanVars, shared, task, mode>>

RecvDone ==
  /\ At("recv") /\ GoTo("process")
  /\ UNCHANGED <<coreVars, chanVars, shared, task, mode, net>>

\* The driver_notify branch drains the events and does nothing else.
Notified ==
  /\ At("select") /\ control = <<>> /\ permit
  /\ permit' = FALSE /\ GoTo("drain")
  /\ UNCHANGED <<coreVars, control, data, shared, task, mode, net>>

\* handle_data(), batch_data_commands(): the commands of one batch, one at a
\* time.  A read of a datagram that finds none is parked.
Data ==
  /\ At("select") \/ At("batch")
  /\ At("select") => control = <<>> /\ ~permit
  /\ data # <<>>
  /\ data' = Tail(data)
  /\ LET cmd == Head(data)
     IN  \/ /\ cmd[1] = "StreamShutdown"
            /\ core' = IF ~InTable(core) THEN core
                       ELSE [core EXCEPT !.shut = @ \cup {cmd[2]},
                                         !.ev = IF core.shut \cup {cmd[2]} = {"reader", "writer"}
                                                THEN Append(@, "StreamClosed") ELSE @]
            /\ GoTo("batch") /\ UNCHANGED task
         \/ /\ cmd[1] = "DgramRecv" /\ InTable(core) /\ core.dgrams > 0
            /\ core' = [core EXCEPT !.dgrams = @ - 1]
            /\ task' = [task EXCEPT ![cmd[2]] = "done"] /\ GoTo("batch")
         \/ /\ cmd[1] = "DgramRecv" /\ InTable(core) /\ core.dgrams = 0 /\ react.known
            /\ react' = [react EXCEPT !.at = "batch", !.parked = Append(@, cmd[2])]
            /\ UNCHANGED <<core, task>>
         \/ /\ cmd[1] = "DgramRecv" /\ (~InTable(core) \/ (core.dgrams = 0 /\ ~react.known))
            /\ task' = [task EXCEPT ![cmd[2]] = "closed"]
            /\ GoTo("batch") /\ UNCHANGED core
  /\ UNCHANGED <<waker, events, control, permit, shared, mode, net>>

BatchDone ==
  /\ At("batch") /\ data = <<>> /\ GoTo("process")
  /\ UNCHANGED <<coreVars, chanVars, shared, task, mode, net>>

\* The timer: endpoint.on_timeout().  A connection that drains is closed.
Timer ==
  /\ At("select") /\ control = <<>> /\ ~permit /\ data = <<>>
  /\ core' = IF core.st = "draining" THEN [core EXCEPT !.st = "closed"] ELSE core
  /\ GoTo("process")
  /\ UNCHANGED <<waker, events, chanVars, shared, task, mode, net>>

\* process_and_dispatch(): process_connections() under the mutex, then the
\* events one by one without it.
Process ==
  /\ At("process")
  /\ events' = events \o Callbacks(core) /\ core' = Processed(core)
  /\ GoTo("drain")
  /\ UNCHANGED <<waker, chanVars, shared, task, mode, net>>

DrainDone ==
  /\ At("drain") /\ events = <<>> /\ GoTo("select")
  /\ UNCHANGED <<coreVars, chanVars, shared, task, mode, net>>

\* satisfy_dgram_reads(): datagrams go to the parked reads in order; the
\* first read that finds none is parked again, and the loop ends there, so the
\* ones behind it are dropped, as all are when the connection is gone.  The
\* caller of a dropped read gets AsyncError::ReactorGone.
MDgramReadable ==
  /\ LET n == AtMost(core.dgrams, Len(react.parked))
         served == IF InTable(core) THEN n ELSE 0
     IN  /\ react' = [react EXCEPT !.parked = <<>>]
         /\ core' = [core EXCEPT !.dgrams = @ - served]
         /\ task' = [t \in Tasks |-> IF \E i \in 1 .. served : react.parked[i] = t
                                     THEN "done" ELSE task[t]]
  /\ UNCHANGED <<waker, shared>>

DgramReadable ==
  /\ LET n == IF InTable(core) THEN AtMost(core.dgrams, Len(react.parked)) ELSE 0
         again == IF InTable(core) /\ n < Len(react.parked) THEN <<react.parked[n + 1]>> ELSE <<>>
     IN  /\ react' = [react EXCEPT !.parked = IF react.known THEN again ELSE @]
         /\ core' = [core EXCEPT !.dgrams = @ - n]
         /\ task' = [t \in Tasks |->
                       IF \E i \in 1 .. n : react.parked[i] = t THEN "done"
                       ELSE IF t \in Ran(react.parked) \ Ran(again) THEN "gone" ELSE task[t]]
  /\ UNCHANGED <<waker, shared>>

\* Taking a waker out of the map and waking its task
Wake(T) ==
  /\ waker' = waker \ T /\ task' = Woken(T \cap waker)
  /\ UNCHANGED <<core, react, shared>>

\* on_conn_created(), deliver_conn_handle(): the connection enters the table
\* and connect() is answered.
ConnCreated ==
  /\ react' = [react EXCEPT !.known = TRUE, !.connects = {}]
  /\ task' = Answer(task, react.connects, "handle")
  /\ UNCHANGED <<core, waker, shared>>

ConnEstablished ==
  /\ shared' = [shared EXCEPT !.est = @ \/ react.known]
  /\ task' = IF react.known THEN Woken({"est"}) ELSE task
  /\ UNCHANGED <<core, waker, react>>

\* on_conn_closed(), fail_pending_ops()
ConnClosed ==
  /\ react' = [react EXCEPT !.known = FALSE, !.parked = <<>>, !.incoming = 0]
  /\ shared' = [shared EXCEPT !.closed = TRUE]
  /\ waker' = {}
  /\ task' = Answer(Woken(waker \cup {"est", "closed"}), Ran(react.parked), "closed")
  /\ UNCHANGED core

\* create_incoming_bidi(), create_incoming_uni(): a stream for which the
\* channel has no room is dropped.
StreamCreated ==
  /\ react' = [react EXCEPT !.incoming = AtMost(IncomingCap, @ + 1)]
  /\ UNCHANGED <<core, waker, task, shared>>

\* drain_handler_events(), dispatch_event(): one event
Dispatch ==
  /\ At("drain") /\ events # <<>>
  /\ events' = Tail(events)
  /\ LET e == Head(events)
     IN  \/ e = "ConnCreated" /\ ConnCreated
         \/ e = "ConnEstablished" /\ ConnEstablished
         \/ e = "ConnClosed" /\ ConnClosed
         \/ e = "StreamCreated" /\ StreamCreated
         \/ e = "StreamReadable" /\ Wake({"reader"})
         \/ e = "StreamWritable" /\ Wake({"writer"})
         \/ e = "StreamClosed" /\ Wake({"reader", "writer"})
         \/ e = "DgramReadable" /\ DgramReadable
  /\ UNCHANGED <<chanVars, mode, net>>

\* Shutdown and shutdown_all(): the wakers are taken out of the map and not
\* woken, the parked reads and connects fail, the ones in closed() and
\* established() are notified, but the close info is not set; and with the
\* reactor the channels and the answers they hold are dropped.
Shutdown ==
  /\ At("select") /\ control # <<>> /\ Head(control)[1] = "Shutdown"
  /\ LET held == {t \in Tasks : task[t] = "sent"} \ (Ran(react.parked) \cup react.connects)
         told == IF react.known THEN Woken({"est", "closed"}) ELSE task
     IN  task' = Answer(Answer(told, Ran(react.parked) \cup react.connects, "closed"), held, "gone")
  /\ waker' = IF react.known THEN {} ELSE waker
  /\ react' = [at |-> "stopped", known |-> FALSE, parked |-> <<>>, connects |-> {}, incoming |-> 0]
  /\ core' = [core EXCEPT !.st = IF @ = "none" THEN @ ELSE "gone"]
  /\ control' = <<>> /\ data' = <<>> /\ events' = <<>>
  /\ UNCHANGED <<permit, shared, mode, net>>

\* accept_bi(), accept_uni()
Accept ==
  /\ react.incoming > 0 /\ HasHandle
  /\ react' = [react EXCEPT !.incoming = @ - 1]
  /\ UNCHANGED <<coreVars, chanVars, shared, task, mode, net>>

Loop == Control \/ RecvDone \/ Notified \/ Data \/ BatchDone \/ Timer \/ Process \/ Dispatch \/ DrainDone
        \/ Shutdown
Poll == PollRead \/ PollWrite \/ Established \/ ClosedWait \/ Connect \/ OpenBi
        \/ \E d \in Dgrams : ReadDatagram(d)

ReactNext ==
  \/ Loop \/ Poll \/ Accept
  \/ CloseConn \/ CloseEndpoint
  \/ \E t \in {"reader", "writer"} : DropHalf(t)
  \/ \E k \in DOMAIN net : UdpRecv(k)

\* tokio runs the reactor task and every task that was woken; the network and
\* the application's own decisions owe nothing.
ReactSpec ==
  /\ ReactInit /\ [][ReactNext]_reactVars
  /\ WF_reactVars(Loop) /\ WF_reactVars(PollRead) /\ WF_reactVars(PollWrite)
  /\ WF_reactVars(Established) /\ WF_reactVars(ClosedWait)

\* --------------------------------------------------------------- properties
Held(t) == Cardinality({i \in DOMAIN control : control[i][1] # "Close" /\ t = "opener"
                                               /\ control[i][1] # "Shutdown"})
           + Cardinality({i \in DOMAIN data : data[i] = <<"DgramRecv", t>>})
           + Cardinality({i \in DOMAIN react.parked : react.parked[i] = t})
           + (IF t \in react.connects THEN 1 ELSE 0)

\* A call that was sent to the reactor and not answered is in exactly one of
\* the places it can be answered from: a command channel, the parked reads or
\* the pending connects; a call that was answered is in none
\* (handle_dgram_recv(), on_dgram_readable(), on_conn_closed()).  A read that
\* satisfy_dgram_reads() drops is answered too, though wrongly: see
\* GoneMeansStopped.
CallIsHeldOnce ==
  \A t \in Dgrams \cup {"opener"} : Held(t) = IF task[t] = "sent" THEN 1 ELSE 0

\* "The reactor task has exited." (AsyncError::ReactorGone): a caller is told
\* so only when the reactor has stopped.  satisfy_dgram_reads(), which
\* "Returns any operations that could not be satisfied.", returns only the
\* first.
GoneMeansStopped == \A t \in Tasks : task[t] = "gone" => Stopped

\* A reader that waits while there is something to read, the stream has ended
\* or was reset, or the connection is over, is woken, and so is a writer that
\* waits while it has credit, the peer stopped the stream or the connection
\* is over: whatever order poll_read(), write_all() and the reactor's dispatch
\* take the mutex in, no wakeup is lost.  The exceptions are a reactor that
\* was shut down, a dropped sibling, and a FIN on bytes that were all read,
\* which a waiting reader never learns of.
StreamTaskIsWoken ==
  /\ (task["reader"] = "wait" /\ (core.in > 0 \/ core.fin = "reported" \/ ~InTable(core)))
       ~> (task["reader"] # "wait" \/ Stopped \/ task["writer"] = "dropped")
  /\ (task["writer"] = "wait" /\ (core.credit > 0 \/ core.stop \/ ~InTable(core)))
       ~> (task["writer"] # "wait" \/ Stopped \/ task["reader"] = "dropped")

=============================================================================
