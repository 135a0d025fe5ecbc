------------------------------ MODULE Adapter -------------------------------
(* The tokio adapter in which every task locks the endpoint itself           *)
(* (src/tokio_adapter: endpoint, connection, stream).  The endpoint is       *)
(* behind the mutex `state`; what tasks wait on is behind two more, the map  *)
(* of connections and the state of a connection.  The callbacks of the       *)
(* endpoint run while whoever drives it, the driver or established(), holds  *)
(* `state`.                                                                  *)
(*                                                                           *)
(* One connection of a client with one stream, its reader and its writer,    *)
(* and one task each in established(), closed(), read_datagram() and         *)
(* accept_bi().  A step is what happens under one lock.                      *)
EXTENDS Util, SequencesExt

CONSTANTS
  AIncomingCap, \* INCOMING_STREAM_CAP
  AModes,       \* what happens: [tasks, close, shutdown, forget, arrive]
  ABytes        \* bound: the bytes the writer has for the stream

VARIABLES
  astate,       \* EndpointState: [held, closed, conn], conn being the connection
  atodo,        \* the callbacks the holder of `state` still has to run
  acs,          \* ConnAsyncState and the map: [known, est, closed, wakers, tx, queued, pending]
  asock,        \* the datagrams in the socket's buffer
  adrv,         \* the driver: [at, woken]
  atask,        \* what each task is doing
  atold,        \* tasks notified since they created their Notified
  amode         \* the member of AModes, and what is left of it

adVars == <<astate, atodo, acs, asock, adrv, atask, atold, amode>>

ATasks == {"opener", "reader", "writer", "est", "closed", "dgram", "accept"}
AOpen == astate.conn.st \in {"live", "draining"}
AFree == astate.held = "none"
AHandle == atask["opener"] \in {"handle", "stream"} /\ atask["accept"] # "dropped"

AdInit ==
  /\ amode \in AModes
  /\ astate = [held |-> "none", closed |-> FALSE,
               conn |-> [st |-> "none", ev |-> <<>>, in |-> 0, fin |-> "no", stop |-> FALSE,
                         credit |-> 0, out |-> 0, dgrams |-> 0]]
  /\ atodo = <<>> /\ asock = <<>> /\ atold = {}
  /\ acs = [known |-> FALSE, est |-> FALSE, closed |-> FALSE, wakers |-> {},
            tx |-> FALSE, queued |-> 0, pending |-> FALSE]
  /\ adrv = [at |-> "wait", woken |-> TRUE]
  /\ atask = [t \in ATasks |-> "idle"]

WakeDriver == adrv' = [adrv EXCEPT !.woken = TRUE]

\* Waker::wake(), and Notify::notify_waiters() for the tasks that wait or
\* have created their Notified
AWake(T) == atask' = [t \in ATasks |-> IF t \in T /\ atask[t] = "wait" THEN "run" ELSE atask[t]]
ANotify(T) ==
  /\ atask' = [t \in ATasks |-> IF t \in T /\ atask[t] = "wait" THEN "idle" ELSE atask[t]]
  /\ atold' = atold \cup {t \in T : atask[t] \in {"armed", "drive"}}

\* ------------------------------------------------------------------ callbacks
\* What a datagram does to the connection, and what it has to report then.
\* A FIN on bytes that were read already ends the stream without making it
\* readable; RESET_STREAM takes the place of what was not read.
AReceive(c, k) ==
  CASE k = "est" -> [c EXCEPT !.ev = Append(@, "established")]
    [] k = "data" -> [c EXCEPT !.in = @ + 1]
    [] k = "fin" -> [c EXCEPT !.fin = IF @ = "no" THEN "reported" ELSE @]
    [] k = "latefin" -> [c EXCEPT !.fin = IF @ = "no" THEN (IF c.in = 0 THEN "silent" ELSE "reported") ELSE @]
    [] k = "reset" -> [c EXCEPT !.fin = "reported", !.in = 0]
    [] k = "stop" -> [c EXCEPT !.stop = TRUE]
    [] k = "credit" -> [c EXCEPT !.credit = @ + 1]
    [] k = "dgram" -> [c EXCEPT !.dgrams = @ + 1, !.ev = Append(@, "dgram")]
    [] k = "stream" -> [c EXCEPT !.ev = Append(@, "created")]
    [] k = "close" -> [c EXCEPT !.st = "draining"]

\* process_connections()
ACallbacks(c) ==
  CASE c.st = "closed" -> <<"stream_closed", "conn_closed">>
    [] c.st \in {"live", "draining"} ->
         c.ev \o (IF c.in > 0 \/ c.fin = "reported" THEN <<"readable">> ELSE <<>>)
              \o (IF c.credit > 0 \/ c.stop THEN <<"writable">> ELSE <<>>)
    [] OTHER -> <<>>
AProcessed(c) == [c EXCEPT !.ev = <<>>, !.st = IF @ = "closed" THEN "gone" ELSE @]

\* on_stream_readable(), on_stream_writable(), on_stream_closed()
OnStream(T) ==
  acs' = [acs EXCEPT !.wakers = @ \ T] /\ AWake(T \cap acs.wakers) /\ UNCHANGED atold

OnEstablished == acs' = [acs EXCEPT !.est = TRUE] /\ ANotify({"est"})
OnDgramReadable == UNCHANGED acs /\ ANotify({"dgram"})

\* on_conn_closed(), and force_close_connection(), which are alike
OnConnClosed ==
  /\ acs' = [acs EXCEPT !.known = FALSE, !.closed = TRUE, !.wakers = {}, !.tx = FALSE]
  /\ LET notify == {"est", "closed", "dgram"}
     IN  /\ atask' = [t \in ATasks |-> CASE t \in acs.wakers /\ atask[t] = "wait" -> "run"
                                         [] t \in notify /\ atask[t] = "wait" -> "idle"
                                         [] OTHER -> atask[t]]
         /\ atold' = atold \cup {t \in notify : atask[t] \in {"armed", "drive"}}

\* on_stream_created() for a stream of the peer: its two halves are made and
\* sent.  When the channel is full, or its receiver is gone with the
\* connection handle, they are dropped instead, and a dropped half locks
\* `state`, which the caller holds.
OnStreamCreated ==
  /\ LET fits == acs.queued < AIncomingCap /\ atask["accept"] # "dropped"
     IN  /\ acs' = IF acs.known /\ fits THEN [acs EXCEPT !.queued = @ + 1] ELSE acs
         /\ astate' = IF acs.known /\ ~fits THEN [astate EXCEPT !.held = "self"] ELSE astate
  /\ UNCHANGED <<atask, atold>>

\* One callback of the holder of `state`, and the end of them
Callback ==
  /\ astate.held \in {"driver", "est", "opener"} /\ atodo # <<>>
  /\ atodo' = Tail(atodo)
  /\ LET e == Head(atodo)
     IN  \/ e = "created" /\ OnStreamCreated
         \/ /\ UNCHANGED astate /\ acs.known
            /\ \/ e = "established" /\ OnEstablished
               \/ e = "dgram" /\ OnDgramReadable
               \/ e = "readable" /\ OnStream({"reader"})
               \/ e = "writable" /\ OnStream({"writer"})
               \/ e = "stream_closed" /\ OnStream({"reader", "writer"})
               \/ e = "conn_closed" /\ OnConnClosed
         \/ e # "created" /\ ~acs.known /\ UNCHANGED <<astate, acs, atask, atold>>
  /\ UNCHANGED <<asock, adrv, amode>>

Release ==
  /\ astate.held \in {"driver", "est", "opener"} /\ atodo = <<>>
  /\ astate' = [astate EXCEPT !.held = "none"]
  /\ UNCHANGED <<atodo, acs, asock, adrv, atask, atold, amode>>

\* process_connections() by p, who has the lock; conn is the connection then
ProcessBy(p, conn) ==
  /\ astate' = [astate EXCEPT !.held = p, !.conn = AProcessed(conn)]
  /\ atodo' = ACallbacks(conn)

\* --------------------------------------------------------------------- driver
\* The driver is polled when its waker is woken, when the socket is readable
\* and when its timer fires: poll_recv_udp(), one datagram at a time, each
\* under the lock, ...
DriverRecv ==
  /\ adrv.at = "wait" /\ AFree /\ asock # <<>>
  /\ asock' = Tail(asock)
  /\ astate' = [astate EXCEPT !.conn = IF @.st = "live" THEN AReceive(@, Head(asock)) ELSE @]
  /\ WakeDriver
  /\ UNCHANGED <<atodo, acs, atask, atold, amode>>

\* ... then the loop body: it stops if the endpoint was closed; else it
\* processes the connections, and a timer that expired: a draining
\* connection is closed.
DriverProcess ==
  /\ adrv.at = "wait" /\ AFree /\ asock = <<>>
  /\ IF astate.closed
     THEN adrv' = [at |-> "stopped", woken |-> FALSE] /\ UNCHANGED <<astate, atodo>>
     ELSE /\ adrv.woken
          /\ adrv' = [adrv EXCEPT !.woken = FALSE] /\ ProcessBy("driver", astate.conn)
  /\ UNCHANGED <<acs, asock, atask, atold, amode>>

DriverTimer ==
  /\ adrv.at = "wait" /\ AFree /\ asock = <<>> /\ ~astate.closed
  /\ LET c == astate.conn
     IN ProcessBy("driver", IF c.st = "draining" THEN [c EXCEPT !.st = "closed"] ELSE c)
  /\ UNCHANGED <<acs, asock, adrv, atask, atold, amode>>

\* ---------------------------------------------------------------------- tasks
Become(t, s) == atask' = [atask EXCEPT ![t] = s]

\* connect_inner(): the connection is created and the connections are
\* processed under the lock; the handle is picked up after it.
ConnectInner ==
  /\ \/ /\ atask["opener"] = "idle" /\ AFree
        /\ ProcessBy("opener", [astate.conn EXCEPT !.st = "live"])
        /\ acs' = [acs EXCEPT !.known = TRUE, !.tx = TRUE, !.pending = TRUE]
        /\ Become("opener", "created") /\ UNCHANGED adrv
     \/ /\ atask["opener"] = "created" /\ astate.held # "opener"
        /\ acs' = [acs EXCEPT !.pending = FALSE]
        /\ Become("opener", IF acs.pending THEN "handle" ELSE "failed")
        /\ IF acs.pending THEN WakeDriver ELSE UNCHANGED adrv
        /\ UNCHANGED <<astate, atodo>>
  /\ UNCHANGED <<asock, atold, amode>>

\* open_bi(), open_uni()
OpenStream ==
  /\ atask["opener"] = "handle" /\ AHandle /\ AFree
  /\ IF AOpen
     THEN /\ atask' = [atask EXCEPT !["opener"] = "stream", !["reader"] = "run", !["writer"] = "run"]
          /\ WakeDriver
     ELSE Become("opener", "failed") /\ UNCHANGED adrv
  /\ UNCHANGED <<astate, atodo, acs, asock, atold, amode>>

\* read() and write() look for the close info first, ...
Checked(t) ==
  /\ atask[t] = "run"
  /\ Become(t, IF acs.closed THEN "done" ELSE "checked")
  /\ UNCHANGED <<astate, atodo, acs, asock, adrv, atold, amode>>

\* ... then lock `state`, read, and leave a waker if there is nothing yet.
\* The driver is not told that credit was freed.
ReadStream ==
  /\ atask["reader"] = "checked" /\ AFree
  /\ \/ /\ astate.conn.st = "gone" \/ (astate.conn.in = 0 /\ astate.conn.fin # "no")
        /\ Become("reader", "done") /\ UNCHANGED <<astate, acs>>
     \/ /\ astate.conn.st # "gone" /\ astate.conn.in > 0
        /\ astate' = [astate EXCEPT !.conn.in = @ - 1]
        /\ Become("reader", "run") /\ UNCHANGED acs
     \/ /\ astate.conn.st # "gone" /\ astate.conn.in = 0 /\ astate.conn.fin = "no"
        /\ acs' = [acs EXCEPT !.wakers = @ \cup {"reader"}]
        /\ Become("reader", "wait") /\ UNCHANGED astate
  /\ UNCHANGED <<atodo, asock, adrv, atold, amode>>

WriteStream ==
  /\ atask["writer"] = "checked" /\ AFree
  /\ LET n == AtMost(astate.conn.credit, ABytes - astate.conn.out)
     IN  \/ /\ astate.conn.st = "gone" \/ astate.conn.stop
            /\ Become("writer", "done") /\ UNCHANGED <<astate, acs, adrv>>
         \/ /\ astate.conn.st # "gone" /\ ~astate.conn.stop /\ n > 0
            /\ astate' = [astate EXCEPT !.conn.credit = @ - n, !.conn.out = @ + n]
            /\ Become("writer", IF astate.conn.out + n = ABytes THEN "done" ELSE "run")
            /\ WakeDriver /\ UNCHANGED acs
         \/ /\ astate.conn.st # "gone" /\ ~astate.conn.stop /\ n = 0
            /\ acs' = [acs EXCEPT !.wakers = @ \cup {"writer"}]
            /\ Become("writer", "wait") /\ UNCHANGED <<astate, adrv>>
  /\ UNCHANGED <<atodo, asock, atold, amode>>

\* established(), closed() and read_datagram() create their Notified before
\* they look.
Arm(t) ==
  /\ atask[t] = "idle" /\ AHandle /\ t \in amode.tasks /\ astate.held # t
  /\ Become(t, "armed") /\ atold' = atold \ {t}
  /\ UNCHANGED <<astate, atodo, acs, asock, adrv, amode>>

AwaitNotified(t) == Become(t, IF t \in atold THEN "idle" ELSE "wait")

\* check_established(), then try_drive_io(): all the datagrams there are, and
\* process_connections(), under the lock, without a word to the driver; if
\* there are none, wait for a notification or the socket.
EstablishedLook ==
  /\ atask["est"] = "armed"
  /\ Become("est", IF acs.est \/ acs.closed THEN "done" ELSE "drive")
  /\ UNCHANGED <<astate, atodo, acs, asock, adrv, atold, amode>>

TryDriveIo ==
  /\ atask["est"] = "drive" /\ AFree
  /\ \/ /\ asock # <<>>
        /\ LET take(c, k) == IF c.st = "live" THEN AReceive(c, k) ELSE c
           IN  ProcessBy("est", FoldLeft(take, astate.conn, asock))
        /\ asock' = <<>> /\ Become("est", "idle")
     \/ asock = <<>> /\ AwaitNotified("est") /\ UNCHANGED <<astate, atodo, asock>>
  /\ UNCHANGED <<acs, adrv, atold, amode>>

SocketReadable ==
  /\ atask["est"] = "wait" /\ asock # <<>> /\ Become("est", "idle")
  /\ UNCHANGED <<astate, atodo, acs, asock, adrv, atold, amode>>

MClosedLook ==
  /\ atask["closed"] \in {"armed", "late"}
  /\ IF atask["closed"] = "armed" THEN Become("closed", IF acs.closed THEN "done" ELSE "late")
                                  ELSE Become("closed", "wait")
  /\ UNCHANGED <<astate, atodo, acs, asock, adrv, atold, amode>>

ClosedLook ==
  /\ atask["closed"] = "armed"
  /\ IF acs.closed THEN Become("closed", "done") ELSE AwaitNotified("closed")
  /\ UNCHANGED <<astate, atodo, acs, asock, adrv, atold, amode>>

DatagramLook ==
  /\ atask["dgram"] = "armed" /\ AFree
  /\ \/ astate.conn.st = "gone" /\ Become("dgram", "done") /\ UNCHANGED astate
     \/ /\ astate.conn.st # "gone" /\ astate.conn.dgrams > 0
        /\ astate' = [astate EXCEPT !.conn.dgrams = @ - 1] /\ Become("dgram", "done")
     \/ /\ astate.conn.st # "gone" /\ astate.conn.dgrams = 0
        /\ AwaitNotified("dgram") /\ UNCHANGED astate
  /\ UNCHANGED <<atodo, acs, asock, adrv, atold, amode>>

\* accept_bi(), accept_uni(); and dropping the connection handle, whose
\* queued streams lock `state` to shut down
AcceptStream ==
  /\ AHandle /\ acs.queued > 0
  /\ acs' = [acs EXCEPT !.queued = @ - 1]
  /\ UNCHANGED <<astate, atodo, asock, adrv, atask, atold, amode>>

ForgetConn ==
  /\ amode.forget /\ AHandle /\ atask["opener"] = "stream"
  /\ \A t \in {"est", "closed", "dgram"} : atask[t] \in {"idle", "done"}
  /\ acs.queued > 0 => AFree
  /\ acs' = [acs EXCEPT !.queued = 0] /\ Become("accept", "dropped")
  /\ UNCHANGED <<astate, atodo, asock, adrv, atold, amode>>

\* TquicConnection::close()
ConnectionClose ==
  /\ amode.close /\ AHandle /\ AFree
  /\ astate' = [astate EXCEPT !.conn.st = IF @ = "live" THEN "draining" ELSE @]
  /\ amode' = [amode EXCEPT !.close = FALSE] /\ WakeDriver
  /\ UNCHANGED <<atodo, acs, asock, atask, atold>>

\* TquicEndpoint::close(): the flag, under the lock; teardown_connections()
\* and force_close_connection(); clear_pending_connects() and the driver
EndpointClose ==
  /\ \/ /\ amode.shutdown = 1 /\ AFree
        /\ astate' = [astate EXCEPT !.closed = TRUE]
        /\ UNCHANGED <<acs, atask, atold, adrv>>
     \/ /\ amode.shutdown = 2
        /\ IF acs.known THEN OnConnClosed ELSE UNCHANGED <<acs, atask, atold>>
        /\ UNCHANGED <<astate, adrv>>
     \/ /\ amode.shutdown = 3
        /\ acs' = [acs EXCEPT !.pending = FALSE] /\ WakeDriver
        /\ UNCHANGED <<astate, atask, atold>>
  /\ amode' = [amode EXCEPT !.shutdown = IF @ = 3 THEN 0 ELSE @ + 1]
  /\ UNCHANGED <<atodo, asock>>

\* The network: the kinds of amode.arrive in order
Arrive ==
  /\ amode.arrive # <<>> /\ astate.conn.st = "live"
  /\ Head(amode.arrive) \notin {"est", "dgram", "stream", "close"} => atask["opener"] = "stream"
  /\ asock' = Append(asock, Head(amode.arrive))
  /\ amode' = [amode EXCEPT !.arrive = Tail(@)]
  /\ UNCHANGED <<astate, atodo, acs, adrv, atask, atold>>

DriverStep == DriverRecv \/ DriverProcess \/ DriverTimer
LockStep == Callback \/ Release
ReaderStep == Checked("reader") \/ ReadStream
WriterStep == Checked("writer") \/ WriteStream
EstStep == Arm("est") \/ EstablishedLook \/ TryDriveIo \/ SocketReadable
ClosedStep == Arm("closed") \/ ClosedLook
DgramStep == Arm("dgram") \/ DatagramLook

AdNext ==
  \/ DriverStep \/ LockStep \/ ReaderStep \/ WriterStep \/ EstStep \/ ClosedStep \/ DgramStep
  \/ ConnectInner \/ OpenStream \/ AcceptStream \/ ForgetConn
  \/ ConnectionClose \/ EndpointClose \/ Arrive

\* tokio runs the driver and every task that was woken, and a mutex is given
\* in the end to whoever waits for it; the network and the application's own
\* decisions owe nothing.
AdSpec ==
  /\ AdInit /\ [][AdNext]_adVars
  /\ WF_adVars(LockStep) /\ SF_adVars(DriverStep)
  /\ SF_adVars(ReaderStep) /\ SF_adVars(WriterStep)
  /\ SF_adVars(EstStep) /\ SF_adVars(ClosedStep) /\ SF_adVars(DgramStep)

\* --------------------------------------------------------------- properties
\* What the task waits for has come about
Due(t) ==
  LET c == astate.conn
  IN  CASE t = "reader" -> c.in > 0 \/ c.fin = "reported" \/ acs.closed
        [] t = "writer" -> c.credit > 0 \/ c.stop \/ acs.closed
        [] t = "est" -> acs.est \/ acs.closed
        [] t = "closed" -> acs.closed
        [] t = "dgram" -> c.dgrams > 0 \/ c.st = "gone"

\* A task that waits for something that has come about stops waiting: no
\* order in which the driver, established() and the tasks take the three
\* mutexes loses a wakeup.  The exceptions are an endpoint that was closed,
\* a holder of `state` that waits for itself, and a FIN on bytes that were
\* all read, which a waiting reader never learns of.
AdapterTaskIsWoken ==
  []<>(\/ \A t \in ATasks \ {"opener", "accept"} : ~(atask[t] = "wait" /\ Due(t))
       \/ astate.closed \/ astate.held = "self")

\* "with consistent lock ordering": whoever holds `state` while the callbacks
\* run releases it (on_stream_created()).
StateIsReleased == astate.held # "none" ~> astate.held = "none"

=============================================================================
