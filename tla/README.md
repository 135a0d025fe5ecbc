# tquic in TLA+

A model of [tquic](../src), a QUIC and HTTP/3 library in Rust: TLA+ modules
translated from the source, TLC runs over small instances, and TLAPS proofs for
all instances.

`PROJECT.json` lists the components, the runs with their properties and mutants,
the source lines behind every definition, the hazards of the code and the
theorems. All paths below are under `src/src`.

## The system

| Part | Source | Modules |
|---|---|---|
| buffers of a stream | `connection/stream/send_buf.rs`, `recv_buf.rs`, `range_buf.rs`, `connection/flowcontrol.rs` | SendBuf, SendChunks, RecvBuf, RecvChunks |
| stream map | `connection/stream/mod.rs`, `stream_state.rs`, `concurrency.rs` | StreamSend, StreamRecv, StreamTransfer, StreamCredit, StreamIds |
| loss recovery | `connection/recovery.rs`, `space.rs`, `rtt.rs` | Recovery, Estimators |
| congestion control | `congestion_control/*.rs` | Estimators, Bbr, Bbr3, Cubic, Copa, Congestion |
| connection | `connection/{recv,send,handshake,query,timer,dgram}.rs` | ConnState |
| identifiers and paths | `connection/cid.rs`, `path.rs` | PathCids |
| path MTU | `connection/pmtu.rs` | Pmtud |
| packets, frames, parameters, tokens | `packet.rs`, `frame.rs`, `codec.rs`, `trans_param.rs`, `token.rs` | Packets, Frames, Messages |
| packet numbers, ranges, key phases | `packet.rs`, `window.rs`, `ranges.rs`, `tls/tls.rs` | PktNum, RangeSet, KeyUpdate |
| multipath schedulers | `multipath_scheduler/*.rs` | Sched |
| endpoint | `endpoint/*.rs`, `timer_queue.rs` | Endpoint |
| HTTP/3 and QPACK | `h3/*.rs`, `h3/qpack/*.rs` | H3, Qpack |
| tokio adapter, two builds | `tokio_adapter/*.rs` | Reactor, Adapter |

An application calls the endpoint (or a handle of the tokio adapter, or HTTP/3 on
top), the endpoint hands datagrams and timeouts to connections, a connection takes
packets apart into frames and gives them to the stream map, to the connection IDs
and paths, and to loss recovery; loss recovery reports each frame acknowledged or
lost and tells the congestion controller. A connection runs in one thread, but in an
order that the network, the timers and the application choose: that is the
concurrency of most modules here. The tokio adapter adds tasks that run in parallel,
locks, channels and wakers.

What makes it hard: frames are acknowledged in any order and resent before they are
known to be lost; a packet may be deemed lost and arrive; a stream's end can be
announced by FIN, by the application or by the peer, in any order; every list and
queue is maintained by "was not, and now is" tests in many handlers; limits, IDs and
paths are given up while frames about them are in flight; and an object is destroyed
while something still refers to it. The `hazards` of `PROJECT.json` give the lines.

## The modules

A module has the state of its component as variables, one action per operation or
handler, and the properties at its end. Faulty variants of some definitions, the
mutants, stand before the definition they vary and are used by no specification.

### Streams

    SendChunks ==implements==> SendBuf <--- StreamSend ---.
                                                          StreamTransfer
    RecvChunks ==implements==> RecvBuf <--- StreamRecv ---'

**SendBuf** is the send buffer over offsets: a RangeSet is the set of its offsets, the
chunk queue the interval `[data_off, write_off)`. `unacked_len` is kept as the code
keeps it, because `ack_and_drop` computes from it how much of the queue to cut.
**SendChunks** has the queue itself, the cursor `pos` and the loops of `read`,
`poll_transmit` and `ack_and_drop`; `spinning` is set where the loop of `read` would
never end. **RecvBuf** is the receive buffer with its FlowControl over offsets,
**RecvChunks** the BTreeMap with the trimming of overlaps.

**StreamSend** is a stream's sending half: SendBuf, and from `StreamMap` the sendable
queue (how often the stream is in it), the pending reset, closing and destruction.
`flight` holds the frames of outstanding packets; an outstanding frame ends
acknowledged or lost, and a probe may re-queue it before. **StreamRecv** is the
receiving half: RecvBuf, the readable, almost_full and stopped lists, closing, and
the connection's own FlowControl. Frames are any the peer may send. **StreamTransfer**
composes them over a network per direction.

**StreamCredit** is what several streams share when they send: `SendCapacity`, the
writable set and DATA_BLOCKED. **StreamIds** is `ConcurrencyControl` with
`get_or_create`, `mark_closed`, `is_closed` and the next IDs.

Payload bytes are their offsets; packets carry one frame. Time is left out: a packet
can be declared lost at any moment, a window may double at any update but the first.

### Connection

**ConnState** is a client and a server over a network that loses, delays, reorders and
duplicates: encryption levels and keys, packets that arrive before their keys, when an
ACK is due, HANDSHAKE_DONE and NEW_TOKEN, Retry and Version Negotiation, closing,
draining, the idle, handshake, ack and draining timers. The handshake messages of a
level are one unit, as is the stream data of a side.

**Recovery** is loss detection on one path in time: the three packet number spaces,
packet and time threshold, probe timeouts and their backoff, dropped spaces, bytes in
flight. A method of the code is an operator on the record of `Recovery` and its spaces.
**Estimators** has the round-trip time in whole ticks, and what the controllers share:
the windowed extremum (`minmax.rs`) and the delivery rate.

**Congestion** joins a controller (**Bbr**, **Bbr3**, **Cubic** with HyStart++, **Copa** or
Dummy) to the pacer and to a bottleneck link that delivers, drops and is disturbed.
A controller is a record and each method an operator from it to the next one, in the
order the code calls them. Floating-point gains are fractions of integers.

**PathCids** has the IDs issued and received, paths, challenges, migration, eviction and
the anti-amplification limit of an established connection. **Pmtud** is the search for
the packet size, switched on or off, over IPv4 and IPv6; a probe that was declared lost and
is acknowledged later changes nothing, because its frames were taken from it.
**Sched** is the choice of a path by each scheduler and what the connection does with it:
copies are buffered for the other paths and filtered by what was acknowledged meanwhile,
and a new path may take the slot of a removed one. Lost frames are not sent again there.

### Wire

**Packets** takes coalesced packets through encoding, protection and back; the AEAD and
the mask of header protection are external and modelled by what the code relies on.
**Frames**, **Messages** and **Qpack** encode and decode frames, transport parameters,
tokens, Retry, Version Negotiation and Stateless Reset packets and field sections byte
by byte. **PktNum** is the truncation of packet numbers and the duplicate window,
**KeyUpdate** the key phases of two endpoints, **RangeSet** the set of ranges with its
capacity. **H3** is both sides of an HTTP/3 connection over transport streams that
deliver in pieces of any size, among them frames that end too early, settings and field
sections that must be refused, and resets in the middle of a frame. **Util** has the helpers they share.

### Endpoint and tokio

**Endpoint** is the connection table, the routes, the timer queue, the tickable and
sendable queues, early packets and the queue of outgoing packets. A connection is what
the endpoint sees of it. `stale` marks the connections whose timer an error of the sender
left as it was. **Reactor** is the build with one task that owns the endpoint
and channels to it, **Adapter** the build in which every task locks it: a step is what
happens under one lock.

### MC modules

Each MC module instantiates several components; a behaviour is one of one of them
(`Parts`, `Lanes`, `Builds`), while the others rest in their initial state. A property
of one component is so checked on all of its behaviours and trivially on the others.

## What the runs show

| Run | Question | Result |
|---|---|---|
| `streams` | Any order of writes, frames, acknowledgements, losses, probes, reads, shutdowns and resets: is a sent byte ever forgotten, does a stream with data stay queued, is buffered data sound, is the application called, is credit due in time, do the real data structures implement the offset view? | holds, 286,723 states |
| `transfer` | Has what was acknowledged arrived, does the receiver ever report an error it did not cause by its own miscount, is every byte written eventually read, does a writer blocked on the stream's limit get credit? | holds, 353,024 states |
| `limits` | Does shared credit leak or count twice, is a writer ever left off the writable set, is the credit of a closed stream given back once, is the peer's concurrency bounded; does BBR's bandwidth stay one that was measured, does a controller cut its window once per flight? | holds, 269,740 states |
| `connection` | Is an ACK scheduled for what must be acknowledged, does confirmation of the handshake mean that both have the keys, do two connections settle; is every packet accounted for by loss recovery, are bytes in flight never overcounted, is data delivered in the end? | holds, 171,828 states |
| `routing` | Is a retired ID ever used, does a path keep its own; do routes lead to live connections, is work queued and a timer armed when it must be? | holds, 855,064 states |
| `tokio` | Is a call ever held twice or lost, is a waiting task woken in both builds? | holds, 209,957 states |
| `wire` | Does what is encoded decode to itself, are packet numbers exact, do ranges stand for their set, do keys stay in step, does the MTU search converge, do redundant copies echo, are picks fair, are HTTP/3 messages whole and in order? | holds, 275,304 states |
| `transfer_fin` | Does the FIN of a finished stream arrive? | violated |
| `transfer_end` | Is a reader told of the end that arrived? | violated |
| `transfer_stall` | Does a writer blocked on the connection's limit get credit? | violated |
| `tokio_lock` | Does whoever holds the mutex of the endpoint release it? | violated |
| `tokio_dgram` | Is a caller told that the reactor is gone only when it is? | violated |

The violations, each a short trace that can be followed in the code:

* `transfer_fin`. The application writes, the data is sent, and then it finishes
  with an empty write. If the acknowledgement comes between that write
  and the frame, `is_complete()` is already true, the stream closes and is
  destroyed, and the FIN is never sent. The same happens when the frame with the
  empty FIN is lost.
* `transfer_end`. A retransmission with FIN of bytes that were read already sets
  `fin_off` and returns early: `is_fin()` holds but nothing becomes readable and
  nothing closes the stream.
* `transfer_stall`. The peer uses all of the connection's credit, everything is
  read, MAX_DATA is sent and lost. `on_max_data_frame_lost` sets `rx_almost_full`, but
  `need_send_max_data()` also asks whether the next limit is larger than the last one
  sent. It is not, because nothing was read since and nothing can arrive to be read.
* `tokio_lock`. A stream of the peer that does not fit into the incoming channel is
  dropped inside the callback, while the callback holds the mutexes that the `Drop` of a
  stream takes. The driver then waits for itself.
* `tokio_dgram`. Three tasks wait in `read_datagram` and one datagram arrives.
  `satisfy_dgram_reads` answers the first, keeps the second and leaves its loop: the
  third is dropped, and its caller gets ReactorGone from a reactor that runs.

Further differences between the code and what it or the protocol says are in the
models and are not the subject of a run. Properties that they touch name them as
exceptions.

Streams:
* `get_or_create` moves the next ID past every stream it creates, also one of the peer's
  (`mod.rs:709`): after the server's first stream (ID 1) the client's next ID is 5, and
  `stream_bidi_new` fails with StreamStateError until a stream opened by its ID moves the
  counter again. What is handed out is fresh all the same (`NewStreamIsFresh`).
* `stream_shutdown(Write)` leaves the stream in the sendable queue, and only streams
  stopped by the peer are skipped (`send.rs:1064`). `reset()` set `fin_off`, so an
  empty FIN may go out, and a reader that has all data sees a regular end.
* `reset()` counts all data as acknowledged, so any old acknowledgement completes the
  stream. Once it is destroyed a lost RESET_STREAM is ignored (`mod.rs:1644`, against
  the comment at `send.rs:1423`).
* After `stream_shutdown(Read)` arriving bytes count as consumed at once, and a
  RESET_STREAM counts them again. The connection's `read_off` can pass its
  `max_data`, and the u64 subtraction of `should_send_max_data` wraps
  (`flowcontrol.rs:106`; a build with overflow checks panics).
* A RESET_STREAM after an unread empty FIN clears the buffer, and the empty chunk that
  should report the reset is dropped because `is_fin()` holds (`recv_buf.rs:297`).
* A second empty finishing write queues a stream twice, which the comment on
  `push_sendable` forbids (`mod.rs:748`). An empty frame without FIN beyond `recv_off`
  is added to the connection's `recv_off` and not to the stream's (`mod.rs:1556`), and
  its bytes are counted again when they arrive. A correct peer can then be accused of
  FLOW_CONTROL_ERROR. For the only stream of a connection, with windows that never shrink,
  `ErrorIsMiscount` shows that there is no other way; with several streams the miscount of
  one can be charged to another, and a MAX_DATA lowered by the next item is another way.
  `ReadyIsQueued` is about a stream missing from the queue, not about one that is in it
  twice.
* `ensure_window_lower_bound` raises the connection's window to 1.5 stream windows even
  above `max_connection_window`, and the next autotune cuts it again.

Recovery and congestion:
* `Delivered` is about a network that only loses packets (mode `calm`); late and spurious
  acknowledgements are in the other modes, where the safety properties are checked.
* Bytes in flight are decremented for acknowledged packets that were never counted, and
  again for packets lost and then acknowledged; `InFlightNotOvercounted` states the
  direction that holds.
* A lone lost MTU probe never reaches `on_congestion_event`; losses found by the timer
  are forgotten by the next `begin_ack`; persistent congestion is a stub.
* `pto_count` is reset by any ACK, whatever it acknowledges (`recovery.rs:314`).
* Copa overwrites its direction and swaps the roles of its two RTT windows; BBRv3 sets
  `loss_in_round` at the end of a round; BBR's `exit_recovery` clears the epoch, so
  that a late loss of the same flight starts another (`bbr.rs:944`).

Connection, paths, wire:
* `SentAckElicitingSinceRecvPkt` is never removed; a close before the handshake is
  complete is never announced; `remove_until` forgets late packets.
* A NEW_CONNECTION_ID that arrives again re-inserts an ID already queued for retirement
  (`cid.rs:386`). If a path then takes that ID, the loop that writes RETIRE_CONNECTION_ID
  frames in a packet of this path never ends (`send.rs:732-743`): `SendPacket` is disabled
  there, and `RetiredIsNotUsed` names the repeated frame as its exception. The loss of a NEW_CONNECTION_ID of a retired ID ends in InternalError;
  evicting a path leaks its ID; the timer of a leftover challenge never stops.
* The key phase compares the truncated packet number (`KeysStayInStep` has the
  exception); a key update may start before any acknowledgement; the discard timer of an
  earlier update discards the key of a later one.
* `encode` leaves out a transport parameter whose value is zero, and the peer then assumes
  the default: 3 for an ACK delay exponent of 0, 25 ms for a `max_ack_delay` of 0, 65527
  for a `max_udp_payload_size` of 0, and 2 for a limit of connection IDs below 2
  (`trans_param.rs:319`, `365`, `371`, `389`). The endpoint goes on using what was set:
  it encodes the ACK delay with exponent 0 (`send.rs:690`) and the peer decodes it with 3.
  `MessageSurvives` names these values (`Unsendable`) and says what arrives instead.
* A packet that ends early because a frame did not fit may be too short for the sample of
  header protection; the receiver drops it. `DatagramSurvives` leaves these packets out
  (`TooShort`), so it says nothing about the shortest ones.
* `SeqNumWindow` truncates a difference to u32; a RangeSet at capacity drops its first
  range; zero padding after an Initial packet is parsed as a short header.
* The MTU search never lowers the size; a spurious loss fixes `failed_size`. The
  redundant scheduler does not repeat new frames sent along with buffered copies.

Endpoint, tokio, HTTP/3:
* An error of `Connection::send` or of the sender ends `send_packets_out` before
  `update_sent_timers`, and `flush_connection` before the refresh: a connection that had
  sent by then keeps the timer it had, or none, until it is next processed. With two
  connections the error of one does this to the other. `TimerIsArmed` names the exception
  (`stale`), as `WorkIsQueued` does for such errors.
* A send error drops the connections still in `ready`; `connect()` with a bad session
  leaves an orphan; the first Initial that cannot be decrypted leaks its route; with
  Retry the source ID of the Retry is not routed; reset tokens of replaced IDs stay.
* `closed()` and `established()` can miss their wakeup; dropping one half of a stream
  removes the waker of the other; `shutdown_all` drops wakers without waking them; a
  StreamShutdown that does not fit its channel is lost. A reader that waits when a FIN
  arrives on bytes that were all read is never woken (the same fault as `transfer_end`),
  which `StreamTaskIsWoken` and `AdapterTaskIsWoken` name as exceptions.
* A stream reset in the middle of a frame closes the whole connection with
  H3_INTERNAL_ERROR (`h3/stream.rs:540`), as does a payload shorter than its identifier.
* A GOAWAY ID that is not divisible by four is accepted; `send_priority_update` compares
  an ID with a count; PRIORITY_UPDATE re-creates a stream that was destroyed.

Every property of a passing run has a mutant in `PROJECT.json`: a faulty variant
of a definition, kept next to it, under which the property fails.

### Bounds

* `streams`: three bytes to send and four to receive, enough for a gap, an overlap and a
  partial acknowledgement; the chunk queues have more so that ranges straddle chunks.
  Two frames in flight (`MaxFrames`) allow a range sent, split, resent and acknowledged
  in any order. Windows start below the sizes, so that flow control blocks.
* `transfer`: limits that start at one byte for the stream and two for the connection and
  are tuned up to two and four, once with three frames, in which the miscount happens and
  is refused, and once with two and both sides free to abandon the stream; and an instance
  for the liveness properties, in which nobody stops the stream (`MayStop`). The
  latter and the violations have nine or six frames so that the bound never stops them,
  and one loss (`MaxLoss`). `MaxQueued`, `MaxCtl`, `MaxConn` cap counters.
* `limits`: two interchangeable streams (symmetry) whose limits start below the bounds,
  so that either limit can be the tighter one; bidirectional streams of both sides with
  sequence numbers up to 2, enough to open out of order, close, and open beyond the
  first limit; 36 packets (`CcPackets`) over a link disturbed once (`CcFaults`), which
  takes every controller through startup, drain, probing and one recovery. Filter
  lengths are shortened (4 instead of 10 rounds) so that they expire within the run.
* `connection`: modes choose what a behaviour contains (0-RTT, Retry, early close, the loss
  of one datagram with an early probe, the loss of three, a duplicate of one, datagrams
  that fit or do not, a frame that is refused before, after or between the others of its
  packet), so that their product is not explored. A probe timeout allows up to two probes
  (`CnMaxProbes`). In time, two losses and up to `MaxNow` ticks, enough for two probe
  timeouts.
* `routing`: three addresses, two paths, two IDs per side; two attempts to connect, one
  to three datagrams, and one kind of fault per mode: a refused session, a garbled first
  packet, an error of the sender with one and with two connections, IDs that the peer
  replaces, stateless reset switched off.
* `tokio`: one stream of two bytes, two datagram readers, channels of one or two places,
  so that they fill; the stream ends by FIN, by a FIN on bytes that were read, by a reset
  or by STOP_SENDING. `tokio_dgram` has three datagram readers, the fewest that show it.
* `wire`: samples around the boundaries of each encoding; packet numbers jump by 1, 130
  and 40,000 so that every length is used and the window of 128 is left; points 0 to 6
  and capacities 2, 3 and unbounded for ranges; three spurious losses of MTU probes
  (as many as end the search); packets with and without encryption, and stream data cut at
  the end of a packet; three to six frames over three paths and up to three
  events of paths per scheduler;
  HTTP/3 messages in split frames with a close or a reset after any piece.

Deadlock is not checked where a run has an end: a stream destroyed, a connection
closed, tasks done, every path retired. `limits` and `wire` check it.

### Fairness

* `transfer` and `transfer_*`: weak fairness of the steps the endpoint's loop takes when there is
  something to do, of the acknowledgement of what arrived, of declaring lost what did
  not (loss timers and PTO are armed while packets are outstanding) and of the delivery
  of what is not dropped. The application reads when called and is never obliged to
  write, finish, reset or stop. Spurious losses and probes are never obliged to happen.
* `connection`: weak fairness of time and of the steps of the endpoint's loop, for a
  network that loses a bounded number of packets.
* `tokio`: weak fairness of the runtime, which polls tasks that were woken. Steps of the
  network and of the application's choices are not fair.

## What is proved

For every value of the constants, from the `ASSUME`s of the modules that declare them:

* `StreamSendProofs`: `BufCorrect`, the invariant of the send buffer alone, whatever
  ranges below `unsent_off` are acknowledged or lost in whatever order; `InvHolds`, and from it `TypeCorrect`, `NoByteIsLost`,
  `ReadyStaysQueued`, `OneFinalSize`, `LimitRespected`, `ResendIsBuffered`,
  `UnackedLenIsExact` and `ClosedStaysComplete`;
* `LimitsProofs`, about the credit: `CreditInvariant`, and from it `CreditTypeCorrect` (credit is
  never negative), `WriterIsAlwaysListed`, `StopIsAlwaysReported` and
  `BlockedAlwaysAtLimit`, for any set of streams;
* `LimitsProofs`, about stream IDs: `IdsInvariant`, and from it `ClosedIsAlwaysKnown`,
  `DestroyedStaysGone`, `NewStreamIsAlwaysFresh`, `StreamsBlockedAlwaysAtLimit`,
  `CreditAlwaysOnce` and `PeerConcurrencyAlwaysBounded`, for any limits;
* `StreamRecvProofs`: `RecvInvHolds`, and from it `BufferAlwaysSound`,
  `ReadyAlwaysListed`, `CreditAlwaysDue`, `ClosedAlwaysRead`, `CreditAlwaysReturned` and
  the action property `LimitsNeverShrink`. The last has a hypothesis about the
  configuration: `ensure_window_lower_bound` raises the connection's window to one and a
  half times the stream's without regard to `max_connection_window`, and the next
  autotuning would cut it back to that value; so one and a half times
  `max_stream_window` must not exceed it. The defaults (6 MB, 15 MB) satisfy this;
* `StreamTransferProofs`, about the two halves joined by the network: `TrInvHolds`, and
  from it `AckedAlwaysReceived` (what the sender forgets as acknowledged is buffered,
  was read or is unwanted at the peer) and `ErrorsAreMiscounts` (the receiver reports
  nothing but the flow-control error of its own miscount), for any data, losses, delays
  and orders of delivery and with windows that are tuned up to their maxima. The
  connection has this one stream, both sides start from the same stream limit, and one
  and a half times `max_stream_window` is at most `max_connection_window`
  (`TransferConstants`), as by default; otherwise MAX_DATA may be lowered, as above, and
  a FLOW_CONTROL_ERROR may follow that is no miscount;
* `WireProofs`: `PnInvHolds` and `NumbersAreAlwaysExact` about packet numbers,
  `KuInvHolds` and `KeysAlwaysInStep` about key updates, `PmInvHolds` and
  `PmtuAlwaysConverges` about the MTU search;
* `RecoveryProofs`: `DataNeverForgotten` about loss recovery (for any frames, thresholds,
  timeouts, clocks and orders of acknowledgment, data that was sent and not acknowledged
  is tracked or waits to be sent again);
* `RangeSetProofs`: `RangesAlwaysExact`, for every run of natural numbers as the points and
  every capacity of at least two, or none.

### The argument

*Sending half.* None of the properties is inductive alone. That no byte is lost
needs that acknowledged means below `unsent_off`, and that a loss below `ack_off`
may be ignored; dropping chunks by count needs that the queue starts at the first
unacknowledged offset; that a stream in need is queued needs to know when `ready()`
can turn true. `BufInv` has two modes. While the stream lives (`Exact`) the queue
starts at the first gap of `acked`, `unacked_len` is its length and nothing
acknowledged waits for retransmission. Once it was reset (`Abandoned`) queue, offsets
and final size collapse to `unsent_off` and everything counts as acknowledged. `Inv`
adds what ties packets and map to the buffer: frames lie below `unsent_off`, FIN and
RESET frames carry `fin_off`, a reset implies an abandoned buffer. Two lemmas carry
most of the weight: `AckOffIsPrefixEnd`, that `ack_off` ends the acknowledged prefix,
and `ReadyWhen`, which turns `ready()` into "an offset is pending".

*Receiving half.* `RecvInv` adds to the listed properties the order of the offsets: what
was read was received, the connection counts at least what the stream has read as
consumed, and no limit lies beyond the consumed bytes plus the window. `CreditReturned`
rests on the second; that MAX_STREAM_DATA never lowers a limit on the third. `ClosedIsRead`
is inductive only together with `BufferSound`: a closed stream is not reopened by a late
frame because its final size is its read offset, so that nothing can be buffered any more.
`ReadTakesPrefix` is the lemma about `read()`: it takes a prefix of what is buffered and
ends where a byte is missing or the caller's buffer is full.

*Transfer.* `TrInv` joins `Inv` and `RecvInv` by what one side knows of the other. A
packet number is used once, and what is on the wire was sent below `unsent_off`, with the
one final size (`PacketsDistinct`, `WireSound`); what the receiver has was sent
(`ReceivedIsSent`); a limit the sender holds, or one in a control frame on its way, was
promised by the receiver (`LimitsAgree`); and the bytes of a frame the receiver has
got are there until the connection closes (`GotIsReceived`), which is what an
acknowledgement relies on. The proof reuses the two halves: the steps of one side keep
its own invariant by `NextInv` or the lemmas behind `RecvInvHolds`, and `SenderStepInv`,
`ReceiverStepInv` and `OldPacketsInv` say which changes of one side the clauses about the
other tolerate. The window of the connection stays within its
maximum (`ConnWindowBounded`), so that no tuning takes back a promise.
`NothingRefused` is the heart of `ErrorsAreMiscounts`: every check of
`RecvBuf` passes for a frame that was sent, so only the check of the connection's
counter remains, and `OnlyAMiscount` is its arithmetic.

*Credit and IDs.* `CreditInv` joins the listed properties to the order of the offsets of
each stream and to the exact capacity. The order is needed because a refused write takes
a stream off the writable set, which is right only if the refusal means that it cannot be
written. `IdsInv` says what the code leaves implicit: the available IDs of a type are
exactly the unused ones below the limit, and the next ID lies above every used one of its
direction. That `is_closed()` is right without a record follows from the first.
`CreditOnce` is inductive beside `IdsInv`, since only an open stream is closed
(`MarkClosedCredit`). The bound on the peer's concurrency is a count: the used streams of
a type have different sequence numbers below the limit (`UsedCounted`), and the limit is
at most the initial one plus the number of closed streams.

*Packet numbers.* `PnInv` says that a number in flight lies within half of the range of
its truncated form of the largest number the receiver has, or will have: the sender chose
the length by the largest acknowledged, which the receiver has passed, and the next
number bounds it from above. The window then stands for the set of arrived numbers.

*Key updates.* `KuInv` is about the two directions, each a sender and a receiver
(`InStep`). Phases of packets grow with their numbers; a sender is ahead of the receiver
by at most one generation, and may start the next only after a packet of the current one
was acknowledged; a receiver that has seen a packet of a phase has switched to it.
`UpdateInStep`, `SendInStep` and `RecvInStep` are lemmas about one direction, and the
invariant of the pair follows by taking both.

*MTU search.* `PmInv` says that the size in use fits, that a size that failed either does
not fit or used up as many chance losses as a size is tried, and that the probe lies
between. Convergence to one percent is the stopping rule applied to that interval.

*Loss recovery.* `RecInv` is the property with the shape of the state: nothing has to be
known of RTTs, timers, counters or congestion. `Kept` is what a space remembers, the frames
of its outstanding packets and its lost frames, and there is one lemma for each method of
`Recovery`: `detect_acked_packets` forgets only what it reports as acknowledged,
`detect_lost_packets` moves the frames of what it marks to the lost ones (`RewriteKeeps`
serves both), `drain_sent_packets` stops at the first outstanding packet, a probe only adds,
and discarding a space touches no other. A step is a chain of such calls (`KeepsTwice`). The
lemmas hold for any argument, so it does not matter which space a timer picks.

*Range sets.* `RsInv` says that the set is canonical (its ranges are not empty, and a gap
lies between any two) and stands for the numbers that are in; of a bounded set also that it
is finite, within its capacity, and that no number is beyond its last range. The lemmas are
about one call on any canonical set: `InsertIs` about the pieces that a new range swallows,
`RemoveIs` that the loop over the overlapping ranges takes away the range and no more,
`FilterIs` about the first gap, `PopSound` about the range that a full set gives up. A
capacity of one is excluded: a full set gives up its first range before it takes the new
one, so with a single range it would lose its largest number. The code uses 68.

### Only model-checked

* Liveness (`DataArrives`, `CreditArrives`, `ConnectionSettles`, `Delivered`,
  `StreamTaskIsWoken`, `AdapterTaskIsWoken`): the prover does not handle fairness.
* What recursive definitions compute (`DatagramSurvives`, `MessageSurvives`,
  `ImplementsRecvBuf`, `ImplementsSendBuf`, `H3MessageSound`, the controllers'
  `BwIsMeasured` and `OneCutPerFlight`): induction over data is out of reach, and a
  module with a RECURSIVE operator loses the SMT backend.
* `CreditConserved`, a sum over the streams: a fold takes an operator as its parameter,
  and what it computes needs an induction over sets.
* The remaining safety properties, where no inductive invariant is stated yet.

## What is not modelled, and why

* TLS and cryptography (bindings to BoringSSL), the C API (wrappers without state),
  qlog and error types, the build script, configuration setters.
* The dynamic table of QPACK: the file is not part of the build.
* The priorities among streams, STREAM_DATA_BLOCKED and WantWrite of the stream map; the
  count behind `need_elicit_ack` and the KeepAlive timer; `try_set_init_rtt`; path
  statistics.
* In congestion control `probe_rtt_based_on_bdp`, the minimum pacing rate, statistics and
  persistent congestion; rates and times are integers.
* The dispatch of HTTP/3 events to a handler and the limit on buffered state; the overflow
  check of QPACK's prefix integers.
* Sockets and the clock of the tokio adapter; an application that drops the halves of an
  accepted stream in the mutex build.
* Every connection of the endpoint is an abstraction of its own; composing ConnState,
  PathCids and Recovery into one connection is beyond TLC's reach at useful bounds.
