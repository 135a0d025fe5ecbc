------------------------------- MODULE RecvBuf -------------------------------
(***************************************************************************)
(* The receive buffer of a stream, connection/stream/recv_buf.rs, and the  *)
(* FlowControl it owns (connection/flowcontrol.rs).                        *)
(*                                                                         *)
(* The BTreeMap of chunks is abstracted to the set of buffered offsets and *)
(* one flag: whether an empty chunk with FIN is stored at the final size.  *)
(* RecvChunks gives the map itself and is checked to implement this.       *)
(***************************************************************************)
EXTENDS Integers, FiniteSets, FiniteSetsExt

CONSTANTS MaxRecv,       \* bound: offsets in frames
          Window,       \* initial receive window of the stream
          MaxWindow,    \* largest window autotuning may reach
          NoOff          \* Option::None

ASSUME RecvBufConstants ==
  /\ MaxRecv \in Nat
  /\ Window \in Nat \ {0}
  /\ MaxWindow \in Nat /\ Window <= MaxWindow
  /\ NoOff \notin Nat

VARIABLES
  buffered,       \* offsets held in `data`
  fin_chunk,      \* `data` holds an empty chunk with FIN
  read_off,       \* lowest offset not yet read by the application
  recv_off,       \* largest offset received
  recv_fin,       \* final size, or NoOff
  recv_error,     \* `error` is set: RESET_STREAM was received
  recv_shutdown,  \* the application shut the receive side down
  recv_max,       \* flow_control.max_data: the limit promised to the peer
  consumed,       \* flow_control.read_off
  window          \* flow_control.window

dataVars == <<buffered, fin_chunk, read_off, recv_off, recv_fin, recv_error,
              recv_shutdown>>
limitVars == <<recv_max, consumed, window>>
rbufVars == <<dataVars, limitVars>>

Offs(from, to) == from .. (to - 1)
Larger(a, b) == IF a > b THEN a ELSE b

-----------------------------------------------------------------------------
\* ready(): the first chunk starts at read_off.
RBufReady ==
  IF buffered # {} THEN read_off \in buffered
                   ELSE fin_chunk /\ read_off = recv_fin

\* is_fin() and is_complete(): everything up to the final size was read.
IsFin == recv_fin = read_off

\* should_send_max_data(): less than half of the window is left, and the final
\* size is not known.
ShouldSendMaxData == recv_fin = NoOff /\ (recv_max - consumed) * 2 < window

\* The checks of write(), in its order.
WriteError(end, fin) ==
  IF end > recv_max THEN "FlowControlError"
  ELSE IF \/ recv_fin # NoOff /\ (end > recv_fin \/ (fin /\ end # recv_fin))
          \/ fin /\ end < recv_off
       THEN "FinalSizeError"
       ELSE ""

\* The checks of reset() and of the write it ends with.
ResetError(final) ==
  IF (recv_fin # NoOff /\ recv_fin # final) \/ final < recv_off
  THEN "FinalSizeError"
  ELSE IF ~recv_error /\ final > recv_max THEN "FlowControlError" ELSE ""

-----------------------------------------------------------------------------
RBufInit ==
  /\ buffered = {} /\ fin_chunk = FALSE
  /\ read_off = 0 /\ recv_off = 0
  /\ recv_fin = NoOff /\ recv_error = FALSE /\ recv_shutdown = FALSE
  /\ recv_max = Window /\ consumed = 0 /\ window = Window

\* Faulty variant of RBufWrite: bytes that were read already are stored again.
RBufWriteRead(off, end, fin) ==
  /\ WriteError(end, fin) = ""
  /\ IF IsFin THEN UNCHANGED <<buffered, fin_chunk, recv_off, recv_fin>>
     ELSE /\ recv_fin' = IF fin THEN end ELSE recv_fin
          /\ recv_off' = Larger(recv_off, end)
          /\ buffered' = IF recv_shutdown THEN {} ELSE buffered \cup Offs(off, end)
          /\ fin_chunk' = fin_chunk
  /\ UNCHANGED <<read_off, recv_error, recv_shutdown, limitVars>>

(***************************************************************************)
(* write(off, data, fin) of an accepted frame [off, end). The offsets      *)
(* below read_off and those already buffered are dropped; after a shutdown *)
(* nothing is stored. A frame that holds nothing new still fixes the final *)
(* size. A chunk that ends at the final size replaces the empty one.       *)
(***************************************************************************)
RBufWrite(off, end, fin) ==
  LET fresh    == Offs(Larger(off, read_off), end) \ buffered
      emptyFin == off = end /\ fin
      covered  == end - 1 \in buffered
  IN /\ WriteError(end, fin) = ""
     /\ IF IsFin THEN UNCHANGED <<buffered, fin_chunk, recv_off, recv_fin>>
        ELSE /\ recv_fin' = IF fin THEN end ELSE recv_fin
             /\ recv_off' = IF fresh # {} \/ emptyFin THEN Larger(recv_off, end)
                                                      ELSE recv_off
             /\ buffered' = IF recv_shutdown THEN {} ELSE buffered \cup fresh
             /\ fin_chunk' =
                  IF emptyFin THEN (fin_chunk \/ ~covered) /\ ~recv_shutdown
                  ELSE fin_chunk /\ ~(end = recv_fin /\ end - 1 \in fresh)
     /\ UNCHANGED <<read_off, recv_error, recv_shutdown, limitVars>>

\* read(out) into a buffer of `cap` bytes. It stops at a full buffer, even when
\* only the empty FIN chunk is left.
RBufRead(cap) ==
  LET end == Min({n \in read_off..(read_off + cap) :
                     n = read_off + cap \/ n \notin buffered})
  IN /\ RBufReady /\ ~recv_error
     /\ read_off' = end
     /\ buffered' = buffered \ Offs(read_off, end)
     /\ fin_chunk' = (fin_chunk /\ ~(end < read_off + cap /\ end = recv_fin))
     /\ consumed' = consumed + (end - read_off)
     /\ UNCHANGED <<recv_off, recv_fin, recv_error, recv_shutdown, recv_max,
                    window>>

\* read(out) of a stream the peer has reset: the error, once.
RBufReadReset ==
  /\ RBufReady /\ recv_error
  /\ buffered' = {} /\ fin_chunk' = FALSE
  /\ UNCHANGED <<read_off, recv_off, recv_fin, recv_error, recv_shutdown,
                 limitVars>>

\* reset(error_code, final_size). The empty chunk with FIN lets the application
\* collect the error; a duplicate changes nothing.
RBufReset(final) ==
  /\ ResetError(final) = ""
  /\ IF recv_error THEN UNCHANGED dataVars
     ELSE /\ recv_error' = TRUE
          /\ buffered' = {}
          /\ fin_chunk' = (~IsFin /\ ~recv_shutdown)
          /\ recv_fin' = final /\ recv_off' = final /\ read_off' = final
          /\ UNCHANGED recv_shutdown
  /\ UNCHANGED limitVars

\* shutdown(), refused the second time.
RBufShutdown ==
  /\ ~recv_shutdown
  /\ recv_shutdown' = TRUE
  /\ buffered' = {} /\ fin_chunk' = FALSE
  /\ read_off' = recv_off
  /\ UNCHANGED <<recv_off, recv_fin, recv_error, limitVars>>

\* autotune_window(), which may double the window when the last update is recent.
TunedWindows == {window, Min({window * 2, MaxWindow})}

\* autotune_window(), then update_max_data().
RBufUpdateMaxData(tuned) ==
  /\ tuned \in TunedWindows
  /\ window' = tuned
  /\ recv_max' = consumed + tuned
  /\ UNCHANGED <<dataVars, consumed>>

\* autotune_window() alone, when the new limit does not fit into the packet.
RBufAutotune(tuned) ==
  /\ tuned \in TunedWindows
  /\ window' = tuned
  /\ UNCHANGED <<dataVars, consumed, recv_max>>

RBufNext ==
  \/ \E off, end \in 0..MaxRecv, fin \in BOOLEAN :
        off <= end /\ RBufWrite(off, end, fin)
  \/ \E cap \in 1..MaxRecv : RBufRead(cap)
  \/ RBufReadReset
  \/ \E final \in 0..MaxRecv : RBufReset(final)
  \/ RBufShutdown
  \/ \E tuned \in Window..MaxWindow : RBufUpdateMaxData(tuned) \/ RBufAutotune(tuned)

RBufSpec == RBufInit /\ [][RBufNext]_rbufVars

RBufTypeOK ==
  /\ buffered \in SUBSET Nat /\ fin_chunk \in BOOLEAN
  /\ read_off \in Nat /\ recv_off \in Nat
  /\ recv_fin \in Nat \cup {NoOff}
  /\ recv_error \in BOOLEAN /\ recv_shutdown \in BOOLEAN
  /\ recv_max \in Nat /\ consumed \in Nat /\ window \in Nat
=============================================================================
