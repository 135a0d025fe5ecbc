------------------------------ MODULE RecvChunks ------------------------------
(***************************************************************************)
(* RecvBuf with its chunk map: `data`, the BTreeMap from the end of a      *)
(* chunk to the chunk, is the function from that end to the chunk's start. *)
(* write() splits an incoming chunk around the ones it overlaps; read()    *)
(* consumes chunks in key order. The map implements the set of offsets of  *)
(* RecvBuf.                                                                *)
(***************************************************************************)
EXTENDS Integers, FiniteSets, FiniteSetsExt, Functions, Sequences, TLC

CONSTANTS MaxRecv, Window, MaxWindow, NoOff

VARIABLES data, read_off, recv_off, recv_fin, recv_error, recv_shutdown,
          recv_max, consumed, window

fixedVars == <<recv_max, consumed, window>>
vars == <<data, read_off, recv_off, recv_fin, recv_error, recv_shutdown,
          fixedVars>>

EmptyMap == << >>
Put(map, key, value) == (key :> value) @@ map
Offsets(map) == UNION {map[k]..(k - 1) : k \in DOMAIN map}

Abstract == INSTANCE RecvBuf
  WITH buffered  <- Offsets(data),
       fin_chunk <- \E k \in DOMAIN data : data[k] = k

-----------------------------------------------------------------------------

\* The inner loop of write(): trim `buf` against the chunks with the keys in
\* `keys`, in key order. What is cut off behind a chunk goes to `later`.
RECURSIVE Trim(_, _, _, _)
Trim(map, keys, buf, later) ==
  IF keys = {} THEN [keep |-> TRUE, buf |-> buf, later |-> later]
  ELSE LET end  == Min(keys)
           off  == map[end]
           rest == keys \ {end}
       IN IF off > buf.end THEN [keep |-> TRUE, buf |-> buf, later |-> later]
          ELSE IF buf.off >= off /\ buf.end <= end
               THEN [keep |-> FALSE, buf |-> buf, later |-> later]
          ELSE IF buf.off >= off /\ buf.off < end
               THEN Trim(map, rest, [buf EXCEPT !.off = end], later)
          ELSE IF buf.off < off /\ buf.end > off
               THEN Trim(map, rest, [buf EXCEPT !.end = off],
                         Append(later, [off |-> off, end |-> buf.end]))
          ELSE Trim(map, rest, buf, later)

\* The outer loop of write(): `bufs` is tmp_bufs, `top` is recv_off.
RECURSIVE Store(_, _, _)
Store(map, top, bufs) ==
  IF bufs = << >> THEN [data |-> map, recv_off |-> top]
  ELSE LET head == Head(bufs)
           buf  == IF read_off > head.off THEN [head EXCEPT !.off = read_off] ELSE head
           keys == IF buf.off < top \/ buf.off = buf.end
                   THEN {k \in DOMAIN map : k >= buf.off} ELSE {}
           t    == Trim(map, keys, buf, Tail(bufs))
       IN IF ~t.keep THEN Store(map, top, t.later)
          ELSE Store(IF recv_shutdown THEN map ELSE Put(map, t.buf.end, t.buf.off),
                     IF t.buf.end > top THEN t.buf.end ELSE top,
                     t.later)

\* Faulty variant of Consume: a chunk read in part is dropped.
ConsumeWhole(map, from, cap) ==
  LET end == Min(DOMAIN map)
  IN [data |-> Restrict(map, DOMAIN map \ {end}),
      read_off |-> IF end - from > cap THEN from + cap ELSE end]

\* The loop of read(): chunks from the front while they are contiguous.
RECURSIVE Consume(_, _, _)
Consume(map, from, cap) ==
  IF cap = 0 \/ map = EmptyMap \/ map[Min(DOMAIN map)] # from
  THEN [data |-> map, read_off |-> from]
  ELSE LET end == Min(DOMAIN map)
       IN IF end - from > cap
          THEN [data |-> Put(map, end, from + cap), read_off |-> from + cap]
          ELSE Consume(Restrict(map, DOMAIN map \ {end}), end, cap - (end - from))

-----------------------------------------------------------------------------
Init ==
  /\ data = EmptyMap
  /\ read_off = 0 /\ recv_off = 0
  /\ recv_fin = NoOff /\ recv_error = FALSE /\ recv_shutdown = FALSE
  /\ recv_max = Window /\ consumed = 0 /\ window = Window

\* ready() and is_fin() on the map.
RBufReady == data # EmptyMap /\ data[Min(DOMAIN data)] = read_off
IsFin == recv_fin = read_off

Write(off, end, fin) ==
  LET stored == Store(data, recv_off, << [off |-> off, end |-> end] >>)
      skip   == (~fin /\ off = end) \/ (read_off >= end /\ off < end)
  IN /\ Abstract!WriteError(end, fin) = ""
     /\ IF IsFin THEN UNCHANGED <<data, recv_off, recv_fin>>
        ELSE /\ recv_fin' = IF fin THEN end ELSE recv_fin
             /\ data' = IF skip THEN data ELSE stored.data
             /\ recv_off' = IF skip THEN recv_off ELSE stored.recv_off
     /\ UNCHANGED <<read_off, recv_error, recv_shutdown, fixedVars>>

Read(cap) ==
  LET left == Consume(data, read_off, cap)
  IN /\ RBufReady /\ ~recv_error
     /\ data' = left.data
     /\ read_off' = left.read_off
     /\ consumed' = consumed + (left.read_off - read_off)
     /\ UNCHANGED <<recv_off, recv_fin, recv_error, recv_shutdown, recv_max, window>>

ReadReset ==
  /\ RBufReady /\ recv_error
  /\ data' = EmptyMap
  /\ UNCHANGED <<read_off, recv_off, recv_fin, recv_error, recv_shutdown, fixedVars>>

\* reset() clears the map and then writes an empty chunk with FIN.
Reset(final) ==
  LET stored == Store(EmptyMap, recv_off, << [off |-> final, end |-> final] >>)
  IN /\ Abstract!ResetError(final) = ""
     /\ ~recv_error
     /\ recv_error' = TRUE
     /\ data' = IF IsFin THEN EmptyMap ELSE stored.data
     /\ recv_off' = IF IsFin THEN recv_off ELSE stored.recv_off
     /\ recv_fin' = IF IsFin THEN recv_fin ELSE final
     /\ read_off' = final
     /\ UNCHANGED <<recv_shutdown, fixedVars>>

Shutdown ==
  /\ ~recv_shutdown
  /\ recv_shutdown' = TRUE
  /\ data' = EmptyMap
  /\ read_off' = recv_off
  /\ UNCHANGED <<recv_off, recv_fin, recv_error, fixedVars>>

UpdateMaxData(tuned) ==
  /\ tuned \in Abstract!TunedWindows
  /\ window' = tuned
  /\ recv_max' = consumed + tuned
  /\ UNCHANGED <<data, read_off, recv_off, recv_fin, recv_error, recv_shutdown,
                 consumed>>

Autotune(tuned) ==
  /\ tuned \in Abstract!TunedWindows
  /\ window' = tuned
  /\ UNCHANGED <<data, read_off, recv_off, recv_fin, recv_error, recv_shutdown,
                 consumed, recv_max>>

Next ==
  \/ \E off, end \in 0..MaxRecv, fin \in BOOLEAN : off <= end /\ Write(off, end, fin)
  \/ \E cap \in 1..MaxRecv : Read(cap)
  \/ ReadReset
  \/ \E final \in 0..MaxRecv : Reset(final)
  \/ Shutdown
  \/ \E tuned \in Window..MaxWindow : UpdateMaxData(tuned) \/ Autotune(tuned)

Spec == Init /\ [][Next]_vars

-----------------------------------------------------------------------------
(* Properties.                                                             *)

TypeOK ==
  /\ DOMAIN data \subseteq 0..MaxRecv
  /\ \A k \in DOMAIN data : data[k] \in 0..k
  /\ read_off \in 0..MaxRecv /\ recv_off \in 0..MaxRecv
  /\ recv_fin \in (0..MaxRecv) \cup {NoOff}
  /\ recv_error \in BOOLEAN /\ recv_shutdown \in BOOLEAN
  /\ recv_max \in Nat /\ consumed \in Nat /\ window \in Nat

\* The chunk map implements the set of buffered offsets: each step of write(),
\* read(), reset() and shutdown() is the step of RecvBuf.
ImplementsRecvBuf == Abstract!RBufSpec
=============================================================================
