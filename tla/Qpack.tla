------------------------------- MODULE Qpack --------------------------------
(***************************************************************************)
(* HTTP/3 field sections (h3/qpack): prefix integers, string literals with *)
(* or without the Huffman code, and the three representations the encoder  *)
(* uses.  The dynamic table is not used by this code: a reference to it is *)
(* an error of the decoder.                                                *)
(*                                                                         *)
(* A header is its name and its value, two strings of octets.              *)
(***************************************************************************)
EXTENDS Frames

CONSTANTS
    StaticTable,   \* STATIC_ENCODE_TABLE: rows of name, value and index, by name
    HuffmanCode    \* ENCODE_TABLE: the code of an octet as a sequence of bits

ToLower(s) == [i \in DOMAIN s |-> IF s[i] \in 65..90 THEN s[i] + 32 ELSE s[i]]

\* prefix_int.rs: encode_int() with the placeholder bits in first
RECURSIVE Continued(_)
Continued(i) == IF i < 128 THEN <<i>> ELSE <<128 + (i % 128)>> \o Continued(i \div 128)

EncodePrefixInt(i, first, n) ==
    IF i < 2^n - 1 THEN <<first + i>> ELSE <<first + 2^n - 1>> \o Continued(i - (2^n - 1))

\* decode_int(): the value is added to the values read
LastOctet(b) == SelectInSeq(b, LAMBDA x : x < 128)
Continuation(b, k) == FoldRight(LAMBDA x, acc : 128 * acc + (x % 128), SubSeq(b, 1, k), 0)

DecodePrefixInt(r, n) ==
    IF r.err # "none" THEN r
    ELSE IF r.b = <<>> THEN RdFail(r, "BufferTooShort")
    ELSE LET small == r.b[1] % 2^n
             k == LastOctet(Tail(r.b))
         IN  IF small < 2^n - 1 THEN [r EXCEPT !.b = Tail(@), !.v = Append(@, small)]
             ELSE IF k = 0 THEN RdFail(r, "QpackDecompressionFailed")
             ELSE [r EXCEPT !.b = SubSeq(@, k + 2, Len(@)),
                            !.v = Append(@, small + Continuation(Tail(r.b), k))]

\* huffman.rs: the codes of the octets, filled up with ones
HuffmanBits(s) == FlattenSeq([i \in DOMAIN s |-> HuffmanCode[s[i]]])
BitsOf(s, x) == Len(HuffmanCode[x]) * Cardinality({i \in DOMAIN s : s[i] = x})
EncodeOutputLength(s) ==
    (MapThenSumSet(LAMBDA x : BitsOf(s, x), {s[i] : i \in DOMAIN s}) + 7) \div 8
BitAt(bits, i) == IF i <= Len(bits) THEN bits[i] ELSE 1
HuffmanEncode(s) ==
    With(HuffmanBits(s), LAMBDA bits :
        [k \in 1..((Len(bits) + 7) \div 8) |->
            FoldLeft(LAMBDA acc, j : 2 * acc + BitAt(bits, 8 * (k - 1) + j), 0,
                     <<1, 2, 3, 4, 5, 6, 7, 8>>)])

OctetBits(x) == [j \in 1..8 |-> (x \div 2^(8 - j)) % 2]
\* The octet whose code is next: no code is a prefix of another.
NextSymbol(bits, p) ==
    {s \in DOMAIN HuffmanCode :
        SubSeq(bits, p, AtMost(p + Len(HuffmanCode[s]) - 1, Len(bits))) = HuffmanCode[s]}
DecodeBits(bits) ==
    LET dec[p \in 1..(Len(bits) + 1)] ==
            With(NextSymbol(bits, p), LAMBDA S :
                IF S = {} THEN [out |-> <<>>, rest |-> SubSeq(bits, p, Len(bits))]
                ELSE LET s == CHOOSE s \in S : TRUE
                         r == dec[p + Len(HuffmanCode[s])]
                     IN  [r EXCEPT !.out = <<s>> \o @])
    IN  dec[1]
\* is_final(): what is left are fewer than eight ones (the end-of-string code).
HuffmanDecode(b) ==
    With(DecodeBits(FlattenSeq([i \in DOMAIN b |-> OctetBits(b[i])])), LAMBDA st :
        IF Len(st.rest) < 8 /\ \A i \in DOMAIN st.rest : st.rest[i] = 1 THEN <<st.out>> ELSE <<>>)

\* static_table.rs: the row that has no value or the value of the header, or
\* else the first row of its name: a sequence of at most one [idx, full].
Rows(name) == SelectSeq(StaticTable, LAMBDA row : row.name = ToLower(name))
EncodeStatic(h) ==
    LET rows == Rows(h.name)
        hit == SelectInSeq(rows, LAMBDA row : row.value = <<>> \/ row.value = h.value)
    IN  IF rows = <<>> THEN <<>>
        ELSE IF hit = 0 THEN <<[idx |-> rows[1].idx, full |-> FALSE]>>
        ELSE <<[idx |-> rows[hit].idx, full |-> rows[hit].value # <<>>]>>
DecodeStatic(idx) == SelectSeq(StaticTable, LAMBDA row : row.idx = idx)

EncodeStr(s) ==
    IF EncodeOutputLength(s) < Len(s)
    THEN EncodePrefixInt(EncodeOutputLength(s), 128, 7) \o HuffmanEncode(s)
    ELSE EncodePrefixInt(Len(s), 0, 7) \o s

EncodeName(s) ==
    IF EncodeOutputLength(ToLower(s)) < Len(s)
    THEN EncodePrefixInt(EncodeOutputLength(ToLower(s)), 32 + 8, 3) \o HuffmanEncode(ToLower(s))
    ELSE EncodePrefixInt(Len(s), 32, 3) \o ToLower(s)

\* QpackEncoder::encode()
EncodeLine(h) ==
    LET row == EncodeStatic(h)
    IN  CASE row = <<>>   -> EncodeName(h.name) \o EncodeStr(h.value)
          [] row # <<>> /\ row[1].full  -> EncodePrefixInt(row[1].idx, 128 + 64, 6)
          [] row # <<>> /\ ~row[1].full -> EncodePrefixInt(row[1].idx, 64 + 16, 4) \o EncodeStr(h.value)
QpackEncode(hs) == <<0, 0>> \o FlattenSeq([i \in DOMAIN hs |-> EncodeLine(hs[i])])

\* decode_str() and the name of a literal: a length of n bits and a flag above it
DecodeText(r, n) ==
    IF r.err # "none" THEN r
    ELSE IF r.b = <<>> THEN RdFail(r, "QpackDecompressionFailed")
    ELSE LET huff == (r.b[1] \div 2^n) % 2 = 1
             t == TakeCounted(DecodePrefixInt(r, n))
         IN  IF t.err # "none" \/ ~huff THEN t
             ELSE LET text == HuffmanDecode(LastRead(t))
                  IN  IF text = <<>> THEN RdFail(t, "QpackDecompressionFailed")
                      ELSE [t EXCEPT !.v = Append(Front(@), text[1])]

\* QpackDecoder::decode(): the values of a line, its index (or its name) first
DecodeLine(r) ==
    LET first == r.b[1]
    IN  CASE first >= 128 ->
               IF first % 128 < 64 THEN RdFail(r, "QpackDecompressionFailed")
               ELSE [DecodePrefixInt(r, 6) EXCEPT !.v = Append(@, "indexed")]
          [] first \in 64..127 ->
               LET t == DecodeText(DecodePrefixInt(r, 4), 7)
               IN  IF t.err # "none" THEN t
                   ELSE IF (first \div 16) % 2 = 0 THEN RdFail(t, "QpackDecompressionFailed")
                   ELSE [t EXCEPT !.v = Append(@, "nameref")]
          [] first \in 32..63 ->
               LET t == DecodeText(r, 3)
               IN  IF t.err # "none" THEN t
                   ELSE [DecodeText(t, 7) EXCEPT !.v = Append(@, "literal")]
          [] OTHER -> RdFail(r, "QpackDecompressionFailed")

\* The header of a line that was read; none for an index outside the table
HeaderOf(v) ==
    LET rows == DecodeStatic(v[1])
    IN  CASE LastRead([v |-> v]) = "literal" -> <<[name |-> v[1], value |-> v[2]]>>
          [] rows = <<>> -> <<>>
          [] LastRead([v |-> v]) = "nameref" -> <<[name |-> rows[1].name, value |-> v[2]]>>
          [] OTHER -> <<[name |-> rows[1].name, value |-> rows[1].value]>>

RECURSIVE DecodeLines(_, _, _)
DecodeLines(r, out, left) ==
    IF r.err # "none" THEN [err |-> r.err, headers |-> <<>>]
    ELSE IF r.b = <<>> THEN [err |-> "none", headers |-> out]
    ELSE With(DecodeLine([r EXCEPT !.v = <<>>]), LAMBDA t :
           IF t.err # "none" THEN [err |-> t.err, headers |-> <<>>]
           ELSE With(HeaderOf(t.v), LAMBDA h :
             IF h = <<>> \/ Len(h[1].name) + Len(h[1].value) + 32 > left
             THEN [err |-> "QpackDecompressionFailed", headers |-> <<>>]
             ELSE DecodeLines(t, Append(out, h[1]),
                              left - (Len(h[1].name) + Len(h[1].value) + 32))))
QpackDecode(b, max) == DecodeLines(DecodePrefixInt(DecodePrefixInt(Reader(b), 8), 7), <<>>, max)
=============================================================================
