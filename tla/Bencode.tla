------------------------------- MODULE Bencode -------------------------------
(***************************************************************************)
(* The bencode codec of internal/bencode (the package source sits in       *)
(* bencode_test.go from line 311): the Decoder, which reads a byte at a    *)
(* time from its reader and keeps the bytes it pushes back in a buffer,    *)
(* and the Encoder.  A byte is a one-character string; the decoder's state *)
(* is [buf, r]: the pushed-back bytes and what the reader has left.        *)
(*                                                                         *)
(* Decoding targets are the kinds the callers reach: "map" (the            *)
(* map[string]interface{} of torrent.Parse and tracker.parseResponse),     *)
(* "iface" (interface{}, for every element and value) and "string" (a      *)
(* dictionary key).  A decoded value is a Bencoded value whose strings     *)
(* are byte sequences; a dictionary key is the byte sequence itself.       *)
(***************************************************************************)
EXTENDS Integers, Sequences, Bencoded, TLC

LOCAL INSTANCE SequencesExt

\* The bytes of the inputs, in the order of their ASCII codes.
Bytes == <<"+", "-", "0", "1", "2", "3", "4", "5", "6", "7", "8", "9", ":",
           "a", "b", "d", "e", "i", "l">>

DigitChars == {"0", "1", "2", "3", "4", "5", "6", "7", "8", "9"}

\* The value of a decimal digit.
DigitVal(c) == CHOOSE k \in 0..9 : Bytes[k + 3] = c

\* The byte order Go's string comparison uses.
ByteCode(c) == CHOOSE k \in 1..Len(Bytes) : Bytes[k] = c

\* A failed call; the decoder's state is not used after an error.
Err == [err |-> TRUE]

Ok(val, d) == [err |-> FALSE, val |-> val, d |-> d]

-----------------------------------------------------------------------------
(* The Decoder's byte access.                                              *)

\* readByte taking the reader before the buffer.
ReadByteReaderFirst(d) ==
    IF d.r # <<>> THEN [err |-> FALSE, b |-> Head(d.r), d |-> [d EXCEPT !.r = Tail(@)]]
    ELSE IF d.buf = <<>> THEN Err
    ELSE [err |-> FALSE, b |-> Head(d.buf), d |-> [d EXCEPT !.buf = Tail(@)]]

\* readByte: the buffer first, else one byte of the reader (io.ReadFull
\* fails at the end of the input).
ReadByte(d) ==
    IF d.buf # <<>> THEN [err |-> FALSE, b |-> Head(d.buf), d |-> [d EXCEPT !.buf = Tail(@)]]
    ELSE IF d.r = <<>> THEN Err
    ELSE [err |-> FALSE, b |-> Head(d.r), d |-> [d EXCEPT !.r = Tail(@)]]

\* unreadByte: the byte appended to the buffer.
UnreadByte(d, b) == [d EXCEPT !.buf = Append(@, b)]

\* peekByte: readByte, then unreadByte of what it read.
PeekByte(d) ==
    LET x == ReadByte(d)
    IN IF x.err THEN x ELSE [x EXCEPT !.d = UnreadByte(x.d, x.b)]

\* readUntil(delim): the bytes before delim, which is consumed.
RECURSIVE ReadUntil(_, _, _)
ReadUntil(d, delim, acc) ==
    LET x == ReadByte(d)
    IN IF x.err THEN Err
       ELSE IF x.b = delim THEN Ok(acc, x.d)
       ELSE ReadUntil(x.d, delim, Append(acc, x.b))

\* strconv.ParseInt(s, 10, 64): an optional sign, then one or more decimal
\* digits (leading zeros allowed).  The inputs are too short to overflow.
ParseInt(s) ==
    LET neg == s # <<>> /\ Head(s) = "-"
        digits == IF s # <<>> /\ Head(s) \in {"+", "-"} THEN Tail(s) ELSE s
        mag == FoldLeft(LAMBDA n, c : 10 * n + DigitVal(c), 0, digits)
    IN IF digits = <<>> \/ \E i \in DOMAIN digits : digits[i] \notin DigitChars
       THEN [ok |-> FALSE]
       ELSE [ok |-> TRUE, n |-> IF neg THEN -mag ELSE mag]

-----------------------------------------------------------------------------
(* Decoding.                                                               *)

\* decodeInt, after the 'i': the digits up to 'e', parsed; only an
\* interface{} takes an integer.
DecodeInt(d, kind) ==
    LET u == ReadUntil(d, "e", <<>>)
        p == ParseInt(u.val)
    IN IF u.err \/ ~p.ok \/ kind # "iface" THEN Err
       ELSE Ok(IntVal(p.n), u.d)

\* decodeString, with the first digit pushed back: the length up to ':',
\* then that many bytes by io.ReadFull from the reader itself, not
\* through readByte's buffer.
DecodeString(d, kind) ==
    LET u == ReadUntil(d, ":", <<>>)
        p == ParseInt(u.val)
        r == u.d.r
    IN IF u.err \/ ~p.ok \/ p.n < 0 \/ Len(r) < p.n \/ kind = "map" THEN Err
       ELSE LET data == SubSeq(r, 1, p.n)
                d2 == [u.d EXCEPT !.r = SubSeq(r, p.n + 1, Len(r))]
            IN Ok(IF kind = "string" THEN data ELSE StrVal(data), d2)

RECURSIVE Decode(_, _), DecodeList(_, _), DecodeDict(_, _)

\* decode: one byte chooses the form; a digit is pushed back for
\* decodeString.
Decode(d, kind) ==
    LET x == ReadByte(d)
    IN CASE x.err -> Err
         [] x.b = "i" -> DecodeInt(x.d, kind)
         [] x.b = "l" -> IF kind = "iface" THEN DecodeList(x.d, <<>>) ELSE Err
         [] x.b = "d" -> IF kind = "string" THEN Err ELSE DecodeDict(x.d, <<>>)
         [] x.b \in DigitChars -> DecodeString(UnreadByte(x.d, x.b), kind)
         [] OTHER -> Err

\* decodeList's loop into an interface{}: elements until a peeked 'e'.
DecodeList(d, acc) ==
    LET x == PeekByte(d)
    IN IF x.err THEN Err
       ELSE IF x.b = "e" THEN Ok(ListVal(acc), ReadByte(x.d).d)
       ELSE LET elem == Decode(x.d, "iface")
            IN IF elem.err THEN Err ELSE DecodeList(elem.d, Append(acc, elem.val))

\* decodeDict's loop: a key decoded into a string, then its value into an
\* interface{}; a repeated key keeps the later value.
DecodeDict(d, m) ==
    LET x == PeekByte(d)
    IN IF x.err THEN Err
       ELSE IF x.b = "e" THEN Ok(DictVal(m), ReadByte(x.d).d)
       ELSE LET key == Decode(x.d, "string")
                val == Decode(key.d, "iface")
            IN IF key.err THEN Err
               ELSE IF val.err THEN Err
               ELSE DecodeDict(val.d, (key.val :> val.val) @@ m)

\* Decode(data, &v): a fresh Decoder on the bytes; what follows the first
\* value is not read.
DecodeBytes(data, kind) == Decode([buf |-> <<>>, r |-> data], kind)

-----------------------------------------------------------------------------
(* Encoding.                                                               *)

\* fmt's %d of an integer.
RECURSIVE FormatInt(_)
FormatInt(n) ==
    IF n < 0 THEN <<"-">> \o FormatInt(-n)
    ELSE IF n < 10 THEN <<Bytes[n + 3]>>
    ELSE FormatInt(n \div 10) \o <<Bytes[(n % 10) + 3]>>

\* Go's string order: byte by byte, a prefix first.
RECURSIVE StringLess(_, _)
StringLess(s, t) ==
    /\ t # <<>>
    /\ \/ s = <<>>
       \/ ByteCode(Head(s)) < ByteCode(Head(t))
       \/ Head(s) = Head(t) /\ StringLess(Tail(s), Tail(t))

\* encodeBytes: the length, ':', the bytes.
EncodeBytes(s) == FormatInt(Len(s)) \o <<":">> \o s

\* encode of a value: encodeInt, encodeString, encodeList, and encodeDict
\* with its keys sorted.
RECURSIVE Encode(_)
Encode(v) ==
    CASE v.type = "int" -> <<"i">> \o FormatInt(v.int) \o <<"e">>
      [] v.type = "string" -> EncodeBytes(v.string)
      [] v.type = "list" ->
            <<"l">> \o FoldLeft(LAMBDA acc, e : acc \o Encode(e), <<>>, v.list) \o <<"e">>
      [] v.type = "dict" ->
            <<"d">>
            \o FoldLeft(LAMBDA acc, k : acc \o EncodeBytes(k) \o Encode(v.dict[k]), <<>>,
                        SetToSortSeq(DOMAIN v.dict, StringLess))
            \o <<"e">>
=============================================================================
