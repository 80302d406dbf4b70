------------------------------ MODULE Messages ------------------------------
(***************************************************************************)
(* The wire messages of the peer package (their source sits in            *)
(* internal/bencode/bencode_test.go from line 811): Serialize, ReadMessage *)
(* and WriteMessage, the constructors, the Parse methods, IsValid and      *)
(* MessageLength.  A byte is an integer in 0..255 and a message is         *)
(* [id, payload], or KeepAlive for Go's nil *Message.  The 30 s deadlines  *)
(* of ReadMessage and WriteMessage are left out: a read that times out is  *)
(* a failed read.                                                          *)
(***************************************************************************)
EXTENDS Integers, Sequences

LOCAL INSTANCE SequencesExt

MsgChoke == 0
MsgUnchoke == 1
MsgInterested == 2
MsgNotInterested == 3
MsgHave == 4
MsgBitfield == 5
MsgRequest == 6
MsgPiece == 7
MsgCancel == 8
MsgPort == 9

\* MaxMessageLength: 128 KiB.
MaxMessageLength == 131072

\* Go's nil *Message.
KeepAlive == [nil |-> TRUE]

NewMessage(id, payload) == [id |-> id, payload |-> payload]

\* binary.BigEndian.PutUint32 / PutUint16, and Uint32 / Uint16 of the
\* first bytes of b.
PutUint(n, w) == [k \in 1..w |-> (n \div (256 ^ (w - k))) % 256]
GetUint(b, w) == FoldLeft(LAMBDA n, x : 256 * n + x, 0, SubSeq(b, 1, w))
PutUint32(n) == PutUint(n, 4)
Uint32(b) == GetUint(b, 4)

\* Serialize with a length prefix that leaves out the ID byte.
SerializePayloadLength(m) ==
    IF m = KeepAlive THEN <<0, 0, 0, 0>>
    ELSE PutUint32(Len(m.payload)) \o <<m.id>> \o m.payload

\* Serialize: four zero bytes for a keep-alive, else the length 1 +
\* len(Payload) big-endian, the ID, the payload.
Serialize(m) ==
    IF m = KeepAlive THEN <<0, 0, 0, 0>>
    ELSE PutUint32(1 + Len(m.payload)) \o <<m.id>> \o m.payload

\* ReadMessage from the bytes r: four length bytes, nil for a zero
\* length, an error past MaxMessageLength, then length bytes of ID and
\* payload by io.ReadFull; an error whenever the bytes run out.  rest is
\* what the reader has left.
ReadMessage(r) ==
    LET length == Uint32(r)
        rest == SubSeq(r, 5, Len(r))
    IN CASE Len(r) < 4 -> [err |-> TRUE]
         [] length = 0 -> [err |-> FALSE, msg |-> KeepAlive, rest |-> rest]
         [] length > MaxMessageLength \/ Len(rest) < length -> [err |-> TRUE]
         [] OTHER -> [err |-> FALSE,
                      msg |-> NewMessage(rest[1], SubSeq(rest, 2, length)),
                      rest |-> SubSeq(rest, length + 1, Len(rest))]

\* WriteMessage: the serialized message appended to what the connection
\* carries (a failed or short write is an error for the sender).
WriteMessage(conn, msg) == conn \o Serialize(msg)

\* The constructors.
NewChokeMessage == NewMessage(MsgChoke, <<>>)
NewUnchokeMessage == NewMessage(MsgUnchoke, <<>>)
NewInterestedMessage == NewMessage(MsgInterested, <<>>)
NewNotInterestedMessage == NewMessage(MsgNotInterested, <<>>)
NewHaveMessage(index) == NewMessage(MsgHave, PutUint32(index))
NewBitfieldMessage(bitfield) == NewMessage(MsgBitfield, bitfield)
NewRequestMessage(index, begin, length) ==
    NewMessage(MsgRequest, PutUint32(index) \o PutUint32(begin) \o PutUint32(length))
NewPieceMessage(index, begin, block) ==
    NewMessage(MsgPiece, PutUint32(index) \o PutUint32(begin) \o block)
NewCancelMessage(index, begin, length) ==
    NewMessage(MsgCancel, PutUint32(index) \o PutUint32(begin) \o PutUint32(length))
NewPortMessage(port) == NewMessage(MsgPort, PutUint(port, 2))

\* The three big-endian uint32 fields of a REQUEST or CANCEL payload.
Fields3(p) == <<Uint32(p), Uint32(SubSeq(p, 5, 8)), Uint32(SubSeq(p, 9, 12))>>

\* The Parse methods: an error for another ID or a payload of the wrong
\* length, else the fields.
ParseHave(m) ==
    IF m.id # MsgHave \/ Len(m.payload) # 4 THEN [err |-> TRUE]
    ELSE [err |-> FALSE, fields |-> <<Uint32(m.payload)>>]
ParseBitfield(m) ==
    IF m.id # MsgBitfield THEN [err |-> TRUE]
    ELSE [err |-> FALSE, fields |-> <<m.payload>>]
ParseRequest(m) ==
    IF m.id # MsgRequest \/ Len(m.payload) # 12 THEN [err |-> TRUE]
    ELSE [err |-> FALSE, fields |-> Fields3(m.payload)]
ParsePiece(m) ==
    IF m.id # MsgPiece \/ Len(m.payload) < 8 THEN [err |-> TRUE]
    ELSE [err |-> FALSE,
          fields |-> <<Uint32(m.payload), Uint32(SubSeq(m.payload, 5, 8)),
                       SubSeq(m.payload, 9, Len(m.payload))>>]
ParseCancel(m) ==
    IF m.id # MsgCancel \/ Len(m.payload) # 12 THEN [err |-> TRUE]
    ELSE [err |-> FALSE, fields |-> Fields3(m.payload)]
ParsePort(m) ==
    IF m.id # MsgPort \/ Len(m.payload) # 2 THEN [err |-> TRUE]
    ELSE [err |-> FALSE, fields |-> <<GetUint(m.payload, 2)>>]

\* IsValid: the payload length each ID requires; a keep-alive is valid and
\* an unknown ID is not.
IsValid(m) ==
    \/ m = KeepAlive
    \/ m.id \in {MsgChoke, MsgUnchoke, MsgInterested, MsgNotInterested} /\ m.payload = <<>>
    \/ m.id = MsgHave /\ Len(m.payload) = 4
    \/ m.id = MsgBitfield /\ Len(m.payload) > 0
    \/ m.id \in {MsgRequest, MsgCancel} /\ Len(m.payload) = 12
    \/ m.id = MsgPiece /\ Len(m.payload) >= 8
    \/ m.id = MsgPort /\ Len(m.payload) = 2

\* MessageLength: 4 for a keep-alive, else 4 + 1 + len(Payload).
MessageLength(m) == IF m = KeepAlive THEN 4 ELSE 5 + Len(m.payload)
=============================================================================
