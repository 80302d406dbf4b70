----------------------------- MODULE Handshake -----------------------------
(***************************************************************************)
(* The BitTorrent handshake of internal/peer/handshake.go.  Byte strings   *)
(* are sequences of integers in 0..255 with their real widths (a 68-byte   *)
(* handshake, 20-byte info hash and peer id, 8 reserved bytes); a          *)
(* connection is the sequence of bytes the remote side has sent, and a     *)
(* read returns what it parsed together with the bytes it left unread.     *)
(***************************************************************************)
EXTENDS Integers, Sequences, Bitwise

\* "BitTorrent protocol" in ASCII.
ProtocolIdentifier ==
    <<66, 105, 116, 84, 111, 114, 114, 101, 110, 116,
      32, 112, 114, 111, 116, 111, 99, 111, 108>>

HandshakeLength == 68

Zeros(n) == [i \in 1..n |-> 0]

\* A Handshake value: Pstr, Reserved [8]byte, InfoHash and PeerID [20]byte.
NewHandshake(infoHash, peerID) ==
    [pstr |-> ProtocolIdentifier, reserved |-> Zeros(8),
     infoHash |-> infoHash, peerID |-> peerID]

\* Serialize: byte(len(Pstr)), then copy(buf[1:20], Pstr) (at most 19
\* bytes, zero padded), the reserved bytes, the info hash and the peer id.
Serialize(h) ==
    <<Len(h.pstr) % 256>>
    \o [i \in 1..19 |-> IF i =< Len(h.pstr) THEN h.pstr[i] ELSE 0]
    \o h.reserved \o h.infoHash \o h.peerID

Bytes(s, from, to) == SubSeq(s, from + 1, to)   \* Go's s[from:to]

Failed(reason) == [ok |-> FALSE, err |-> reason]

\* Taking the reserved bytes one byte early.
ReadReservedEarly(stream) ==
    LET pstrlen == stream[1]
        buf == Bytes(stream, 1, pstrlen + 49)
    IN [ok |-> TRUE,
        hs |-> [pstr |-> Bytes(buf, 0, pstrlen),
                reserved |-> Bytes(buf, pstrlen - 1, pstrlen + 7),
                infoHash |-> Bytes(buf, pstrlen + 8, pstrlen + 28),
                peerID |-> Bytes(buf, pstrlen + 28, pstrlen + 48)],
        rest |-> Bytes(stream, pstrlen + 49, Len(stream))]

\* The successful end of Read: the fields at their offsets in the
\* pstrlen+48 bytes after the length byte; io.ReadFull leaves the bytes
\* after them unread.
ReadFields(stream) ==
    LET pstrlen == stream[1]
        buf == Bytes(stream, 1, pstrlen + 49)
    IN [ok |-> TRUE,
        hs |-> [pstr |-> Bytes(buf, 0, pstrlen),
                reserved |-> Bytes(buf, pstrlen, pstrlen + 8),
                infoHash |-> Bytes(buf, pstrlen + 8, pstrlen + 28),
                peerID |-> Bytes(buf, pstrlen + 28, pstrlen + 48)],
        rest |-> Bytes(stream, pstrlen + 49, Len(stream))]

\* Read: the length byte, then pstrlen+48 more bytes, failing on a short
\* stream, a zero length or a protocol string other than ours.
Read(stream) ==
    IF Len(stream) = 0 THEN Failed("read length")
    ELSE IF stream[1] = 0 THEN Failed("zero length")
    ELSE IF Len(stream) - 1 < stream[1] + 48 THEN Failed("short read")
    ELSE IF Bytes(stream, 1, stream[1] + 1) # ProtocolIdentifier
         THEN Failed("protocol identifier")
    ELSE ReadFields(stream)

\* DoHandshake: write our handshake (the write may fail), read the peer's,
\* and reject one for another torrent.  The set of possible outcomes.
DoHandshake(incoming, infoHash, peerID) ==
    LET r == Read(incoming)
    IN {Failed("send")} \cup
       {IF ~r.ok THEN r
        ELSE IF r.hs.infoHash # infoHash THEN Failed("info hash mismatch")
        ELSE r}

\* The bytes our side writes: Write sends Serialize of NewHandshake.
Sent(infoHash, peerID) == Serialize(NewHandshake(infoHash, peerID))

\* SetExtensions: clear the reserved bytes, then OR in 0x01 and 0x04 of
\* byte 7 and 0x10 of byte 5 (Go indices; +1 here).
SetExtensions(ext) ==
    [i \in 1..8 |->
        CASE i = 8 -> (IF ext.DHT THEN 1 ELSE 0) + (IF ext.FastPeers THEN 4 ELSE 0)
          [] i = 6 -> IF ext.ExtProtocol THEN 16 ELSE 0
          [] OTHER -> 0]

\* ParseExtensions: test the same three bits.
ParseExtensions(reserved) ==
    [DHT |-> (reserved[8] & 1) # 0,
     FastPeers |-> (reserved[8] & 4) # 0,
     ExtProtocol |-> (reserved[6] & 16) # 0]

\* UnmarshalBinary: exactly 68 bytes whose length byte is 19; the protocol
\* string itself is not checked.
UnmarshalBinary(data) ==
    IF Len(data) # HandshakeLength THEN Failed("length")
    ELSE IF data[1] + 49 # HandshakeLength THEN Failed("protocol string length")
    ELSE [ok |-> TRUE,
          hs |-> [pstr |-> Bytes(data, 1, 1 + data[1]),
                  reserved |-> Bytes(data, 1 + data[1], 1 + data[1] + 8),
                  infoHash |-> Bytes(data, 1 + data[1] + 8, 1 + data[1] + 28),
                  peerID |-> Bytes(data, 1 + data[1] + 28, 1 + data[1] + 48)]]

=============================================================================
