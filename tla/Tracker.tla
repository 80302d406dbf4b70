------------------------------ MODULE Tracker ------------------------------
(***************************************************************************)
(* The tracker client of internal/tracker/tracker.go: the outcome of an    *)
(* announce, parseResponse of the bencoded reply, its two peer-list        *)
(* formats, and CompactPeersToBytes.  An IP address is the sequence of its *)
(* bytes (4 for IPv4, 16 for IPv6; nil is the empty sequence), and the     *)
(* "ip" text of a dictionary peer is abstracted to a record: a dotted or   *)
(* colon form with the address it spells, or a host name.                  *)
(***************************************************************************)
EXTENDS Integers, Sequences, Bencoded

LOCAL INSTANCE SequencesExt

NilIP == <<>>

NoID == "none"

Failed(reason) == [ok |-> FALSE, err |-> reason]

\* net.ParseIP: the address of an IPv4 or IPv6 literal, nil for a name.
ParseIP(text) == IF text.form \in {"v4", "v6"} THEN text.addr ELSE NilIP

\* net.IP.To4: the 4-byte form of an IPv4 (or IPv4-mapped) address.
To4(ip) ==
    CASE Len(ip) = 4 -> ip
      [] Len(ip) = 16 /\ SubSeq(ip, 1, 12) = <<0,0,0,0,0,0,0,0,0,0,255,255>>
           -> SubSeq(ip, 13, 16)
      [] OTHER -> NilIP

\* uint16(port) of an int64: its low 16 bits.
Uint16(n) == n % 65536

\* Reading the port with its low byte first.
BigEndianUint16Swapped(b) == b[2] * 256 + b[1]

\* binary.BigEndian.Uint16
BigEndianUint16(b) == b[1] * 256 + b[2]

\* parseCompactPeers: nothing unless the length is a multiple of 6, else
\* each 6 bytes a 4-byte IP and a big-endian port.
ParseCompactPeers(data) ==
    IF Len(data) % 6 # 0 THEN <<>>
    ELSE [i \in 1..(Len(data) \div 6) |->
            [ip |-> SubSeq(data, 6 * i - 5, 6 * i - 2),
             port |-> BigEndianUint16(SubSeq(data, 6 * i - 1, 6 * i)),
             id |-> NoID]]

\* parseDictPeers: skip an entry that is not a dictionary, has no string
\* "ip", one ParseIP refuses, or no int "port"; keep the others in order
\* with the port truncated to 16 bits.
ParseDictPeers(entries) ==
    LET dicts == ItemsOf(entries, "dict")
        Kept(d) == /\ Has(d, "ip", "string")
                   /\ ParseIP(Val(d["ip"])) # NilIP
                   /\ Has(d, "port", "int")
        kept == SelectSeq(dicts, Kept)
    IN [i \in DOMAIN kept |->
          [ip |-> ParseIP(Val(kept[i]["ip"])),
           port |-> Uint16(Val(kept[i]["port"])),
           id |-> IF Has(kept[i], "peer id", "string")
                  THEN Val(kept[i]["peer id"]) ELSE NoID]]

IntOrZero(d, key) == IF Has(d, key, "int") THEN Val(d[key]) ELSE 0

\* parseResponse: a failure reason is an error; a peers value that is
\* neither a string nor a list is an error; an absent one gives no peers.
ParseResponse(resp) ==
    IF Has(resp, "failure reason", "string") THEN Failed("tracker error")
    ELSE IF "peers" \in DOMAIN resp /\ resp["peers"].type \notin {"string", "list"}
         THEN Failed("invalid peers format")
    ELSE [ok |-> TRUE,
          interval |-> IntOrZero(resp, "interval"),
          complete |-> IntOrZero(resp, "complete"),
          incomplete |-> IntOrZero(resp, "incomplete"),
          peers |-> CASE "peers" \notin DOMAIN resp -> <<>>
                      [] resp["peers"].type = "string"
                           -> ParseCompactPeers(Val(resp["peers"]))
                      [] OTHER -> ParseDictPeers(Val(resp["peers"]))]

\* Announce after the request is built: the HTTP request may fail, a
\* status other than 200 is an error, else the body is parsed.  The set of
\* possible outcomes.
Announce(status, body) ==
    {Failed("send request")} \cup
    {IF status # 200 THEN Failed("tracker status") ELSE ParseResponse(body)}

\* CompactPeersToBytes: for each peer with an IPv4 address, its 4 bytes and
\* its port big-endian; IPv6 peers are skipped.
CompactPeersToBytes(peers) ==
    FoldLeft(LAMBDA buf, p :
                IF To4(p.ip) = NilIP THEN buf
                ELSE buf \o To4(p.ip) \o <<p.port \div 256, p.port % 256>>,
             <<>>, peers)
=============================================================================
