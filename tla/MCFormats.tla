----------------------------- MODULE MCFormats ------------------------------
(***************************************************************************)
(* Checks of the pure code of the client (piece selection, the handshake *)
(* codec, the metainfo layout and the tracker's peer lists) against       *)
(* reference definitions, over every input of small sets.  An initial     *)
(* state holds one input; the one step from it is the call, which records *)
(* what the code returns, and the properties judge that result.           *)
(***************************************************************************)
EXTENDS Integers, Sequences, FiniteSets, TLC, Bencoded

LOCAL INSTANCE SequencesExt

Sel == INSTANCE Selector WITH
    SequentialThreshold <- 1, EndGameThreshold <- 2, SmartEndGameThreshold <- 1

HS == INSTANCE Handshake

MI == INSTANCE Metainfo

TR == INSTANCE Tracker

D == INSTANCE Disk

IT == INSTANCE IntegrationTest

BC == INSTANCE Bencode

MS == INSTANCE Messages

VARIABLES
    case,   \* the input of the call under check
    called, \* whether the call has run
    out     \* what it returned (NoOutput before it ran)

NoOutput == "pending"

StrategyNames == {"sequential", "random", "rarest-first", "smart", ""}

\* Three pieces: the Smart thresholds above are scaled to three pieces so
\* that its sequential, rarest-first, end-game-over-rarest and end-game
\* branches are all taken.
PieceIdx == 0..2
PieceStateSets == [PieceIdx -> {"missing", "downloaded", Sel!Verified}]

\* A peer's bitfield for three pieces: the three high bits in any pattern,
\* with the five spare bits clear or set, a missing bitfield, and one with
\* an extra byte.
HighBits == {b * 32 : b \in 0..7}
PeerBitfields ==
    {<<>>} \cup {<<h + junk>> : h \in HighBits, junk \in {0, 31}}
           \cup {<<h, 255>> : h \in HighBits}

\* The bitfields other peers sent to rarest-first: up to two.
OtherBitfield == {<<128>>, <<64>>, <<32>>, <<96>>}
PeerBitfieldMaps ==
    {<<>>} \cup {<<a>> : a \in OtherBitfield} \cup {<<a, b>> : a, b \in OtherBitfield}

\* Every byte in a one-byte bitfield; two-byte bitfields of edge bytes.
DecodeBitfields ==
    {<<>>} \cup {<<b>> : b \in 0..255} \cup {<<a, b>> : a, b \in {0, 1, 128, 255}}

\* Handshakes: our info hash and one differing from it in the last byte
\* only, a peer id, every combination of extension flags, and the bytes
\* of a first message after the handshake or none.
OurHash == [i \in 1..20 |-> i]
OtherHash == [OurHash EXCEPT ![20] = 0]
PeerId == [i \in 1..20 |-> 100 + i]
Exts == [DHT : BOOLEAN, FastPeers : BOOLEAN, ExtProtocol : BOOLEAN]
NoExt == [DHT |-> FALSE, FastPeers |-> FALSE, ExtProtocol |-> FALSE]
Tails == {<<>>, <<0, 0, 0, 1, 2>>}
PeerHandshake(ih, e) ==
    [HS!NewHandshake(ih, PeerId) EXCEPT !.reserved = HS!SetExtensions(e)]

\* What a peer may send: a handshake and a tail, or our handshake cut
\* short, with a wrong length byte, or with a protocol string byte changed.
GoodStream == HS!Serialize(PeerHandshake(OurHash, NoExt)) \o <<0, 0, 0, 0>>
HandshakeCases ==
    {[kind |-> "handshake", ext |-> e,
      stream |-> HS!Serialize(PeerHandshake(ih, e)) \o t] :
        ih \in {OurHash, OtherHash}, e \in Exts, t \in Tails}
    \cup {[kind |-> "handshake", ext |-> NoExt, stream |-> st] :
            st \in {SubSeq(GoodStream, 1, n) : n \in {0, 1, 20, 67, 68}}
                  \cup {[GoodStream EXCEPT ![k] = v] : <<k, v>> \in
                         {<<1, 0>>, <<1, 18>>, <<1, 20>>, <<2, 98>>, <<20, 0>>}}}

\* Metainfo: an info dictionary with a piece length, up to three hashes
\* with or without a stray partial hash, a name, and either "length" or
\* a "files" list of up to two entries (a non-dictionary, or a dictionary
\* with a length and a path of string and non-string components, or with
\* no length), or neither; and a dictionary without "info".
Hashes == <<"h1", "h2", "h3">>
PiecesStrings == {[hashes |-> SubSeq(Hashes, 1, n), extra |-> x] : n \in 0..3, x \in {0, 5}}
Paths == {<<>>, <<StrVal("a")>>, <<IntVal(0)>>, <<IntVal(0), StrVal("b")>>}
FileEntries ==
    {StrVal("x"), DictVal("path" :> ListVal(<<StrVal("a")>>))}
    \cup {DictVal(("length" :> IntVal(l)) @@ ("path" :> ListVal(pt))) :
            l \in {-1, 0, 2, 3}, pt \in Paths}
FileLists == {<<>>} \cup {<<f>> : f \in FileEntries} \cup {<<f, g>> : f, g \in FileEntries}
Modes ==
    {"length" :> IntVal(l) : l \in {-1, 0, 4, 5, 6}}
    \cup {"files" :> ListVal(fl) : fl \in FileLists}
    \cup {"files" :> StrVal("x")}
InfoDicts ==
    {("piece length" :> IntVal(pl)) @@ ("pieces" :> StrVal(ps))
       @@ ("name" :> StrVal(nm)) @@ m :
         pl \in {-1, 0, 2, 3}, ps \in PiecesStrings, nm \in {"", "n"}, m \in Modes}
MetainfoCases ==
    {[kind |-> "meta", raw |-> "announce" :> StrVal("u")]}
    \cup {[kind |-> "meta", raw |-> ("announce" :> StrVal("u")) @@ ("info" :> DictVal(d))] :
            d \in InfoDicts}

\* Tracker replies: up to two peers among two IPv4 addresses (one with
\* two ports, ports whose two bytes differ) and an IPv6 one, sent in the
\* compact form and as a list of dictionaries, the latter after an entry
\* parseDictPeers must skip or none; HTTP status 200 or an error.
TrackerPeers ==
    {[ip |-> <<10, 0, 0, 1>>, port |-> 6881], [ip |-> <<10, 0, 0, 1>>, port |-> 0],
     [ip |-> <<192, 168, 1, 2>>, port |-> 258],
     [ip |-> [i \in 1..16 |-> IF i = 16 THEN 1 ELSE 0], port |-> 6881]}
IPText(ip) == [form |-> IF Len(ip) = 4 THEN "v4" ELSE "v6", addr |-> ip]
DictPeer(p) == DictVal(("ip" :> StrVal(IPText(p.ip))) @@ ("port" :> IntVal(p.port)))
SkippedEntries ==
    {StrVal("x"), DictVal("port" :> IntVal(1)),
     DictVal("ip" :> StrVal(IPText(<<10, 0, 0, 9>>))),
     DictVal(("ip" :> IntVal(7)) @@ ("port" :> IntVal(1))),
     DictVal(("ip" :> StrVal([form |-> "name", addr |-> <<>>])) @@ ("port" :> IntVal(1)))}
TrackerCases ==
    [kind : {"tracker"}, status : {200, 503},
     peers : {<<>>} \cup {<<p>> : p \in TrackerPeers} \cup {<<p, q>> : p, q \in TrackerPeers},
     skipped : {<<>>} \cup {<<e>> : e \in SkippedEntries}]

\* Spec section 6: each peer 4 bytes of IPv4 address, then the port
\* big-endian.
CompactForm(ps) ==
    FlattenSeq([i \in DOMAIN ps |-> ps[i].ip \o <<ps[i].port \div 256, ps[i].port % 256>>])
IPv4Only(ps) == SelectSeq(ps, LAMBDA p : Len(p.ip) = 4)

\* The content of a torrent as the byte at each offset of the files laid
\* end to end: byte k-1 is k, never Zero, so each byte says where it
\* belongs; piece i is PieceSize(i) bytes of it at i * piece length.
Stream(t) == [k \in 1..MI!TotalLength(t) |-> k]
PieceData(t, i) == [k \in 1..MI!PieceSize(t, i) |-> i * t.pieceLength + k]

\* The disk manager on every torrent Parse accepts, the verified pieces
\* written in index order or in reverse.
DiskCases ==
    {[kind |-> "disk", torrent |-> MI!Parse(c.raw).torrent, order |-> o] :
        c \in {c \in MetainfoCases : MI!Parse(c.raw).ok}, o \in {"up", "down"}}

\* The integration test on single-file torrents of real sizes: piece
\* lengths of one block, a block and a bit, two and a half blocks, and six
\* blocks and a bit (so that GetNextBlocks' limit of 5 cuts); 0 to 12
\* pieces (the mock peer holds the first 10); the last piece 1 byte, one
\* block, a block and a byte, or whole; and a length past what the hashes
\* cover.
IntegrationLengths(pl, n) ==
    IF n = 0 THEN {5}
    ELSE {(n - 1) * pl + r : r \in {1, 16384, 16385, pl}} \cup {n * pl + 3}
IntegrationTorrent(pl, n, len) ==
    MI!Parse(("announce" :> StrVal("u")) @@
             ("info" :> DictVal(("piece length" :> IntVal(pl))
                  @@ ("pieces" :> StrVal([hashes |-> [i \in 1..n |-> i], extra |-> 0]))
                  @@ ("name" :> StrVal("n")) @@ ("length" :> IntVal(len))))).torrent
IntegrationCases ==
    UNION {{[kind |-> "integration", torrent |-> IntegrationTorrent(pl, n, len)] :
              len \in IntegrationLengths(pl, n)} :
             pl \in {16384, 16385, 40000, 100000}, n \in {0, 1, 2, 9, 10, 11, 12}}

\* Bencode values: integers of one and two digits and of either sign;
\* byte strings that are empty, hold the bytes the decoder looks for, or
\* need a two-digit length; lists and dictionaries of up to two of them,
\* keys that are prefixes of each other, and nesting to depth three.
BencodeStrings ==
    {<<>>, <<"e">>, <<"1", ":">>, <<"i", "e">>, [k \in 1..10 |-> "a"], [k \in 1..12 |-> "l"]}
BencodeAtoms ==
    {IntVal(n) : n \in {-12, -1, 0, 7, 10}} \cup {StrVal(s) : s \in BencodeStrings}
BencodeKeys == {<<>>, <<"a">>, <<"b">>, <<"a", "b">>, <<"1">>}
BencodeFlat ==
    {ListVal(<<>>), DictVal(<<>>)}
    \cup {ListVal(<<a>>) : a \in BencodeAtoms}
    \cup {ListVal(<<a, b>>) : a, b \in {IntVal(-1), StrVal(<<"e">>), StrVal(<<>>)}}
    \cup {DictVal(k :> a) : k \in BencodeKeys, a \in BencodeAtoms}
    \cup {DictVal((k :> IntVal(1)) @@ (j :> StrVal(<<"e">>))) : k, j \in BencodeKeys}
BencodeValues ==
    BencodeAtoms \cup BencodeFlat
    \cup {ListVal(<<v, IntVal(3)>>) : v \in BencodeFlat}
    \cup {DictVal((<<"b">> :> v) @@ (<<"a">> :> ListVal(<<v>>))) : v \in BencodeFlat}
BencodeCases == [kind : {"bencode"}, value : BencodeValues]

\* Wire messages from every constructor: uint32 fields at 0, at byte
\* and 16-bit carries, and at the largest value TLC's integers hold
\* (2^31 - 1); PIECE blocks that are empty, short, and one block long;
\* ports at the 16-bit edges.
MsgFields == {0, 1, 255, 256, 65536, 2147483647}
Block(n) == [k \in 1..n |-> 7]
MessageCalls ==
    [ctor : {"choke", "unchoke", "interested", "notInterested", "keepAlive"}, args : {<<>>}]
    \cup {[ctor |-> "have", args |-> <<i>>] : i \in MsgFields}
    \cup {[ctor |-> "bitfield", args |-> <<b>>] : b \in {<<>>, <<0>>, <<255, 1>>}}
    \cup {[ctor |-> c, args |-> <<i, b, l>>] : c \in {"request", "cancel"}, i, b, l \in MsgFields}
    \cup {[ctor |-> "piece", args |-> <<i, b, blk>>] :
            i, b \in MsgFields, blk \in {<<>>, <<7>>, <<0, 255, 3>>}}
    \cup {[ctor |-> "piece", args |-> <<1, 16384, Block(16384)>>]}
    \cup {[ctor |-> "port", args |-> <<p>>] : p \in {0, 1, 6881, 65535}}
MessageCases == [kind : {"message"}, call : MessageCalls]

Cases ==
    MessageCases \cup BencodeCases \cup HandshakeCases \cup DiskCases \cup IntegrationCases \cup MetainfoCases \cup TrackerCases \cup
    [kind : {"bits"}, bitfield : DecodeBitfields]
    \cup [kind : {"select"}, pieces : PieceStateSets, bitfield : PeerBitfields,
          others : PeerBitfieldMaps]
    \cup [kind : {"priority"}, pieces : PieceStateSets, bitfield : PeerBitfields,
          priorities : [PieceIdx -> {-1, 0, 1}]]

Init == case \in Cases /\ called = FALSE /\ out = NoOutput

\* peerHasPiece for every piece index that fits in two bytes.
DecodeBitfield ==
    /\ case.kind = "bits"
    /\ ~called
    /\ called' = TRUE
    /\ out' = [i \in 0..16 |-> Sel!PeerHasPiece(case.bitfield, i)]
    /\ UNCHANGED case

\* Every strategy's SelectPiece on the same pieces and peer bitfield.
SelectPieces ==
    LET ps == case.pieces
        bf == case.bitfield
        rarest == Sel!SelectRarestFirst(ps, bf, case.others)
    IN /\ case.kind = "select"
       /\ ~called
       /\ called' = TRUE
       /\ out' = [sequential |-> Sel!SelectSequential(ps, bf),
                  random |-> Sel!SelectRandom(ps, bf),
                  rarest |-> rarest,
                  endgame |-> Sel!SelectEndGame(ps, bf, 1, rarest),
                  smart |-> Sel!SelectSmart(ps, bf, case.others),
                  byName |-> [n \in StrategyNames |-> Sel!SelectByName(n, ps, bf)]]
       /\ UNCHANGED case

\* Connect's handshake step (peer.go): DoHandshake on what the peer sent,
\* then ParseExtensions of the peer's reserved bytes; and UnmarshalBinary
\* of the first 68 bytes.
Handshaking ==
    LET st == case.stream
    IN /\ case.kind = "handshake"
       /\ ~called
       /\ called' = TRUE
       /\ out' = [done |-> {IF r.ok
                            THEN [r EXCEPT !.hs = [@ EXCEPT !.reserved =
                                                     HS!ParseExtensions(@)]]
                            ELSE r : r \in HS!DoHandshake(st, OurHash, PeerId)},
                  sent |-> HS!Sent(OurHash, PeerId),
                  unmarshal |-> HS!UnmarshalBinary(IF Len(st) >= 68 THEN SubSeq(st, 1, 68) ELSE st)]
       /\ UNCHANGED case

\* ParseFile's Parse, then the layout queries the download is set up with
\* (TotalLength, NumPieces, PieceSize and PieceHash of every index and
\* one past either end, GetFiles).
Parsing ==
    LET r == MI!Parse(case.raw)
        t == r.torrent
        idx == -1..MI!NumPieces(t)
    IN /\ case.kind = "meta"
       /\ ~called
       /\ called' = TRUE
       /\ out' = IF ~r.ok THEN [ok |-> FALSE]
                 ELSE [ok |-> TRUE, torrent |-> t,
                       total |-> MI!TotalLength(t), n |-> MI!NumPieces(t),
                       size |-> [i \in idx |-> MI!PieceSize(t, i)],
                       hash |-> [i \in idx |-> MI!PieceHash(t, i)],
                       files |-> MI!GetFiles(t)]
       /\ UNCHANGED case

\* Announce answered by the same peers in either format; then, as the
\* tracker tests do, CompactPeersToBytes of the peers the dictionary reply
\* gave.
Announcing ==
    LET body(peers) == ("interval" :> IntVal(1800)) @@ ("peers" :> peers)
        compact == TR!Announce(case.status, body(StrVal(CompactForm(IPv4Only(case.peers)))))
        dict == TR!Announce(case.status,
                    body(ListVal(case.skipped \o [i \in DOMAIN case.peers |->
                                                     DictPeer(case.peers[i])])))
    IN /\ case.kind = "tracker"
       /\ ~called
       /\ called' = TRUE
       /\ out' = [compact |-> compact, dict |-> dict,
                  back |-> {TR!CompactPeersToBytes(r.peers) : r \in {r \in dict : r.ok}}]
       /\ UNCHANGED case

\* Initialize, then verifyAndStorePiece's WritePiece of every piece (a
\* failed write leaves the files as they are and the next piece is still
\* written), then ReadPiece of every piece and ReadBlock of its bytes 1..2.
StoringPieces ==
    LET t == case.torrent
        n == MI!NumPieces(t)
        order == [k \in 1..n |-> IF case.order = "up" THEN k - 1 ELSE n - k]
        store(r, i) == LET w == D!WritePiece(t, r.files, i, PieceData(t, i))
                       IN [ok |-> r.ok /\ w.ok, files |-> w.files]
        stored == FoldLeft(store, [ok |-> TRUE, files |-> D!Initialize(t)], order)
    IN /\ case.kind = "disk"
       /\ ~called
       /\ called' = TRUE
       /\ out' = [ok |-> stored.ok, files |-> stored.files,
                  read |-> [i \in 0..n - 1 |-> D!ReadPiece(t, stored.files, i)],
                  block |-> [i \in 0..n - 1 |-> D!ReadBlock(t, stored.files, i, 1, 2)]]
       /\ UNCHANGED case

\* The integration test's main from the parsed torrent on.
IntegrationTesting ==
    /\ case.kind = "integration"
    /\ ~called
    /\ called' = TRUE
    /\ out' = IT!Run(case.torrent)
    /\ UNCHANGED case

\* Encode, then Decode of the bytes into a map[string]interface{} (as
\* torrent.Parse and the tracker do) and into an interface{}.
Coding ==
    LET enc == BC!Encode(case.value)
    IN /\ case.kind = "bencode"
       /\ ~called
       /\ called' = TRUE
       /\ out' = [bytes |-> enc, map |-> BC!DecodeBytes(enc, "map"),
                  iface |-> BC!DecodeBytes(enc, "iface")]
       /\ UNCHANGED case

\* The constructor a call names.
Construct(c) ==
    CASE c.ctor = "choke" -> MS!NewChokeMessage
      [] c.ctor = "unchoke" -> MS!NewUnchokeMessage
      [] c.ctor = "interested" -> MS!NewInterestedMessage
      [] c.ctor = "notInterested" -> MS!NewNotInterestedMessage
      [] c.ctor = "keepAlive" -> MS!KeepAlive
      [] c.ctor = "have" -> MS!NewHaveMessage(c.args[1])
      [] c.ctor = "bitfield" -> MS!NewBitfieldMessage(c.args[1])
      [] c.ctor = "request" -> MS!NewRequestMessage(c.args[1], c.args[2], c.args[3])
      [] c.ctor = "cancel" -> MS!NewCancelMessage(c.args[1], c.args[2], c.args[3])
      [] c.ctor = "piece" -> MS!NewPieceMessage(c.args[1], c.args[2], c.args[3])
      [] c.ctor = "port" -> MS!NewPortMessage(c.args[1])

\* The Parse method handleMessage applies to a message of that kind (the
\* message itself for those without payload).
ParseAs(ctor, m) ==
    CASE ctor = "have" -> MS!ParseHave(m)
      [] ctor = "bitfield" -> MS!ParseBitfield(m)
      [] ctor = "request" -> MS!ParseRequest(m)
      [] ctor = "cancel" -> MS!ParseCancel(m)
      [] ctor = "piece" -> MS!ParsePiece(m)
      [] ctor = "port" -> MS!ParsePort(m)
      [] OTHER -> [err |-> FALSE, fields |-> <<>>]

\* WriteMessage of the message and then of a CHOKE onto a connection;
\* ReadMessage twice from what it carries, the Parse method of the first,
\* and ReadMessage of every cut of the first frame a lost tail can leave
\* (the first twenty bytes and the frame less its last byte).
Framing ==
    LET m == Construct(case.call)
        conn == MS!WriteMessage(MS!WriteMessage(<<>>, m), MS!NewChokeMessage)
        first == MS!ReadMessage(conn)
        frame == MS!Serialize(m)
        cuts == {k \in 0..20 : k < Len(frame)} \cup {Len(frame) - 1}
    IN /\ case.kind = "message"
       /\ ~called
       /\ called' = TRUE
       /\ out' = [msg |-> m, len |-> Len(frame), first |-> first,
                  parsed |-> IF first.err THEN [err |-> TRUE] ELSE ParseAs(case.call.ctor, first.msg),
                  second |-> IF first.err THEN [err |-> TRUE] ELSE MS!ReadMessage(first.rest),
                  cuts |-> {MS!ReadMessage(SubSeq(frame, 1, k)).err : k \in cuts}]
       /\ UNCHANGED case

\* PriorityStrategy over a sequential base.
SelectByPriority ==
    /\ case.kind = "priority"
    /\ ~called
    /\ called' = TRUE
    /\ out' = Sel!SelectPriority(case.pieces, case.bitfield, case.priorities,
                                 Sel!SelectSequential(case.pieces, case.bitfield))
    /\ UNCHANGED case

Next == DecodeBitfield \/ SelectPieces \/ SelectByPriority \/ Handshaking
        \/ Parsing \/ Announcing \/ StoringPieces \/ IntegrationTesting \/ Coding \/ Framing

Spec == Init /\ [][Next]_<<case, called, out>>

-----------------------------------------------------------------------------

\* peerHasPiece reads bit i of a peer's bitfield as BEP 3 lays it out: the
\* high bit of the first byte is piece 0, and a short or missing bitfield
\* has no piece past its end (every piece index that fits in 2 bytes).
BitfieldDecoding ==
    (case.kind = "bits" /\ called) =>
        \A i \in 0..16 : out[i] <=> Sel!HasPieceBEP3(case.bitfield, i)

\* Every strategy (Sequential, Random, RarestFirst, EndGame over
\* rarest-first, Smart, Priority over sequential, and each name of
\* GetStrategyByName) returns nil exactly when the peer has no piece we
\* lack, and otherwise a piece we lack that the peer has, whatever the
\* random draw or the unstable sort picks.  Spec 4.3 asks whether Smart
\* may return nil when only its sequential branch comes up empty.
SelectionSound ==
    LET Sound(r) == Sel!SoundResult(r, case.pieces, case.bitfield)
    IN /\ (case.kind = "select" /\ called) =>
            /\ \A f \in {"sequential", "random", "rarest", "endgame", "smart"} :
                  Sound(out[f])
            /\ \A n \in StrategyNames : Sound(out.byName[n])
       /\ (case.kind = "priority" /\ called) => Sound(out)

\* Rarest-first returns a piece held by the fewest of the peers whose
\* bitfields it was given (spec 4.3), counted by the BEP 3 layout.
RarestFirstIsRarest ==
    (case.kind = "select" /\ called) =>
        LET c == Sel!Eligible(case.pieces, case.bitfield)
            held(i) == Cardinality({p \in DOMAIN case.others :
                                      Sel!HasPieceBEP3(case.others[p], i)})
        IN \A r \in out.rarest : r # Sel!Nil => \A j \in c : held(r) =< held(j)

\* The handshake layout of spec section 6 at absolute offsets: length byte
\* 19, "BitTorrent protocol", 8 reserved bytes, info hash, peer id.
WellFormed(st) ==
    /\ Len(st) >= 68
    /\ st[1] = 19
    /\ SubSeq(st, 2, 20) = HS!ProtocolIdentifier
    /\ SubSeq(st, 29, 48) = OurHash

\* The session is created exactly when the peer's first 68 bytes are a
\* well-formed handshake for our torrent; then it records the peer's id,
\* the info hash and the extension flags the peer set (reserved[7] 0x01
\* and 0x04, reserved[5] 0x10), and leaves every later byte for the
\* message loop; a send failure is the only other outcome.  What we send
\* is such a handshake, so a peer of the same torrent accepts it; and
\* unmarshalling the serialized handshake gives it back (spec 8.5).
HandshakeAccepted ==
    (case.kind = "handshake" /\ called) =>
        LET st == case.stream
        IN /\ \A r \in out.done :
                 r.ok => /\ WellFormed(st)
                         /\ r.hs = [pstr |-> HS!ProtocolIdentifier,
                                    reserved |-> case.ext,
                                    infoHash |-> SubSeq(st, 29, 48),
                                    peerID |-> SubSeq(st, 49, 68)]
                         /\ r.rest = SubSeq(st, 69, Len(st))
           /\ WellFormed(st) => \E r \in out.done : r.ok
           /\ WellFormed(out.sent) /\ Len(out.sent) = HS!HandshakeLength
           /\ WellFormed(st) =>
                 /\ out.unmarshal.ok
                 /\ HS!Serialize(out.unmarshal.hs) = SubSeq(st, 1, 68)

\* For a torrent Parse accepts whose piece count is the one spec section 3
\* requires of TorrentMeta (N = ceil(total / piece length)), the piece
\* sizes the download is built with are positive, at most the piece
\* length, and add up to the total length (spec 4.2: the last piece is
\* total - (N-1) * piece length); PieceHash gives the i-th hash of the
\* pieces string and refuses the indices past either end; and GetFiles lays
\* the files back to back from offset 0 over exactly the total length.
MetainfoLayout ==
    (case.kind = "meta" /\ called /\ out.ok
       /\ out.n = (out.total + out.torrent.pieceLength - 1) \div out.torrent.pieceLength)
    => LET pl == out.torrent.pieceLength
           last == out.n - 1
           fs == out.files
       IN /\ \A i \in 0..last : out.size[i] \in 1..pl
          /\ out.size[last] = out.total - last * pl
          /\ \A i \in 0..last : out.hash[i] = [ok |-> TRUE, hash |-> Hashes[i + 1]]
          /\ ~out.hash[-1].ok /\ ~out.hash[out.n].ok
          /\ fs[1].offset = 0
          /\ \A k \in 2..Len(fs) : fs[k].offset = fs[k - 1].offset + fs[k - 1].length
          /\ fs[Len(fs)].offset + fs[Len(fs)].length = out.total

\* A tracker reply lists the same peers, address and port, in the order
\* sent, whether it uses the compact string (spec 6: 4 address bytes and a
\* big-endian port each) or a list of dictionaries among entries
\* parseDictPeers skips; a 200 reply is always accepted; and
\* CompactPeersToBytes of the peers of the dictionary reply is their
\* compact form, IPv6 peers left out.
TrackerPeersAgree ==
    (case.kind = "tracker" /\ called) =>
        LET Addrs(ps) == [i \in DOMAIN ps |-> <<ps[i].ip, ps[i].port>>]
            v4 == IPv4Only(case.peers)
        IN /\ \A r \in out.compact : r.ok => Addrs(r.peers) = Addrs(v4)
           /\ \A r \in out.dict : r.ok => Addrs(r.peers) = Addrs(case.peers)
           /\ case.status = 200 =>
                 \A f \in {"compact", "dict"} : \E r \in out[f] : r.ok
           /\ \A b \in out.back : b = CompactForm(v4)

\* For a torrent Parse accepts whose piece count is ceil(total / piece
\* length) and whose files have distinct paths, writing every verified
\* piece with WritePiece, in either order, succeeds and leaves each file of
\* GetFiles holding exactly its slice of the content (spec 8.8: pieces map
\* onto the virtual concatenation of the files); ReadPiece gives every
\* piece back, and ReadBlock(i, 1, 2) its bytes 1..2 cut at the piece's
\* end, or an error for a piece of one byte.
DiskRoundTrip ==
    (case.kind = "disk" /\ called) =>
        LET t == case.torrent
            n == MI!NumPieces(t)
            fs == MI!GetFiles(t)
            paths == [i \in DOMAIN fs |-> fs[i].path]
        IN (n = (MI!TotalLength(t) + t.pieceLength - 1) \div t.pieceLength
              /\ IsInjective(paths))
           => /\ out.ok
              /\ DOMAIN out.files = Range(paths)
              /\ \A i \in DOMAIN fs :
                    out.files[fs[i].path] =
                       SubSeq(Stream(t), fs[i].offset + 1, fs[i].offset + fs[i].length)
              /\ \A i \in 0..n - 1 :
                    /\ out.read[i] = [ok |-> TRUE, data |-> PieceData(t, i)]
                    /\ out.block[i] =
                          IF Len(PieceData(t, i)) =< 1 THEN [ok |-> FALSE]
                          ELSE [ok |-> TRUE,
                                data |-> SubSeq(PieceData(t, i), 2,
                                                IF Len(PieceData(t, i)) < 3
                                                THEN Len(PieceData(t, i)) ELSE 3)]

\* The piece manager the demos build from a parsed torrent (NewManager
\* with NumPieces, PieceLength and PieceSize of the last piece) has one
\* piece per hash, each of PieceSize bytes (spec 4.2), cut by NewPiece
\* into blocks of 1..16384 bytes that lie back to back from offset 0 to
\* the piece's end; its bitfield has a bit for every piece and fewer than
\* 8 spare bits.
BlocksTilePieces ==
    (case.kind = "integration" /\ called) =>
        LET t == case.torrent
            n == MI!NumPieces(t)
            ps == out.manager.pieces
        IN /\ DOMAIN ps = 0..n - 1
           /\ \A i \in 0..n - 1 :
                 LET bs == ps[i].blocks
                 IN /\ ps[i].length = MI!PieceSize(t, i)
                    /\ bs # <<>> /\ bs[1].begin = 0
                    /\ \A k \in DOMAIN bs : bs[k].length \in 1..IT!PL!BlockSize
                    /\ \A k \in 2..Len(bs) : bs[k].begin = bs[k - 1].begin + bs[k - 1].length
                    /\ bs[Len(bs)].begin + bs[Len(bs)].length = ps[i].length
           /\ n =< 8 * Len(out.manager.bitfield) /\ 8 * Len(out.manager.bitfield) < n + 8

\* What the integration test reports: the sequential strategy selects
\* piece 0, the random one any of the first ten pieces (those the mock
\* peer has), and nil for a torrent without pieces; GetNextBlocks(p, 5)
\* gives min(5, blocks of p) blocks, the first at offset 0 and of
\* min(16384, PieceSize(p)) bytes; nothing is verified yet, so progress
\* is 0 and every piece is missing; ReadPiece(0) has bytes to verify
\* unless the torrent has no pieces.
IntegrationReport ==
    (case.kind = "integration" /\ called) =>
        LET t == case.torrent
            n == MI!NumPieces(t)
            bs == IT!PL!BlockSize
            nil == IT!PL!Sel!Nil
        IN /\ out.sequential = IF n = 0 THEN {nil} ELSE {0}
           /\ {r.piece : r \in out.random} =
                 IF n = 0 THEN {nil} ELSE {i \in 0..IT!MockPieces - 1 : i < n}
           /\ \A r \in out.random : r.piece # nil =>
                 LET size == MI!PieceSize(t, r.piece)
                     count == (size + bs - 1) \div bs
                 IN /\ Len(r.blocks) = IF count < 5 THEN count ELSE 5
                    /\ r.blocks[1].begin = 0
                    /\ r.blocks[1].length = IF size < bs THEN size ELSE bs
           /\ out.stats = [totalPieces |-> n, verifiedPieces |-> 0]
           /\ out.progress[1] = 0 /\ out.missing = n
           /\ out.readsPiece <=> n > 0
\* Spec 8.6: decode after encode gives back every integer, byte string,
\* list and dictionary, and reads exactly the bytes Encode wrote (the
\* decoder's pushed-back byte and its reader both used up); a dictionary
\* also decodes into the map[string]interface{} of the callers, and only a
\* dictionary does.  This rests on encodeDict's key order, on fmt's %d and
\* ParseInt agreeing, and on decodeString reading the bytes after the
\* length from the reader while readByte reads from the buffer first.
BencodeRoundTrip ==
    case.kind = "bencode" /\ called =>
        LET done(r) == ~r.err /\ r.val = case.value /\ r.d = [buf |-> <<>>, r |-> <<>>]
        IN /\ done(out.iface)
           /\ IF case.value.type = "dict" THEN done(out.map) ELSE out.map.err

\* Spec 7: for every message kind, reading back what WriteMessage wrote
\* gives the message, its Parse method gives the constructor's fields,
\* the next message on the connection follows intact, and the frame is
\* MessageLength bytes.  A frame cut short anywhere never reads as a
\* message.  This rests on Serialize's length prefix, ReadMessage's
\* keep-alive case and io.ReadFull, and on the big-endian field layout of
\* the constructors and parsers.
MessageRoundTrip ==
    case.kind = "message" /\ called =>
        /\ out.len = MS!MessageLength(out.msg)
        /\ ~out.first.err /\ out.first.msg = out.msg
        /\ out.parsed = [err |-> FALSE, fields |-> case.call.args]
        /\ ~out.second.err /\ out.second.msg = MS!NewChokeMessage
        /\ out.second.rest = <<>>
        /\ out.cuts = {TRUE}

=============================================================================
