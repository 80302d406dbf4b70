------------------------------ MODULE Metainfo ------------------------------
(***************************************************************************)
(* The torrent metainfo of internal/torrent/torrent.go: Parse of a decoded *)
(* .torrent dictionary, Validate, and the layout queries the download is   *)
(* built from (TotalLength, NumPieces, PieceHash, PieceSize, GetFiles).    *)
(*                                                                         *)
(* The pieces string is abstracted to its 20-byte SHA-1 hashes, each a     *)
(* token, and the count of bytes left over past the last whole hash; a     *)
(* path component is a token.  The info hash (SHA-1 of the re-encoded info *)
(* dictionary) and the descriptive keys (created by, creation date,        *)
(* comment) are left out.                                                  *)
(***************************************************************************)
EXTENDS Integers, Sequences, Bencoded

LOCAL INSTANCE SequencesExt

NoPieces == [hashes |-> <<>>, extra |-> 0]

\* len(Info.Pieces) in bytes.
PiecesLen(pieces) == 20 * Len(pieces.hashes) + pieces.extra

\* The announce-list: the string urls of each tier that is a list, tiers
\* left empty dropped.
ParseAnnounceList(raw) ==
    IF ~Has(raw, "announce-list", "list") THEN <<>>
    ELSE LET tiers == ItemsOf(Val(raw["announce-list"]), "list")
             urls == [i \in DOMAIN tiers |-> ItemsOf(tiers[i], "string")]
         IN SelectSeq(urls, LAMBDA u : u # <<>>)

\* One entry of "files" that is a dictionary: its int length (0 when
\* absent) and the string components of its path.
ParseFile(fd) ==
    [length |-> IF Has(fd, "length", "int") THEN Val(fd["length"]) ELSE 0,
     path |-> IF Has(fd, "path", "list") THEN ItemsOf(Val(fd["path"]), "string")
              ELSE <<>>]

\* Multi-file mode: the dictionary entries, keeping only those with a
\* positive length and a non-empty path.
ParseFiles(info) ==
    IF ~Has(info, "files", "list") THEN <<>>
    ELSE LET dicts == ItemsOf(Val(info["files"]), "dict")
             parsed == [i \in DOMAIN dicts |-> ParseFile(dicts[i])]
         IN SelectSeq(parsed, LAMBDA f : f.length > 0 /\ f.path # <<>>)

\* Validate: the first failing check, or "ok".
Validate(t) ==
    IF t.pieceLength =< 0 THEN "invalid piece length"
    ELSE IF PiecesLen(t.pieces) % 20 # 0 THEN "pieces hash length"
    ELSE IF t.name = "" THEN "torrent name is empty"
    ELSE IF t.files = <<>> /\ t.length =< 0 THEN "invalid file length"
    ELSE IF \E i \in DOMAIN t.files : t.files[i].length < 0 THEN "file length"
    ELSE IF \E i \in DOMAIN t.files : t.files[i].path = <<>> THEN "file path"
    ELSE "ok"

\* Parse of the decoded dictionary: the info dictionary must be present;
\* every other key keeps Go's zero value when absent or of another type;
\* "length" selects single-file mode, else "files" is read.  The result
\* must pass Validate.
Parse(raw) ==
    IF ~Has(raw, "info", "dict") THEN [ok |-> FALSE, err |-> "missing info dictionary"]
    ELSE
      LET info == Val(raw["info"])
          single == Has(info, "length", "int")
          t == [announce |-> IF Has(raw, "announce", "string")
                             THEN Val(raw["announce"]) ELSE "",
                announceList |-> ParseAnnounceList(raw),
                pieceLength |-> IF Has(info, "piece length", "int")
                                THEN Val(info["piece length"]) ELSE 0,
                pieces |-> IF Has(info, "pieces", "string")
                           THEN Val(info["pieces"]) ELSE NoPieces,
                name |-> IF Has(info, "name", "string") THEN Val(info["name"]) ELSE "",
                length |-> IF single THEN Val(info["length"]) ELSE 0,
                files |-> IF single THEN <<>> ELSE ParseFiles(info)]
      IN IF Validate(t) = "ok" THEN [ok |-> TRUE, torrent |-> t]
         ELSE [ok |-> FALSE, err |-> Validate(t)]

IsSingleFile(t) == t.files = <<>>

TotalLength(t) ==
    IF IsSingleFile(t) THEN t.length
    ELSE FoldLeft(LAMBDA total, f : total + f.length, 0, t.files)

NumPieces(t) == PiecesLen(t.pieces) \div 20

\* PieceHash: the index-th 20 bytes of pieces, or an error out of range.
PieceHash(t, index) ==
    IF index < 0 \/ index >= NumPieces(t) THEN [ok |-> FALSE]
    ELSE [ok |-> TRUE, hash |-> t.pieces.hashes[index + 1]]

\* The last piece's size as total % pieceLength, without the case of a
\* total that is a multiple of the piece length.
PieceSizeRemainder(t, index) ==
    IF index < 0 \/ index >= NumPieces(t) THEN 0
    ELSE IF index < NumPieces(t) - 1 THEN t.pieceLength
    ELSE TotalLength(t) % t.pieceLength

\* PieceSize: 0 out of range, pieceLength but for the last piece, which
\* is total % pieceLength unless that is 0.
PieceSize(t, index) ==
    IF index < 0 \/ index >= NumPieces(t) THEN 0
    ELSE IF index < NumPieces(t) - 1 THEN t.pieceLength
    ELSE IF TotalLength(t) % t.pieceLength = 0 THEN t.pieceLength
    ELSE TotalLength(t) % t.pieceLength

\* GetFiles: the single file at offset 0 under the torrent's name, or each
\* file under name/path at the running sum of the lengths before it.
GetFiles(t) ==
    IF IsSingleFile(t)
    THEN <<[path |-> <<t.name>>, length |-> t.length, offset |-> 0]>>
    ELSE [i \in DOMAIN t.files |->
            [path |-> <<t.name>> \o t.files[i].path,
             length |-> t.files[i].length,
             offset |-> FoldLeft(LAMBDA total, f : total + f.length, 0,
                                 SubSeq(t.files, 1, i - 1))]]
=============================================================================
