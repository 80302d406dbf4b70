---------------------------- MODULE PieceLayout ----------------------------
(***************************************************************************)
(* The piece manager of internal/piece/manager.go as it is built and       *)
(* queried before any block arrives: NewManager and NewPiece, which cut    *)
(* the torrent into pieces and 16 KiB blocks, and the queries the demo     *)
(* programs make of it (GetNextPiece, GetNextBlocks, GetStatistics,        *)
(* GetProgress, GetMissingPieces).  Lengths are byte counts as in the      *)
(* code; a block's Data is reduced to whether it is held.                  *)
(***************************************************************************)
EXTENDS Integers, Sequences, FiniteSets

Sel == INSTANCE Selector WITH
    SequentialThreshold <- 4, EndGameThreshold <- 10, SmartEndGameThreshold <- 5

\* The BlockSize constant: 16 KiB, the usual REQUEST length.
BlockSize == 16384

\* NewPiece counting only whole blocks: length / BlockSize.
NewPieceWholeBlocks(index, length) ==
    LET numBlocks == length \div BlockSize
        blockLength(i) ==
            IF i = numBlocks - 1 /\ length - i * BlockSize < BlockSize
            THEN length - i * BlockSize ELSE BlockSize
    IN [index |-> index, length |-> length, state |-> "missing",
        blocks |-> [k \in 1..numBlocks |->
                      [begin |-> (k - 1) * BlockSize, length |-> blockLength(k - 1),
                       held |-> FALSE]]]

\* NewPiece: ceil(length / BlockSize) blocks of BlockSize bytes, the last
\* cut to what remains; Go's block i is element i + 1.
NewPiece(index, length) ==
    LET numBlocks == (length + BlockSize - 1) \div BlockSize
        blockLength(i) ==
            IF i = numBlocks - 1 /\ length - i * BlockSize < BlockSize
            THEN length - i * BlockSize ELSE BlockSize
    IN [index |-> index, length |-> length, state |-> "missing",
        blocks |-> [k \in 1..numBlocks |->
                      [begin |-> (k - 1) * BlockSize, length |-> blockLength(k - 1),
                       held |-> FALSE]]]

\* NewManager: pieces of pieceLength bytes, the last one lastPieceLength
\* when that is positive; an all-zero bitfield of ceil(numPieces / 8)
\* bytes; the sequential strategy; statistics counting numPieces.
NewManager(numPieces, pieceLength, lastPieceLength) ==
    [pieces |-> [i \in 0..numPieces - 1 |->
                   NewPiece(i, IF i = numPieces - 1 /\ lastPieceLength > 0
                               THEN lastPieceLength ELSE pieceLength)],
     bitfield |-> [k \in 1..(numPieces + 7) \div 8 |-> 0],
     strategy |-> "sequential",
     stats |-> [totalPieces |-> numPieces, verifiedPieces |-> 0]]

\* SetSelectionStrategy.
SetSelectionStrategy(m, strategy) == [m EXCEPT !.strategy = strategy]

\* The pieces as the strategies see them: index to State.
States(m) == [i \in DOMAIN m.pieces |-> m.pieces[i].state]

\* GetNextPiece: the strategy's SelectPiece over all pieces (the set of
\* indices it may return, Sel!Nil for nil).
GetNextPiece(m, peerBitfield) ==
    IF m.strategy = "sequential" THEN Sel!SelectSequential(States(m), peerBitfield)
    ELSE Sel!SelectRandom(States(m), peerBitfield)

\* GetNextBlocks: nil for an index out of range, else the piece's missing
\* blocks in order, cut to maxBlocks.
GetNextBlocks(m, pieceIndex, maxBlocks) ==
    IF pieceIndex < 0 \/ pieceIndex \notin DOMAIN m.pieces THEN <<>>
    ELSE LET missing == SelectSeq(m.pieces[pieceIndex].blocks, LAMBDA b : ~b.held)
         IN IF Len(missing) > maxBlocks THEN SubSeq(missing, 1, maxBlocks) ELSE missing

\* GetStatistics: the counters (the speed estimate is left out).
GetStatistics(m) == m.stats

\* GetProgress: VerifiedPieces / TotalPieces * 100 as the fraction
\* <<numerator, denominator>>, 0 for no pieces.
GetProgress(m) ==
    IF m.stats.totalPieces = 0 THEN <<0, 1>>
    ELSE <<100 * m.stats.verifiedPieces, m.stats.totalPieces>>

\* GetMissingPieces: the indices whose State is not Verified, in order.
GetMissingPieces(m) ==
    SelectSeq([k \in 1..Cardinality(DOMAIN m.pieces) |-> k - 1],
              LAMBDA i : m.pieces[i].state # Sel!Verified)
=============================================================================
