--------------------------- MODULE IntegrationTest ---------------------------
(***************************************************************************)
(* The demo program cmd/integration-test/main.go after ParseFile: it sets  *)
(* up the disk and piece managers as a download would (NumPieces,          *)
(* PieceLength and PieceSize of the last piece into NewManager), asks the  *)
(* sequential and the random strategy for a piece a mock peer holding the  *)
(* first ten pieces has, takes up to five blocks of the random choice,     *)
(* reads the statistics, and reads piece 0 back from disk.  The program    *)
(* is sequential; Run is what it computes and prints, with the random      *)
(* draw as the set of pieces it may choose.  The SHA-1 comparisons of      *)
(* fixed test bytes and of the bytes read back are left out.               *)
(***************************************************************************)
EXTENDS Integers, Sequences

LOCAL INSTANCE FiniteSetsExt

MI == INSTANCE Metainfo

PL == INSTANCE PieceLayout

\* The number of pieces the mock peer holds.
MockPieces == 10

\* A mock bitfield that also sets the bit of piece 10.
MockBitfieldEleven(numPieces) ==
    [k \in 1..(numPieces + 7) \div 8 |->
       MapThenSumSet(LAMBDA i : 2 ^ (7 - (i % 8)),
                     {i \in 0..MockPieces : i < numPieces /\ i \div 8 = k - 1})]

\* The mock bitfield: (numPieces + 7) / 8 bytes with the bits of pieces
\* 0..9 (those that exist) set, the high bit of a byte first.
MockBitfield(numPieces) ==
    [k \in 1..(numPieces + 7) \div 8 |->
       MapThenSumSet(LAMBDA i : 2 ^ (7 - (i % 8)),
                     {i \in 0..MockPieces - 1 : i < numPieces /\ i \div 8 = k - 1})]

\* Step 8's ReadPiece(0): PieceSize(0) bytes of the freshly allocated
\* files, which the program hashes when there are any and otherwise
\* reports "No real piece data available".
ReadsPiece(t) == MI!PieceSize(t, 0) > 0

\* The program from step 3 on, for the parsed torrent t: the piece
\* manager, the two selections, the blocks of each piece the random
\* strategy may select, the statistics, the progress, the number of
\* missing pieces, and whether ReadPiece(0) gives any bytes to verify.
Run(t) ==
    LET n == MI!NumPieces(t)
        pm == PL!NewManager(n, t.pieceLength, MI!PieceSize(t, n - 1))
        mock == MockBitfield(n)
        sequential == PL!SetSelectionStrategy(pm, "sequential")
        random == PL!SetSelectionStrategy(sequential, "random")
    IN [manager |-> pm,
        sequential |-> PL!GetNextPiece(sequential, mock),
        random |-> {[piece |-> s,
                     blocks |-> IF s = PL!Sel!Nil THEN <<>>
                                ELSE PL!GetNextBlocks(random, s, 5)] :
                      s \in PL!GetNextPiece(random, mock)},
        stats |-> PL!GetStatistics(random),
        progress |-> PL!GetProgress(random),
        missing |-> Len(PL!GetMissingPieces(random)),
        readsPiece |-> ReadsPiece(t)]
=============================================================================
