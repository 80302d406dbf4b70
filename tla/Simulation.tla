----------------------------- MODULE Simulation -----------------------------
(***************************************************************************)
(* The demo program cmd/download-simulation/main.go, from the point where  *)
(* the torrent is parsed and the disk and piece managers are wired: its    *)
(* main goroutine feeds every block of piece 0 to AddBlockData, then       *)
(* inspects the piece (IsComplete, GetData), the statistics, and reads the *)
(* piece back from disk, while the verifyAndStorePiece goroutine that the  *)
(* last AddBlockData spawned runs concurrently.  Nothing in main waits for *)
(* that goroutine.                                                         *)
(*                                                                         *)
(* The piece store is PieceStore, instantiated over the same variables;    *)
(* main is the goroutine inside AddBlockData (PieceStore's ml).  Each fake *)
(* block, bytes (begin + j) % 256, either is that block of the piece's     *)
(* real content ("good") or not ("bad"); every combination is explored.    *)
(* main's hold on the piece's RWMutex inside GetData is derived from its  *)
(* program counter and blocks the verifier's Lock, as Go's RWMutex does.  *)
(***************************************************************************)
EXTENDS Naturals, FiniteSets

LOCAL INSTANCE FiniteSetsExt

CONSTANTS Pieces, Blocks, BadIndices, MaxDeliveries, DiskCanFail

VARIABLES
    state, blockData, bitfield, verifiedPieces, disk, ml, verifier,
    deliveries, panicked,   \* the piece store (PieceStore)
    fakeData,               \* fakeData[b]: whether block b's fake bytes are the real ones
    main                    \* main's program counter and what it has read

storeVars == <<state, blockData, bitfield, verifiedPieces, disk, ml, verifier,
               deliveries, panicked>>
vars == <<storeVars, fakeData, main>>

PS == INSTANCE PieceStore

\* pieceIndex := 0
SimPiece == 0

\* The maxBlocks argument main passes to GetNextBlocks ("Get all blocks").
BlockLimit == 100

MainPcs == {"add", "getData", "getDataInner", "stats", "readPiece",
            "readBlock", "exit"}
Reports == {"none", "incomplete", "getDataFailed", "unverified", "stored"}
Reads == {"none", "empty", "good", "bad", "error", "notVerified"}

-----------------------------------------------------------------------------
(* Helpers translated from the code.                                       *)

\* Piece.GetMissingBlocks: the blocks whose Data is nil.
GetMissingBlocks(p) == {b \in Blocks : blockData[p][b] = PS!Nil}

\* Manager.GetNextBlocks: nil for an index out of range, else the first
\* maxBlocks missing blocks in block order.
GetNextBlocks(p, maxBlocks) ==
    IF p \notin Pieces THEN {}
    ELSE {b \in GetMissingBlocks(p) :
            Cardinality({c \in GetMissingBlocks(p) : c < b}) < maxBlocks}

\* DiskManager.ReadPiece (and ReadBlock, which slices its result): the
\* bytes on disk (zeros, "empty", where nothing was written since
\* Initialize allocated the file), or a read error.
ReadPiece(p) == {disk[p]} \cup (IF DiskCanFail THEN {"error"} ELSE {})

\* Manager.ReadBlockFromDisk: an error unless the piece is Verified, then
\* the disk manager's ReadBlock.
ReadBlockFromDisk(p) == IF state[p] # "verified" THEN {"notVerified"} ELSE ReadPiece(p)

\* The fake bytes are the whole piece: its SHA-1 matches.
FakeMatches == \A b \in Blocks : fakeData[b] = "good"

\* main holds piece 0's read lock between GetData's two RLocks.
MainReads == main.pc = "getDataInner"

\* The verifier step that needs piece 0's write lock (the reset after a
\* hash mismatch, or MarkPieceVerified).
NeedsLock(w) == verifier[w].pc \in {"reset", "mark"} /\ verifier[w].piece = SimPiece

-----------------------------------------------------------------------------
\* After ParseFile, Initialize, NewManager and GetPiece(0): the fresh
\* piece store, and the blocks GetNextBlocks(0, 100) returns before any
\* goroutine exists.
Init ==
    /\ PS!Init
    /\ fakeData \in [Blocks -> PS!Data]
    /\ main = [pc |-> "add", todo |-> GetNextBlocks(SimPiece, BlockLimit),
               report |-> "none", pieceRead |-> "none", blockRead |-> "none"]

\* The loop over blocks: once the previous AddBlockData has returned, call
\* it for the next block with the fake bytes (it never fails for a block
\* GetNextBlocks returned).
MainAddBlock ==
    /\ main.pc = "add" /\ main.todo # {}
    /\ ml.pc = "idle"
    /\ PS!AddBlockData(SimPiece, Min(main.todo), fakeData[Min(main.todo)])
    /\ main' = [main EXCEPT !.todo = @ \ {Min(@)}]
    /\ UNCHANGED fakeData

\* piece.IsComplete() under RLock: "Piece 0 is not complete" ends main.
MainIsComplete ==
    /\ main.pc = "add" /\ main.todo = {} /\ ml.pc = "idle"
    /\ ~PS!PendingWriter(SimPiece)
    /\ main' = IF PS!IsComplete(blockData[SimPiece])
               THEN [main EXCEPT !.pc = "getData"]
               ELSE [main EXCEPT !.pc = "exit", !.report = "incomplete"]
    /\ UNCHANGED <<storeVars, fakeData>>

\* piece.GetData(): the outer RLock ...
MainGetDataLock ==
    /\ main.pc = "getData"
    /\ ~PS!PendingWriter(SimPiece)
    /\ main' = [main EXCEPT !.pc = "getDataInner"]
    /\ UNCHANGED <<storeVars, fakeData>>

\* ... and IsComplete's inner RLock; an incomplete piece is an error
\* ("Failed to get piece data"), else main hashes the bytes and prints
\* whether they match.
MainGetDataRead ==
    /\ main.pc = "getDataInner"
    /\ ~PS!PendingWriter(SimPiece)
    /\ main' = IF PS!IsComplete(blockData[SimPiece])
               THEN [main EXCEPT !.pc = "stats"]
               ELSE [main EXCEPT !.pc = "exit", !.report = "getDataFailed"]
    /\ UNCHANGED <<storeVars, fakeData>>

\* GetStatistics at once, without waiting: VerifiedPieces > 0 reports the
\* piece "successfully verified and stored", else "verification failed".
MainStats ==
    /\ main.pc = "stats"
    /\ main' = IF verifiedPieces > 0
               THEN [main EXCEPT !.pc = "readPiece", !.report = "stored"]
               ELSE [main EXCEPT !.pc = "exit", !.report = "unverified"]
    /\ UNCHANGED <<storeVars, fakeData>>

\* diskManager.ReadPiece(0); on an error main goes to the end.
MainReadPiece ==
    /\ main.pc = "readPiece"
    /\ \E r \in ReadPiece(SimPiece) :
          main' = [main EXCEPT !.pieceRead = r,
                               !.pc = IF r = "error" THEN "exit" ELSE "readBlock"]
    /\ UNCHANGED <<storeVars, fakeData>>

\* pieceManager.ReadBlockFromDisk(0, 0, 1024) under m.mu.RLock.
MainReadBlock ==
    /\ main.pc = "readBlock"
    /\ ~PS!ManagerLocked
    /\ \E r \in ReadBlockFromDisk(SimPiece) :
          main' = [main EXCEPT !.blockRead = r, !.pc = "exit"]
    /\ UNCHANGED <<storeVars, fakeData>>

MainStep ==
    \/ MainAddBlock \/ MainIsComplete \/ MainGetDataLock \/ MainGetDataRead
    \/ MainStats \/ MainReadPiece \/ MainReadBlock

\* The verifier runs while main runs; when main returns the process exits
\* and takes the goroutine with it.
VerifierStep(w) ==
    /\ main.pc # "exit"
    /\ PS!WorkerStep(w)
    /\ NeedsLock(w) => ~MainReads
    /\ UNCHANGED <<fakeData, main>>

\* AddBlockData's own steps, taken by main inside the call.
AddBlockDataStep == PS!LoopStep /\ UNCHANGED <<fakeData, main>>

\* The program ends when main returns (the state with no successor is the
\* exit), or hangs where main and the verifier wait on each other.
Next ==
    \/ MainStep
    \/ AddBlockDataStep
    \/ \E w \in PS!WorkerIds : VerifierStep(w)

Spec == Init /\ [][Next]_vars

-----------------------------------------------------------------------------
(* Properties.                                                             *)

TypeOK ==
    /\ PS!TypeOK
    /\ fakeData \in [Blocks -> PS!Data]
    /\ main.pc \in MainPcs /\ main.todo \subseteq Blocks
    /\ main.report \in Reports
    /\ main.pieceRead \in Reads /\ main.blockRead \in Reads

\* When the simulation reports the piece "successfully verified and
\* stored" (VerifiedPieces > 0, read without waiting for the verifier),
\* the fake bytes really were the piece, and what it then reads back from
\* disk with ReadPiece and ReadBlockFromDisk is those bytes, or a read
\* error: never the zeros of the unwritten file.  This rests on the
\* verifier writing the piece before MarkPieceVerified counts it.
StoredReportSound ==
    main.pc = "exit" /\ main.report = "stored" =>
        /\ FakeMatches
        /\ main.pieceRead \in {"good", "error"}
        /\ main.blockRead \in {"good", "error", "none"}

\* The simulation says "Piece 0 is not complete", or fails to get the
\* piece data, only when the fake bytes did not match the hash and the
\* verifier reset the piece under it: blocks that passed verification
\* keep their data.
IncompleteReportSound ==
    main.report \in {"incomplete", "getDataFailed"} =>
        ~FakeMatches /\ state[SimPiece] = "missing"
=============================================================================
