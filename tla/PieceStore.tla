----------------------------- MODULE PieceStore -----------------------------
(***************************************************************************)
(* The piece store of internal/piece/manager.go: the block slots of every  *)
(* piece, its PieceState, the Manager's bitfield and VerifiedPieces        *)
(* counter, and the disk contents written by the DiskManager.              *)
(*                                                                         *)
(* Two kinds of goroutine touch a piece:                                   *)
(*   - the peer Manager's messageLoop, which calls AddBlockData for every  *)
(*     PIECE message, one at a time (variable ml);                         *)
(*   - one verifyAndStorePiece goroutine per completion, spawned by        *)
(*     AddBlockData with `go` (variable verifier, indexed by the number of *)
(*     the delivery that spawned it).                                      *)
(* Each piece has a sync.RWMutex. Go's RWMutex blocks a new RLock while a  *)
(* writer is waiting, and Piece.GetData read-locks twice (once itself,     *)
(* once in IsComplete), so the lock is modelled: who holds it for reading  *)
(* and who is waiting to write it. The Manager's own RWMutex m.mu matters  *)
(* only while MarkPieceVerified holds it for writing.                      *)
(*                                                                         *)
(* Block payloads are abstracted to "good" (the bytes whose SHA-1 matches  *)
(* the piece hash) and "bad"; a piece's hash matches iff all its blocks    *)
(* are good.                                                               *)
(***************************************************************************)
EXTENDS Naturals, FiniteSets

CONSTANTS
    Pieces,          \* piece indices 0..N-1 of the torrent
    Blocks,          \* block indices inside a piece (offset / BlockSize)
    BadIndices,      \* PIECE indices >= N a remote peer may send
    MaxDeliveries,   \* bound on the number of PIECE messages delivered
    DiskCanFail      \* whether DiskManager.WritePiece may return an error

ASSUME /\ Pieces # {} /\ Blocks # {}
       /\ BadIndices \cap Pieces = {}
       /\ MaxDeliveries \in Nat
       /\ DiskCanFail \in BOOLEAN

Nil == "nil"                         \* Block.Data == nil
Data == {"good", "bad"}
PieceStates == {"missing", "requested", "downloaded", "verified"}
WorkerIds == 1..MaxDeliveries
WorkerPcs == {"none", "start", "getData", "getDataInner", "reset", "write",
              "lockMgr", "mark", "done"}
LoopPcs == {"idle", "setBlock", "isComplete", "setDownloaded"}

VARIABLES
    state,          \* piece.State
    blockData,      \* piece.Blocks[i].Data
    bitfield,       \* Manager.bitfield, as the set of pieces whose bit is set
    verifiedPieces, \* Manager.stats.VerifiedPieces
    disk,           \* what the last successful WritePiece left on disk
    ml,             \* the messageLoop goroutine inside AddBlockData
    verifier,       \* verifyAndStorePiece goroutines
    deliveries,     \* PIECE messages handed to AddBlockData so far
    panicked        \* the process died of an index-out-of-range panic

vars == <<state, blockData, bitfield, verifiedPieces, disk, ml, verifier,
          deliveries, panicked>>

-----------------------------------------------------------------------------
(* Helpers translated from the code.                                        *)

\* Piece.IsComplete: every block holds data.
IsComplete(data) == \A b \in Blocks : data[b] # Nil

\* DiskManager.VerifyPiece: sha1(data) == pieceHashes[i].
VerifyPiece(data) == \A b \in Blocks : data[b] = "good"

\* What WritePiece leaves on disk for the bytes it is given: bytes whose
\* hash matches the piece hash iff every block is good.
Written(data) == IF \A b \in Blocks : data[b] = "good" THEN "good" ELSE "bad"

\* Goroutines holding piece p's RWMutex for reading across a step: the
\* outer RLock of GetData.
Readers(p) == {w \in WorkerIds : verifier[w].pc = "getDataInner"
                                 /\ verifier[w].piece = p}

\* A goroutine is inside Lock() on piece p's RWMutex: new RLocks block.
PendingWriter(p) ==
    \/ ml.pc \in {"setBlock", "setDownloaded"} /\ ml.piece = p
    \/ \E w \in WorkerIds : verifier[w].pc \in {"reset", "mark"}
                            /\ verifier[w].piece = p

\* MarkPieceVerified holds m.mu for writing while it waits for the piece.
ManagerLocked == \E w \in WorkerIds : verifier[w].pc = "mark"

-----------------------------------------------------------------------------
Init ==
    /\ state = [p \in Pieces |-> "missing"]
    /\ blockData = [p \in Pieces |-> [b \in Blocks |-> Nil]]
    /\ bitfield = {}
    /\ verifiedPieces = 0
    /\ disk = [p \in Pieces |-> "empty"]
    /\ ml = [pc |-> "idle", piece |-> CHOOSE p \in Pieces : TRUE,
             block |-> CHOOSE b \in Blocks : TRUE, data |-> "good"]
    /\ verifier = [w \in WorkerIds |->
                     [pc |-> "none", piece |-> CHOOSE p \in Pieces : TRUE,
                      data |-> [b \in Blocks |-> Nil]]]
    /\ deliveries = 0
    /\ panicked = FALSE

-----------------------------------------------------------------------------
(* The messageLoop side: AddBlockData(pieceIndex, begin, data).             *)

\* Entry: m.mu.RLock to fetch m.pieces[pieceIndex] (no bounds check: an
\* index >= N panics and kills the process), then piece.SetBlockData asks
\* for the piece's write lock.
AddBlockData(p, b, d) ==
    /\ ml.pc = "idle"
    /\ deliveries < MaxDeliveries
    /\ ~ManagerLocked
    /\ deliveries' = deliveries + 1
    /\ IF p \in Pieces
         THEN /\ ml' = [pc |-> "setBlock", piece |-> p, block |-> b, data |-> d]
              /\ UNCHANGED panicked
         ELSE /\ panicked' = TRUE
              /\ UNCHANGED ml
    /\ UNCHANGED <<state, blockData, bitfield, verifiedPieces, disk, verifier>>

\* Piece.SetBlockData: once no reader holds the lock, store a copy of the
\* payload, whatever the slot held before.
SetBlockData ==
    /\ ml.pc = "setBlock"
    /\ Readers(ml.piece) = {}
    /\ blockData' = [blockData EXCEPT ![ml.piece][ml.block] = ml.data]
    /\ ml' = [ml EXCEPT !.pc = "isComplete"]
    /\ UNCHANGED <<state, bitfield, verifiedPieces, disk, verifier,
                   deliveries, panicked>>

\* piece.IsComplete() under RLock: return if not complete.
CheckComplete ==
    /\ ml.pc = "isComplete"
    /\ ~PendingWriter(ml.piece)
    /\ ml' = [ml EXCEPT !.pc = IF IsComplete(blockData[ml.piece])
                                 THEN "setDownloaded" ELSE "idle"]
    /\ UNCHANGED <<state, blockData, bitfield, verifiedPieces, disk, verifier,
                   deliveries, panicked>>

\* piece.State = PieceStateDownloaded under Lock, then
\* `go m.verifyAndStorePiece(pieceIndex)`.
MarkDownloaded ==
    /\ ml.pc = "setDownloaded"
    /\ Readers(ml.piece) = {}
    /\ state' = [state EXCEPT ![ml.piece] = "downloaded"]
    /\ verifier' = [verifier EXCEPT ![deliveries] =
                      [pc |-> "start", piece |-> ml.piece,
                       data |-> [b \in Blocks |-> Nil]]]
    /\ ml' = [ml EXCEPT !.pc = "idle"]
    /\ UNCHANGED <<blockData, bitfield, verifiedPieces, disk, deliveries,
                   panicked>>

-----------------------------------------------------------------------------
(* The verifyAndStorePiece goroutine w.                                    *)

\* m.mu.RLock to read m.pieces[i] and m.diskManager.
VerifyStart(w) ==
    /\ verifier[w].pc = "start"
    /\ ~ManagerLocked
    /\ verifier' = [verifier EXCEPT ![w].pc = "getData"]
    /\ UNCHANGED <<state, blockData, bitfield, verifiedPieces, disk, ml,
                   deliveries, panicked>>

\* GetData: p.mu.RLock(), held across the call to IsComplete.
GetDataLock(w) ==
    /\ verifier[w].pc = "getData"
    /\ ~PendingWriter(verifier[w].piece)
    /\ verifier' = [verifier EXCEPT ![w].pc = "getDataInner"]
    /\ UNCHANGED <<state, blockData, bitfield, verifiedPieces, disk, ml,
                   deliveries, panicked>>

\* Mutant of GetDataRead: a verified piece goes straight to
\* MarkPieceVerified without the call to WritePiece.
GetDataReadSkipWrite(w) ==
    LET p == verifier[w].piece
        d == blockData[p]
    IN /\ verifier[w].pc = "getDataInner"
       /\ ~PendingWriter(p)
       /\ verifier' = [verifier EXCEPT ![w].data = d,
                          ![w].pc = IF ~IsComplete(d) THEN "done"
                                    ELSE IF VerifyPiece(d) THEN "lockMgr"
                                    ELSE "reset"]
       /\ UNCHANGED <<state, blockData, bitfield, verifiedPieces, disk, ml,
                      deliveries, panicked>>

\* IsComplete read-locks the same mutex again; then GetData concatenates
\* the blocks and releases. verifyAndStorePiece returns if the piece is not
\* complete, and then calls VerifyPiece on the bytes it got.
GetDataRead(w) ==
    LET p == verifier[w].piece
        d == blockData[p]
    IN /\ verifier[w].pc = "getDataInner"
       /\ ~PendingWriter(p)
       /\ verifier' = [verifier EXCEPT ![w].data = d,
                          ![w].pc = IF ~IsComplete(d) THEN "done"
                                    ELSE IF VerifyPiece(d) THEN "write"
                                    ELSE "reset"]
       /\ UNCHANGED <<state, blockData, bitfield, verifiedPieces, disk, ml,
                      deliveries, panicked>>

\* Hash mismatch: under Lock, State = Missing and every block cleared.
ResetPiece(w) ==
    LET p == verifier[w].piece
    IN /\ verifier[w].pc = "reset"
       /\ Readers(p) = {}
       /\ state' = [state EXCEPT ![p] = "missing"]
       /\ blockData' = [blockData EXCEPT ![p] = [b \in Blocks |-> Nil]]
       /\ verifier' = [verifier EXCEPT ![w].pc = "done"]
       /\ UNCHANGED <<bitfield, verifiedPieces, disk, ml, deliveries, panicked>>

\* Mutant of WritePiece: writing the piece's blocks as they are now rather
\* than the bytes that were verified.
WritePieceRereads(w) ==
    LET p == verifier[w].piece
    IN /\ verifier[w].pc = "write"
       /\ \/ /\ disk' = [disk EXCEPT ![p] = Written(blockData[p])]
             /\ verifier' = [verifier EXCEPT ![w].pc = "lockMgr"]
          \/ /\ DiskCanFail
             /\ verifier' = [verifier EXCEPT ![w].pc = "done"]
             /\ UNCHANGED disk
       /\ UNCHANGED <<state, blockData, bitfield, verifiedPieces, ml,
                      deliveries, panicked>>

\* diskManager.WritePiece(i, data); on error the goroutine just returns.
WritePiece(w) ==
    LET p == verifier[w].piece
    IN /\ verifier[w].pc = "write"
       /\ \/ /\ disk' = [disk EXCEPT ![p] = Written(verifier[w].data)]
             /\ verifier' = [verifier EXCEPT ![w].pc = "lockMgr"]
          \/ /\ DiskCanFail
             /\ verifier' = [verifier EXCEPT ![w].pc = "done"]
             /\ UNCHANGED disk
       /\ UNCHANGED <<state, blockData, bitfield, verifiedPieces, ml,
                      deliveries, panicked>>

\* MarkPieceVerified: m.mu.Lock() ...
MarkLock(w) ==
    /\ verifier[w].pc = "lockMgr"
    /\ ~ManagerLocked
    /\ verifier' = [verifier EXCEPT ![w].pc = "mark"]
    /\ UNCHANGED <<state, blockData, bitfield, verifiedPieces, disk, ml,
                   deliveries, panicked>>

\* Mutant of MarkPieceVerified: the bit index off by one.
MarkPieceVerifiedBitOffByOne(w) ==
    LET p == verifier[w].piece
    IN /\ verifier[w].pc = "mark"
       /\ Readers(p) = {}
       /\ state' = [state EXCEPT ![p] = "verified"]
       /\ bitfield' = bitfield \cup {p + 1}
       /\ verifiedPieces' = verifiedPieces + 1
       /\ verifier' = [verifier EXCEPT ![w].pc = "done"]
       /\ UNCHANGED <<blockData, disk, ml, deliveries, panicked>>

\* Mutant of MarkPieceVerified: the block buffers are released once the
\* piece is on disk.
MarkPieceVerifiedFreesBlocks(w) ==
    LET p == verifier[w].piece
    IN /\ verifier[w].pc = "mark"
       /\ Readers(p) = {}
       /\ state' = [state EXCEPT ![p] = "verified"]
       /\ bitfield' = bitfield \cup {p}
       /\ verifiedPieces' = verifiedPieces + 1
       /\ blockData' = [blockData EXCEPT ![p] = [b \in Blocks |-> Nil]]
       /\ verifier' = [verifier EXCEPT ![w].pc = "done"]
       /\ UNCHANGED <<disk, ml, deliveries, panicked>>

\* ... then piece.mu.Lock(): State = Verified, set the bitfield bit,
\* CompletedPieces++ and VerifiedPieces++.
MarkPieceVerified(w) ==
    LET p == verifier[w].piece
    IN /\ verifier[w].pc = "mark"
       /\ Readers(p) = {}
       /\ state' = [state EXCEPT ![p] = "verified"]
       /\ bitfield' = bitfield \cup {p}
       /\ verifiedPieces' = verifiedPieces + 1
       /\ verifier' = [verifier EXCEPT ![w].pc = "done"]
       /\ UNCHANGED <<blockData, disk, ml, deliveries, panicked>>

-----------------------------------------------------------------------------
LoopStep == SetBlockData \/ CheckComplete \/ MarkDownloaded

WorkerStep(w) ==
    \/ VerifyStart(w) \/ GetDataLock(w) \/ GetDataRead(w)
    \/ ResetPiece(w) \/ WritePiece(w) \/ MarkLock(w) \/ MarkPieceVerified(w)

\* A panic ends the process: panicked becomes TRUE only with BadIndices
\* non-empty, and no step follows it.
Next ==
    \/ \E p \in Pieces \cup BadIndices, b \in Blocks, d \in Data :
          AddBlockData(p, b, d)
    \/ LoopStep
    \/ \E w \in WorkerIds : WorkerStep(w)

\* Go's scheduler runs every runnable goroutine, and sync.Mutex's starvation
\* mode hands a contended lock to a waiter that keeps asking: strong
\* fairness for each goroutine's own steps. Deliveries are up to the peers.
Fairness ==
    /\ SF_vars(LoopStep)
    /\ \A w \in WorkerIds : SF_vars(WorkerStep(w))

Spec == Init /\ [][Next]_vars /\ Fairness

-----------------------------------------------------------------------------
(* Properties.                                                             *)

\* Every variable stays within its type; in particular the bitfield only
\* ever holds indices of real pieces (setBitfield's byte/bit arithmetic).
TypeOK ==
    /\ state \in [Pieces -> PieceStates]
    /\ blockData \in [Pieces -> [Blocks -> Data \cup {Nil}]]
    /\ bitfield \subseteq Pieces
    /\ verifiedPieces \in Nat
    /\ disk \in [Pieces -> {"empty", "good", "bad"}]
    /\ ml.pc \in LoopPcs /\ ml.piece \in Pieces /\ ml.block \in Blocks
    /\ ml.data \in Data
    /\ \A w \in WorkerIds : /\ verifier[w].pc \in WorkerPcs
                            /\ verifier[w].piece \in Pieces
    /\ deliveries \in 0..MaxDeliveries
    /\ panicked \in BOOLEAN

\* Spec 8.1 / 4.1: bit i of the exported bitfield is set iff piece i is
\* Verified. AddBlockData marks any completed piece Downloaded, also one
\* that is already Verified, and nothing clears the bit.
BitfieldMatchesState == \A p \in Pieces : (p \in bitfield) <=> (state[p] = "verified")

\* Manager.IsComplete() (stats.VerifiedPieces == TotalPieces) holds only when
\* every piece is Verified. MarkPieceVerified counts every verification,
\* also a second one of the same piece.
CompletionReportSound ==
    verifiedPieces = Cardinality(Pieces) => \A p \in Pieces : state[p] = "verified"

\* The piece store implements PieceStoreSpec: the bitfield is what it
\* advertises and the disk what it stores (spec 8.2: an advertised piece
\* has bytes on disk whose SHA-1 matches).  So WritePiece only ever writes
\* bytes that passed VerifyPiece, even while blocks of the same piece keep
\* arriving and a second verifier runs, MarkPieceVerified sets a bit only
\* over a piece already on disk, and no step clears a bit or undoes a
\* write.
Abs == INSTANCE PieceStoreSpec WITH advertised <- bitfield, stored <- disk

StoreRefinesSpec == Abs!Spec

\* A completed (Downloaded) piece is eventually either Verified or reset
\* to Missing for re-download.
DownloadedResolves ==
    \A p \in Pieces : [](state[p] = "downloaded" => <>(state[p] # "downloaded"))

=============================================================================
