------------------------------ MODULE Download ------------------------------
(***************************************************************************)
(* The download path: the Coordinator of internal/download/coordinator.go, *)
(* our side of each peer session (peer.Peer's receiveLoop/handleMessage,   *)
(* EnsureInterested, RequestPiece), the peer Manager's messageLoop that    *)
(* hands every PIECE to the piece store and then to the Coordinator's      *)
(* HandlePieceReceived, and the remote peers at the other end of the TCP   *)
(* connections. The piece store itself (AddBlockData and the              *)
(* verifyAndStorePiece goroutines) is the PieceStore module, instantiated  *)
(* over the same variables.                                                *)
(*                                                                         *)
(* Channels: toPeer[r] is our send path to peer r (sendCh, sendLoop and    *)
(* the TCP stream, all FIFO); fromPeer[r] is the TCP stream from r;        *)
(* inbox[r] is what receiveLoop forwarded (receiveCh, handlePeer and the   *)
(* shared incomingMessages channel, FIFO per peer). The peers in Corrupt   *)
(* may answer a REQUEST with bytes that fail the piece's hash; the others  *)
(* send the good bytes.                                                    *)
(***************************************************************************)
EXTENDS Naturals, FiniteSets, Sequences

LOCAL INSTANCE Functions

CONSTANTS
    Pieces, Blocks, BadIndices, MaxDeliveries, DiskCanFail,  \* PieceStore's
    Peers,               \* the remote peers we hold sessions with
    InitialHas,          \* InitialHas[r]: pieces r holds when the session opens
    MaxRequestsPerPeer,  \* Coordinator.maxRequestsPerPeer (10 in the code)
    MaxTimeouts,         \* bound on request evictions by cleanupTimedOutRequests
    MaxChokes,           \* bound on CHOKE messages the remote peers send
    Corrupt,             \* the peers that may send blocks with bad bytes
    MaxDrops,            \* bound on PIECEs receiveLoop drops on a full receiveCh
    TimelyPeers          \* the peers whose answers arrive within requestTimeout

ASSUME /\ InitialHas \in [Peers -> SUBSET Pieces]
       /\ MaxRequestsPerPeer \in Nat \ {0}
       /\ MaxTimeouts \in Nat /\ MaxChokes \in Nat
       /\ Corrupt \subseteq Peers
       /\ MaxDrops \in Nat /\ TimelyPeers \subseteq Peers
       /\ Pieces \subseteq Nat /\ Blocks \subseteq Nat

VARIABLES
    state, blockData, bitfield, verifiedPieces, disk, ml, verifier,
    deliveries, panicked,   \* the piece store (PieceStore)
    session,   \* per peer: PeerState.PeerChoking, AmInterested, p.bitfield
    remote,    \* per peer: what the remote peer holds and its choke state
    toPeer,    \* our messages in flight to each peer
    fromPeer,  \* each peer's messages in flight to us
    inbox,     \* PIECE messages forwarded by receiveLoop, not yet handled
    active,    \* Coordinator.activeRequests: (piece, block) -> peer
    handling,  \* messageLoop between AddBlockData and HandlePieceReceived
    timeouts,  \* evictions so far
    chokes,    \* CHOKE messages sent so far
    cycle,     \* processDownloadCycle found pieces needed, updateProgress pending
    progress,  \* Coordinator.downloadedPieces and totalPieces
    coord,     \* requestPiecesFromPeer's RequestBlock calls still to make
    drops      \* PIECE messages dropped so far

storeVars == <<state, blockData, bitfield, verifiedPieces, disk, ml, verifier,
               deliveries, panicked>>
netVars == <<session, remote, toPeer, fromPeer, inbox, drops>>
coordVars == <<cycle, progress, coord>>
vars == <<storeVars, netVars, active, handling, timeouts, chokes, coordVars>>

PS == INSTANCE PieceStore

NoPeer == "none"

\* The coordinator outside requestPiecesFromPeer's loop.
CoordIdle == [pc |-> "idle", peer |-> NoPeer, todo |-> <<>>, left |-> 0]
Keys == Pieces \X Blocks

\* receiveLoop/handleMessage can only read a bitfield once one was sent;
\* p.bitfield == nil is hasBitfield = FALSE.
SessionInit == [peerChoking |-> TRUE, amInterested |-> FALSE,
                hasBitfield |-> FALSE, have |-> {}]

\* The ascending sequence of a finite set of numbers.
SortedSeq(S) == [i \in 1..Cardinality(S) |->
                    CHOOSE x \in S : Cardinality({y \in S : y < x}) = i - 1]


-----------------------------------------------------------------------------
(* Helpers translated from the code.                                        *)

\* piece.Manager.GetNeededPieces: every piece not Verified.
Needed == {p \in Pieces : state[p] # "verified"}

\* Peer.NeedsPieces: false without a bitfield, else whether r has a needed one.
NeedsPieces(r) == session[r].hasBitfield /\ session[r].have \cap Needed # {}

\* Peer.CanDownload: !PeerChoking && AmInterested.
CanDownload(r) == ~session[r].peerChoking /\ session[r].amInterested

\* countActiveRequestsForPeer.
ActiveFor(r) == {k \in Keys : active[k] = r}

\* Mutant of SelectSequential: the State test left out.
SelectSequentialAny(have) == CHOOSE p \in have : \A q \in have : p <= q

\* SequentialStrategy.SelectPiece over m.pieces and the peer's bitfield:
\* the lowest piece that is not Verified and that the peer has.
SelectSequential(have) ==
    LET cand == {p \in Pieces : state[p] # "verified" /\ p \in have}
    IN CHOOSE p \in cand : \A q \in cand : p <= q

\* Mutant of MissingBlocks: the Data == nil test left out.
MissingBlocksAll(p) == Blocks

\* GetBlockRequests: the blocks of p whose Data is nil, in offset order.
MissingBlocks(p) == {b \in Blocks : blockData[p][b] = PS!Nil}

\* Mutant of IsControlMessage: MsgHave missing from the list.
IsControlMessageNoHave(m) ==
    m.type \in {"choke", "unchoke", "interested", "notInterested", "bitfield"}

\* Peer.isControlMessage: the messages handleMessage consumes; the others
\* are forwarded to receiveCh.
IsControlMessage(m) ==
    m.type \in {"choke", "unchoke", "interested", "notInterested", "have", "bitfield"}

Init ==
    /\ PS!Init
    /\ session = [r \in Peers |-> SessionInit]
    /\ remote = [r \in Peers |-> [has |-> InitialHas[r], announced |-> InitialHas[r],
                                   choking |-> TRUE, interested |-> FALSE]]
    /\ toPeer = [r \in Peers |-> <<>>]
    \* A peer holding pieces sends BITFIELD right after the handshake; one
    \* holding none may skip it (BEP 3), as connectToPeer does for us.
    /\ fromPeer = [r \in Peers |-> IF InitialHas[r] = {} THEN <<>>
                          ELSE <<[type |-> "bitfield", pieces |-> InitialHas[r]]>>]
    /\ inbox = [r \in Peers |-> <<>>]
    /\ drops = 0
    /\ active = [k \in Keys |-> NoPeer]
    /\ handling = [busy |-> FALSE, key |-> CHOOSE k \in Keys : TRUE]
    /\ timeouts = 0
    /\ chokes = 0
    /\ cycle = FALSE
    /\ progress = [downloaded |-> 0, total |-> 0]
    /\ coord = CoordIdle

-----------------------------------------------------------------------------
(* Our side of session r: receiveLoop reads one message, handleMessage     *)
(* applies it under p.mu, and a non-control message (PIECE) is forwarded   *)
(* towards the messageLoop.                                                 *)

ReceiveMessage(r) ==
    LET m == Head(fromPeer[r])
    IN /\ fromPeer[r] # <<>>
       /\ fromPeer' = [fromPeer EXCEPT ![r] = Tail(@)]
       /\ \/ /\ m.type = "choke"
             /\ session' = [session EXCEPT ![r].peerChoking = TRUE]
             /\ UNCHANGED <<inbox, drops>>
          \/ /\ m.type = "unchoke"
             /\ session' = [session EXCEPT ![r].peerChoking = FALSE]
             /\ UNCHANGED <<inbox, drops>>
          \* setPieceUnsafe: sets the bit only if a bitfield exists.
          \/ /\ m.type = "have" /\ session[r].hasBitfield
             /\ session' = [session EXCEPT ![r].have = @ \cup {m.piece}]
             /\ UNCHANGED <<inbox, drops>>
          \/ /\ m.type = "have" /\ ~session[r].hasBitfield
             /\ UNCHANGED <<session, inbox, drops>>
          \/ /\ m.type = "bitfield"
             /\ session' = [session EXCEPT ![r].hasBitfield = TRUE,
                                           ![r].have = m.pieces]
             /\ UNCHANGED <<inbox, drops>>
          \/ /\ ~IsControlMessage(m)
             /\ inbox' = [inbox EXCEPT ![r] = Append(@, m)]
             /\ UNCHANGED <<session, drops>>
          \* The select's default case: receiveCh is full, the message is lost.
          \/ /\ ~IsControlMessage(m) /\ drops < MaxDrops
             /\ drops' = drops + 1
             /\ UNCHANGED <<session, inbox>>
       /\ UNCHANGED <<coordVars, storeVars, remote, toPeer, active, handling, timeouts,
                      chokes>>

-----------------------------------------------------------------------------
(* The peer Manager's messageLoop: handlePieceData calls                   *)
(* pieceManager.AddBlockData (the PieceStore steps) and, once it returns,  *)
(* pieceHandler.HandlePieceReceived.                                        *)

HandlePieceData(r) ==
    LET m == Head(inbox[r])
    IN /\ inbox[r] # <<>>
       /\ ~handling.busy
       /\ PS!AddBlockData(m.piece, m.block, m.data)
       /\ inbox' = [inbox EXCEPT ![r] = Tail(@)]
       /\ handling' = [busy |-> TRUE, key |-> <<m.piece, m.block>>]
       /\ UNCHANGED <<coordVars, session, remote, toPeer, fromPeer, drops, active, timeouts, chokes>>

\* Mutant of HandlePieceReceived: the key is built differently from the one
\* requestPiecesFromPeer stored, so the entry is never found.
HandlePieceReceivedKeyMismatch ==
    /\ coord.pc = "idle"
    /\ handling.busy
    /\ ml.pc = "idle"
    /\ handling' = [handling EXCEPT !.busy = FALSE]
    /\ UNCHANGED <<coordVars, storeVars, netVars, active, timeouts, chokes>>

\* Coordinator.HandlePieceReceived: under c.mu, delete the entry for
\* (piece, begin), whoever it was requested from.
HandlePieceReceived ==
    /\ coord.pc = "idle"
    /\ handling.busy
    /\ ml.pc = "idle"
    /\ active' = [active EXCEPT ![handling.key] = NoPeer]
    /\ handling' = [handling EXCEPT !.busy = FALSE]
    /\ UNCHANGED <<coordVars, storeVars, netVars, timeouts, chokes>>

-----------------------------------------------------------------------------
(* The Coordinator's processDownloadCycle, per peer.                       *)

\* Peer.EnsureInterested(neededPieces); the cycle returns early when
\* nothing is needed. The flag is set before the message is queued.
EnsureInterested(r) ==
    /\ coord.pc = "idle"
    /\ Needed # {}
    /\ \/ /\ NeedsPieces(r) /\ ~session[r].amInterested
          /\ session' = [session EXCEPT ![r].amInterested = TRUE]
          /\ toPeer' = [toPeer EXCEPT ![r] = Append(@, [type |-> "interested"])]
       \/ /\ ~NeedsPieces(r) /\ session[r].amInterested
          /\ session' = [session EXCEPT ![r].amInterested = FALSE]
          /\ toPeer' = [toPeer EXCEPT ![r] = Append(@, [type |-> "notInterested"])]
    /\ UNCHANGED <<coordVars, storeVars, remote, fromPeer, inbox, drops, active, handling,
                   timeouts, chokes>>

\* The coordinator is inside RequestBlock's piece.mu.Lock() on piece p.
CoordPendingWriter(p) == coord.pc = "lock" /\ Head(coord.todo)[1] = p

\* ... and so holds m.mu's read lock.
CoordReadsManager == coord.pc = "lock"

\* Mutant of BudgetLeft: requestsToMake is one too many.
BudgetLeftOffByOne(r) == MaxRequestsPerPeer - Cardinality(ActiveFor(r)) + 1

\* requestsToMake: maxRequestsPerPeer less the peer's activeRequests entries.
BudgetLeft(r) == MaxRequestsPerPeer - Cardinality(ActiveFor(r))

\* Mutant of NotRequested: the activeRequests check is dropped.
NotRequestedAll(p) == MissingBlocks(p)

\* The blocks GetBlockRequests returns for piece p that requestPiecesFromPeer
\* does not skip: those without an entry in activeRequests.
NotRequested(p) == {b \in MissingBlocks(p) : active[<<p, b>>] = NoPeer}

\* requestPiecesFromPeer for a peer that CanDownload: under c.mu, stop at
\* the per-peer budget or without a bitfield or an available piece; select
\* a piece sequentially and take its missing blocks in offset order
\* (GetBlockRequests read-locks the piece under m.mu's read lock).  The
\* loop over them is RequestBlockSend/Skip, RequestBlockRLock and
\* RequestBlockLock, with c.mu held throughout, so the activeRequests check
\* is made here: nothing else changes the map before the loop reaches the
\* block.
RequestPieces(r) ==
    LET s == session[r]
        sel == SelectSequential(s.have)
        reqs == SortedSeq(NotRequested(sel))
    IN /\ coord.pc = "idle"
       /\ Needed # {}
       /\ CanDownload(r)
       /\ Cardinality(ActiveFor(r)) < MaxRequestsPerPeer
       /\ s.hasBitfield
       /\ Needed \cap s.have # {}
       /\ ~PS!ManagerLocked
       /\ ~PS!PendingWriter(sel)
       /\ reqs # <<>>
       /\ coord' = [pc |-> "send", peer |-> r, left |-> BudgetLeft(r),
                     todo |-> [i \in 1..Len(reqs) |-> <<sel, reqs[i]>>]]
       /\ UNCHANGED <<cycle, progress, storeVars, netVars, active, handling, timeouts, chokes>>

\* The loop after the last block or once requestsMade reaches requestsToMake.
LoopNext == IF Len(coord.todo) = 1 \/ coord.left = 0 THEN CoordIdle
            ELSE [coord EXCEPT !.pc = "send", !.todo = Tail(@)]

\* The loop body for the next block: p.RequestPiece, with the peer not
\* choking us, writes the REQUEST, and the request is recorded in
\* activeRequests ...
RequestBlockSend ==
    LET k == Head(coord.todo)
    IN /\ coord.pc = "send"
       /\ ~session[coord.peer].peerChoking
       /\ toPeer' = [toPeer EXCEPT ![coord.peer] =
                       Append(@, [type |-> "request", piece |-> k[1], block |-> k[2]])]
       /\ active' = [active EXCEPT ![k] = coord.peer]
       /\ coord' = [coord EXCEPT !.pc = "rlock", !.left = @ - 1]
       /\ UNCHANGED <<cycle, progress, storeVars, session, remote, fromPeer, inbox, drops,
                      handling, timeouts, chokes>>

\* ... or RequestPiece finds that a CHOKE has arrived since CanDownload and
\* returns an error: the loop continues with the next block.
RequestBlockSkip ==
    /\ coord.pc = "send"
    /\ session[coord.peer].peerChoking
    /\ coord' = LoopNext
    /\ UNCHANGED <<cycle, progress, storeVars, netVars, active, handling, timeouts, chokes>>

\* ... then RequestBlock: m.mu.RLock (behind a waiting
\* MarkPieceVerified) ...
RequestBlockRLock ==
    /\ coord.pc = "rlock"
    /\ ~PS!ManagerLocked
    /\ coord' = [coord EXCEPT !.pc = "lock"]
    /\ UNCHANGED <<cycle, progress, storeVars, netVars, active, handling, timeouts, chokes>>

\* ... then piece.mu.Lock, granted once no reader holds the piece; the
\* block's RequestedAt is set and both locks are released.  While the
\* coordinator waits here it holds m.mu's read lock and c.mu, and new
\* RLocks of the piece queue behind it.
RequestBlockLock ==
    /\ coord.pc = "lock"
    /\ PS!Readers(Head(coord.todo)[1]) = {}
    /\ coord' = LoopNext
    /\ UNCHANGED <<cycle, progress, storeVars, netVars, active, handling, timeouts, chokes>>

\* The positions of queue q holding a REQUEST or a PIECE for block k.
Carrying(q, k) ==
    {i \in DOMAIN q : q[i].type \in {"request", "piece"} /\ <<q[i].piece, q[i].block>> = k}

\* Every copy of a request for block k still on its way: a REQUEST waiting
\* to be sent or served, a PIECE on the wire or in receiveCh, and the PIECE
\* the messageLoop is handling.
InFlight(k) ==
    UNION {{<<"toPeer", r, i>> : i \in Carrying(toPeer[r], k)} : r \in Peers}
    \cup UNION {{<<"fromPeer", r, i>> : i \in Carrying(fromPeer[r], k)} : r \in Peers}
    \cup UNION {{<<"inbox", r, i>> : i \in Carrying(inbox[r], k)} : r \in Peers}
    \cup (IF handling.busy /\ handling.key = k THEN {<<"handling", NoPeer, 0>>} ELSE {})

\* Nothing for block k is on its way and the coordinator is not about to
\* send it: the entry for k will never be answered.
Lost(k) ==
    /\ active[k] # NoPeer
    /\ ~(coord.pc # "idle" /\ k \in Range(coord.todo))
    /\ InFlight(k) = {}

\* The entry for k is lost and requestTimeout has passed since: everything
\* its peer sent before has been read by receiveLoop.
Overdue(k) == Lost(k) /\ fromPeer[active[k]] = <<>>

\* cleanupTimedOutRequests: an entry older than requestTimeout is deleted;
\* the request itself stays with the peer. A peer in TimelyPeers answers,
\* and delivers whatever else it sent, before that, so only an entry whose
\* answer is lost ages out.
Timeout(k) ==
    /\ coord.pc = "idle"
    /\ active[k] # NoPeer
    /\ active[k] \notin TimelyPeers \/ Overdue(k)
    /\ timeouts < MaxTimeouts
    /\ active' = [active EXCEPT ![k] = NoPeer]
    /\ timeouts' = timeouts + 1
    /\ UNCHANGED <<coordVars, storeVars, netVars, handling, chokes>>

\* processDownloadCycle's start on a tick: GetConnectedPeers, then
\* GetNeededPieces; with nothing needed the cycle returns at once, before
\* updateProgress.
CycleStart ==
    /\ coord.pc = "idle"
    /\ ~cycle
    /\ Needed # {}
    /\ cycle' = TRUE
    /\ UNCHANGED <<storeVars, netVars, active, handling, timeouts, chokes, progress, coord>>

\* Manager.GetProgressCounts under m.mu's read lock: the pieces whose
\* State is Verified (read without the piece's lock), and their number.
GetProgressCounts ==
    [downloaded |-> Cardinality({p \in Pieces : state[p] = "verified"}),
     total |-> Cardinality(Pieces)]

\* The cycle's last call, updateProgress: GetProgressCounts under m.mu's
\* read lock (the pieces whose State is Verified, and their number), then
\* both stored under c.mu.
UpdateProgress ==
    /\ coord.pc = "idle"
    /\ cycle
    /\ ~PS!ManagerLocked
    /\ progress' = GetProgressCounts
    /\ cycle' = FALSE
    /\ UNCHANGED <<storeVars, netVars, active, handling, timeouts, chokes, coord>>

\* Coordinator.IsDownloadComplete: downloaded == total && total > 0, from
\* the counters updateProgress stored.
IsDownloadComplete == progress.downloaded = progress.total /\ progress.total > 0

-----------------------------------------------------------------------------
(* The remote peer r, an honest BEP 3 peer: it answers a REQUEST with the  *)
(* block while it is not choking us and holds the piece, and drops it     *)
(* otherwise; it unchokes a peer that is interested; it may choke us; it   *)
(* may obtain further pieces and announces each with HAVE.                 *)

RemoteServe(r) ==
    LET m == Head(toPeer[r])
    IN /\ toPeer[r] # <<>>
       /\ toPeer' = [toPeer EXCEPT ![r] = Tail(@)]
       /\ \/ /\ m.type = "interested"
             /\ remote' = [remote EXCEPT ![r].interested = TRUE]
             /\ UNCHANGED fromPeer
          \/ /\ m.type = "notInterested"
             /\ remote' = [remote EXCEPT ![r].interested = FALSE]
             /\ UNCHANGED fromPeer
          \/ /\ m.type = "request"
             /\ ~remote[r].choking /\ m.piece \in remote[r].has
             /\ \E d \in IF r \in Corrupt THEN PS!Data ELSE {"good"} :
                  fromPeer' = [fromPeer EXCEPT ![r] = Append(@,
                                 [type |-> "piece", piece |-> m.piece, block |-> m.block,
                                  data |-> d])]
             /\ UNCHANGED remote
          \/ /\ m.type = "request"
             /\ remote[r].choking \/ m.piece \notin remote[r].has
             /\ UNCHANGED <<remote, fromPeer>>
       /\ UNCHANGED <<coordVars, storeVars, session, inbox, drops, active, handling, timeouts, chokes>>

RemoteUnchoke(r) ==
    /\ remote[r].choking /\ remote[r].interested
    /\ remote' = [remote EXCEPT ![r].choking = FALSE]
    /\ fromPeer' = [fromPeer EXCEPT ![r] = Append(@, [type |-> "unchoke"])]
    /\ UNCHANGED <<coordVars, storeVars, session, toPeer, inbox, drops, active, handling, timeouts, chokes>>

RemoteChoke(r) ==
    /\ ~remote[r].choking
    /\ chokes < MaxChokes
    /\ remote' = [remote EXCEPT ![r].choking = TRUE]
    /\ fromPeer' = [fromPeer EXCEPT ![r] = Append(@, [type |-> "choke"])]
    /\ chokes' = chokes + 1
    /\ UNCHANGED <<coordVars, storeVars, session, toPeer, inbox, drops, active, handling, timeouts>>

RemoteAcquire(r, p) ==
    /\ p \notin remote[r].has
    /\ remote' = [remote EXCEPT ![r].has = @ \cup {p}]
    /\ UNCHANGED <<coordVars, storeVars, session, toPeer, fromPeer, inbox, drops, active, handling,
                   timeouts, chokes>>

RemoteHave(r, p) ==
    /\ p \in remote[r].has \ remote[r].announced
    /\ remote' = [remote EXCEPT ![r].announced = @ \cup {p}]
    /\ fromPeer' = [fromPeer EXCEPT ![r] = Append(@, [type |-> "have", piece |-> p])]
    /\ UNCHANGED <<coordVars, storeVars, session, toPeer, inbox, drops, active, handling, timeouts, chokes>>

-----------------------------------------------------------------------------
\* The piece store's own goroutines.
LoopStep ==
    /\ PS!LoopStep
    /\ ml.pc = "isComplete" => ~CoordPendingWriter(ml.piece)
    /\ UNCHANGED <<coordVars, netVars, active, handling, timeouts, chokes>>
WorkerStep(w) ==
    /\ PS!WorkerStep(w)
    /\ verifier[w].pc \in {"getData", "getDataInner"} => ~CoordPendingWriter(verifier[w].piece)
    /\ verifier[w].pc = "lockMgr" => ~CoordReadsManager
    /\ UNCHANGED <<coordVars, netVars, active, handling, timeouts, chokes>>

Next ==
    \/ LoopStep
    \/ \E w \in PS!WorkerIds : WorkerStep(w)
    \/ HandlePieceReceived
    \/ \E k \in Keys : Timeout(k)
    \/ CycleStart \/ UpdateProgress
    \/ RequestBlockSend \/ RequestBlockSkip \/ RequestBlockRLock \/ RequestBlockLock
    \/ \E r \in Peers :
          \/ ReceiveMessage(r) \/ HandlePieceData(r)
          \/ EnsureInterested(r) \/ RequestPieces(r)
          \/ RemoteServe(r) \/ RemoteUnchoke(r) \/ RemoteChoke(r)
          \/ \E p \in Pieces : RemoteAcquire(r, p) \/ RemoteHave(r, p)

\* Goroutines of this process run (strong fairness where a step waits for a
\* lock or for the messageLoop, which is busy intermittently); the
\* coordinator's 500 ms ticker retries every cycle. The remote peers are
\* honest: they read what we send, unchoke an interested peer and announce
\* what they obtain. Chokes and drops are bounded and never forced; a
\* timeout is forced only for an entry whose answer is lost, which the
\* 10 s cleanup ticker evicts once it is older than requestTimeout.
Fairness ==
    /\ SF_vars(LoopStep)
    /\ \A w \in PS!WorkerIds : SF_vars(WorkerStep(w))
    /\ WF_vars(HandlePieceReceived)
    /\ WF_vars(CycleStart) /\ SF_vars(UpdateProgress)
    /\ WF_vars(RequestBlockSend) /\ WF_vars(RequestBlockSkip) /\ SF_vars(RequestBlockRLock) /\ SF_vars(RequestBlockLock)
    /\ WF_vars(\E k \in Keys : Timeout(k) /\ Overdue(k))
    /\ \A r \in Peers :
          /\ WF_vars(ReceiveMessage(r)) /\ SF_vars(HandlePieceData(r))
          /\ WF_vars(EnsureInterested(r)) /\ SF_vars(RequestPieces(r))
          /\ WF_vars(RemoteServe(r)) /\ WF_vars(RemoteUnchoke(r))
          /\ \A p \in Pieces : WF_vars(RemoteAcquire(r, p)) /\ WF_vars(RemoteHave(r, p))

Spec == Init /\ [][Next]_vars /\ Fairness

-----------------------------------------------------------------------------
(* Properties.                                                             *)

Messages == [type : {"choke", "unchoke"}] \cup [type : {"have"}, piece : Pieces]
            \cup [type : {"bitfield"}, pieces : SUBSET Pieces]
            \cup [type : {"piece"}, piece : Pieces, block : Blocks, data : PS!Data]
Requests == [type : {"interested", "notInterested"}]
            \cup [type : {"request"}, piece : Pieces, block : Blocks]

TypeOK ==
    /\ PS!TypeOK
    /\ session \in [Peers -> [peerChoking : BOOLEAN, amInterested : BOOLEAN,
                              hasBitfield : BOOLEAN, have : SUBSET Pieces]]
    /\ remote \in [Peers -> [has : SUBSET Pieces, announced : SUBSET Pieces,
                             choking : BOOLEAN, interested : BOOLEAN]]
    /\ toPeer \in [Peers -> Seq(Requests)]
    /\ fromPeer \in [Peers -> Seq(Messages)]
    /\ inbox \in [Peers -> Seq([type : {"piece"}, piece : Pieces, block : Blocks,
                                 data : PS!Data])]
    /\ active \in [Keys -> Peers \cup {NoPeer}]
    /\ handling \in [busy : BOOLEAN, key : Keys]
    /\ timeouts \in 0..MaxTimeouts /\ chokes \in 0..MaxChokes
    /\ cycle \in BOOLEAN
    /\ progress \in [downloaded : 0..Cardinality(Pieces), total : {0, Cardinality(Pieces)}]
    /\ coord \in [pc : {"idle", "send", "rlock", "lock"}, peer : Peers \cup {NoPeer},
                  todo : Seq(Keys), left : 0..MaxRequestsPerPeer]
    /\ drops \in 0..MaxDrops

\* Spec 8.3: the coordinator never holds an outstanding request to a peer
\* that is choking us. handleMessage only sets PeerChoking on CHOKE; the
\* Coordinator's activeRequests keep the entries until a PIECE or the
\* timeout removes them.
NoRequestToChokingPeer ==
    \A k \in Keys : active[k] # NoPeer => ~session[active[k]].peerChoking

\* Spec 8.9: with honest peers that hold every piece and stay connected,
\* the download completes: every piece becomes Verified.
Termination == <>(Needed = {})

\* The coordinator's per-peer budget: activeRequests never names more than
\* maxRequestsPerPeer requests to one peer. requestPiecesFromPeer counts the
\* peer's entries, then adds at most the difference, skipping blocks already
\* requested, while HandlePieceReceived and the timeout delete entries
\* concurrently.
PerPeerBudget == \A r \in Peers : Cardinality(ActiveFor(r)) <= MaxRequestsPerPeer

\* An outstanding request never names a block the piece store already holds,
\* once the messageLoop has finished the PIECE it is handling: a block is
\* requested only while its Data is nil, and the PIECE that fills it deletes
\* the entry for its (piece, begin), also after a timeout moved the request
\* to another peer or a late duplicate arrived.
NoWastedRequest ==
    ~handling.busy =>
        \A k \in Keys : active[k] # NoPeer => blockData[k[1]][k[2]] = PS!Nil

\* Until cleanupTimedOutRequests has evicted an entry, no block is asked for
\* twice at once: at most one REQUEST or PIECE for it is on its way.  The
\* coordinator requests a block only while it has no activeRequests entry,
\* across peers and across the cycles that run while the answer travels,
\* and the entry goes only when the PIECE has been handled.
NoDuplicateRequest ==
    timeouts = 0 => \A k \in Keys : Cardinality(InFlight(k)) <= 1

\* Spec 4.6: once every piece is Verified the coordinator signals done:
\* IsDownloadComplete becomes true.  processDownloadCycle stores the counts
\* only at the end of a cycle that found pieces needed.
CompletionSignalled == (Needed = {}) ~> IsDownloadComplete

\* A verifier sits between GetData's two read locks of a piece while a
\* Lock() of that piece waits: SetBlockData or ResetPiece or
\* MarkPieceVerified in the store, or the coordinator's RequestBlock.
\* Neither side can move again.
GetDataDeadlock ==
    \E w \in PS!WorkerIds :
        /\ verifier[w].pc = "getDataInner"
        /\ PS!PendingWriter(verifier[w].piece) \/ CoordPendingWriter(verifier[w].piece)

\* With honest peers that answer in time, the download completes unless
\* Piece.GetData's nested RLock deadlocks against a writer: a REQUEST a
\* choking peer discarded, or a PIECE receiveLoop dropped, is evicted by
\* cleanupTimedOutRequests and requested again, and the request loop, the
\* sessions, the messageLoop and the verifiers wait on nothing else forever.
TerminatesUnlessGetDataDeadlock == <>(Needed = {} \/ GetDataDeadlock)

====
