# TLA+ models of the BitTorrent client

This directory holds TLA+ specifications of the client in `src/`. They cover
the concurrent core: the piece store with its verifying goroutines, the peer
sessions, the peer manager's registry and message loop, and the download
coordinator. They also cover the pure code the core is built on: the piece
selection strategies, the handshake codec, metainfo parsing and layout, and
the tracker's peer lists.
Each module is translated from the Go source. The lines each definition
models are listed under `"map"` in `PROJECT.json`. TLC checks the models
under the configurations (`*.cfg`) listed under `"runs"`.

## 1. The system

### Components, their state and operations

| Component | Source | State | Operations that change state |
|---|---|---|---|
| Piece store | `internal/piece/manager.go` | per piece: `State` (Missing/Requested/Downloaded/Verified), block `Data` slots, a `sync.RWMutex`; per manager: `bitfield`, `stats.VerifiedPieces`, an `RWMutex` `m.mu` | `AddBlockData`, `verifyAndStorePiece` (a goroutine per completed piece), `MarkPieceVerified`, `RequestBlock` |
| Disk backend | `internal/piece/strategy_test.go` lines 781-1117 (the `disk` package) | open files, piece hashes | `WritePiece`, `writeMultiFile`, `VerifyPiece` (pure), `ReadPiece`, `Close` |
| Piece selector | `internal/piece/strategy.go` | only Random's RNG and the rarity map (peer bitfields) | `SelectPiece` of Sequential (the default), Random, RarestFirst, EndGame, Smart, Priority |
| Peer session | `internal/peer/peer.go` lines 1-460 | `PeerState` (am/peer choking/interested), the remote `bitfield` (nil until BITFIELD), `sendCh` and `receiveCh` (capacity 100) | `receiveLoop` with `handleMessage`, `sendLoop`, `Interested`/`NotInterested`, `EnsureInterested`, `RequestPiece`, `Stop` |
| Peer pool | `internal/peer/peer.go` lines 460-1081 | `peers` map by address, `incomingMessages` (capacity 1000) | `connectToPeer`, `addPeer`, `removePeer`, `handlePeer`, `messageLoop` with `handlePieceData`, `cleanup`, `Stop` |
| Download coordinator | `internal/download/coordinator.go` | `activeRequests`: key `"piece:begin"` to (peer, time) | `processDownloadCycle` (every 500 ms), `requestPiecesFromPeer`, `cleanupTimedOutRequests` (every 10 s, 15 s timeout), `HandlePieceReceived` |
| Handshake | `internal/peer/handshake.go` lines 1-280 | none across calls | `DoHandshake` (Write, then Read), `ParseExtensions`, called by `Peer.Start` |
| Torrent metainfo | `internal/torrent/torrent.go` | the parsed `Torrent`, immutable | `Parse` with `Validate`; queries `TotalLength`, `NumPieces`, `PieceHash`, `PieceSize`, `GetFiles` |
| Tracker client | `internal/tracker/tracker.go` | none across calls | `Announce` (one HTTP GET), `parseResponse`, `CompactPeersToBytes` |
| Demo programs | `cmd/download-simulation/main.go`, `cmd/integration-test/main.go` | locals of `main` | the simulation feeds piece 0's blocks to `AddBlockData`, then calls `IsComplete`, `GetData`, `GetStatistics`, `ReadPiece`, `ReadBlockFromDisk` while the verifier it spawned runs |
| Message codec, bencode | `internal/bencode/bencode_test.go` (the `peer` messages and `bencode` packages) | none across calls | pure conversions |

### How they interact

A remote peer's message travels this path:

1. It is read by that session's `receiveLoop`.
2. `handleMessage` applies the control messages (CHOKE, UNCHOKE, HAVE, BITFIELD) to the session under `p.mu`.
3. A PIECE goes on through `receiveCh`, the pool's `handlePeer` goroutine and the shared `incomingMessages` channel.
4. It reaches the single `messageLoop` goroutine.
5. There `handlePieceData` calls `AddBlockData`. When the piece becomes complete, `AddBlockData` spawns `go verifyAndStorePiece`.
6. `handlePieceData` then calls the coordinator's `HandlePieceReceived`.
7. Each verifier takes the piece data (`GetData`) and checks the hash. On a mismatch it resets the piece. Otherwise it writes the piece to disk and calls `MarkPieceVerified`, which sets the state, the bitfield bit and the counter.

The coordinator runs on its own ticker:
- it reads the store's needed pieces;
- it sends INTERESTED or NOT_INTERESTED through the sessions;
- it selects a piece per peer with the strategy and issues REQUESTs up to 10 per peer;
- it records each request in `activeRequests`.

A second ticker evicts entries older than 15 s.

### The hard behaviours

- Goroutines share the piece locks: the message loop, any number of verifiers, and the coordinator (`GetBlockRequests`, `RequestBlock`). Go's `RWMutex` blocks a new `RLock` while a writer waits, and `GetData` read-locks twice.
- Duplicate and late blocks are real. The coordinator re-issues a timed-out request while the first is still queued at the peer. `HandlePieceReceived` keys by (piece, begin) and ignores the sender.
- Remote peers choke, unchoke and announce pieces at any time. The session's state and the coordinator's map are updated by different goroutines.
- A disk write may fail inside a goroutine that reports to no one.
- Wire input is untrusted: a piece index from a peer reaches `m.pieces[i]` unchecked.

### The properties that make each component correct

- **Piece store:**
  - a bitfield bit is set iff the piece is Verified (spec 8.1);
  - a piece we advertise has verified bytes on disk (spec 8.2);
  - `IsComplete` means every piece is Verified;
  - a Downloaded piece is eventually Verified or reset;
  - `AddBlockData` always returns;
  - no input from a peer panics the process.
- **Coordinator:**
  - at most one outstanding request per block (spec 8.4, true by the map's keys);
  - at most `maxRequestsPerPeer` per peer;
  - no outstanding request to a choking peer (spec 8.3);
  - no outstanding request for a block already held;
  - an entry for a peer that left is dropped (spec 4.6).
- **Whole download:** with an honest peer that holds every piece and stays connected, the download completes (spec 8.9).
- **Peer pool:** at most `maxPeers` sessions, one per address; every live session is registered; `Stop` never panics.
- **Selector:** each strategy returns a piece the peer has that is not Verified, and returns nil only when there is none; rarest-first returns a piece of least rarity. `peerHasPiece` reads the bitfield as BEP 3 lays it out.
- **Handshake:** a session starts exactly when the peer's first 68 bytes are a well-formed handshake for our torrent. The bytes after it are left for the message loop. The round trip holds (spec 8.5).
- **Metainfo:** the piece sizes tile the total length, and the files lie back to back over it (spec 4.2).
- **Tracker:** both peer-list formats give the same peers (spec 6).
- **Codecs:** bencode decode after encode is the identity (spec 8.6), and every wire message reads back as written (spec 8.7).

## 2. Modules

| Module | Models | State (variables) | Actions |
|---|---|---|---|
| `PieceStore` | `piece.Manager.AddBlockData`, `Piece.SetBlockData`/`GetData`/`IsComplete`, `verifyAndStorePiece`, `MarkPieceVerified`, the disk's `VerifyPiece` and the outcome of `WritePiece` | `state`, `blockData`, `bitfield`, `verifiedPieces`, `disk`, `ml` (the messageLoop inside AddBlockData: `pc`, piece, block, payload), `verifier` (one record per spawned goroutine, indexed by the delivery that spawned it), `deliveries`, `panicked` | `AddBlockData`, `SetBlockData`, `CheckComplete`, `MarkDownloaded` (messageLoop); `VerifyStart`, `GetDataLock`, `GetDataRead`, `ResetPiece`, `WritePiece`, `MarkLock`, `MarkPieceVerified` (a verifier) |
| `Download` | the coordinator, our side of each session, the messageLoop's `handlePieceData`, honest remote peers; composes `PieceStore` by `INSTANCE` over the same variables | PieceStore's, plus `session`, `remote`, `toPeer`, `fromPeer`, `inbox`, `active`, `handling`, `timeouts`, `chokes`, `cycle`, `drops` (PIECEs receiveLoop dropped), `progress` (the coordinator's stored counters), `coord` (where the coordinator is in `requestPiecesFromPeer`'s loop, with the blocks still to request) | `ReceiveMessage` (receiveLoop + handleMessage + forward), `HandlePieceData`, `HandlePieceReceived`, `EnsureInterested`, `RequestPieces`, `RequestBlockSend`, `RequestBlockSkip`, `RequestBlockRLock`, `RequestBlockLock`, `Timeout` (guarded by `Overdue` for timely peers), `CycleStart` and `UpdateProgress` (the start and end of `processDownloadCycle`); the remote peer's `RemoteServe`, `RemoteUnchoke`, `RemoteChoke`, `RemoteAcquire`, `RemoteHave`; PieceStore's steps |
| `PeerPool` | `peer.Manager`'s registry: `ConnectToPeers`, `connectToPeer`, `hasPeer`, `addPeer`, `handlePeer`, `removePeer`, `cleanup`, `Stop`, and `Peer.Stop` | `peers` (address to session), `conn` and `hp` (program counters of each session's connectToPeer and handlePeer goroutines), `started`, `cancelled` (`p.ctx` done), `closed` (`p.conn` closed), `mgr` (progress of `Manager.Stop`), `panicked` | `ConnectToPeers`, `HasPeer`, `DialAndStart`, `AddPeer` (connectToPeer); `SessionEnd` (send or receive loop returns); `HandlePeerCheck`, `HandlePeerReceive`, `HandlePeerReceiveDone`, `HandlePeerForward` (handlePeer); `Cleanup`; `StopCancel`, `StopPeers`, `StopClose` |
| `PieceStoreSpec` | the piece store's promise (spec 4.1, 8.2), not code | `advertised`, `stored` | `Persist`, `Advertise` |
| `Selector` | every strategy of `strategy.go` and `peerHasPiece`, as operators | constant-level | |
| `Handshake` | `NewHandshake`, `Serialize`, `Write`, `Read`, `DoHandshake`, `ParseExtensions`, `SetExtensions`, `UnmarshalBinary` | constant-level | |
| `Bencoded` | decoded bencode values tagged with their Go type, and the type assertion `v.(T)` | constant-level | |
| `Bencode` | the `Decoder` (`readByte` with its push-back buffer, `peekByte`, `readUntil`, `decode` and its four forms) into the `map[string]interface{}` and `interface{}` targets the callers use, and the `Encoder` | constant-level | |
| `Messages` | `Serialize`, `ReadMessage`, `WriteMessage`, the constructors and `Parse` methods, `IsValid`, `MessageLength`, over bytes | constant-level | |
| `Metainfo` | `Parse`, `Validate`, `TotalLength`, `NumPieces`, `PieceHash`, `PieceSize`, `GetFiles` | constant-level | |
| `Tracker` | `Announce`'s outcome, `parseResponse`, `parseCompactPeers`, `parseDictPeers`, `CompactPeersToBytes` | constant-level | |
| `Simulation` | `cmd/download-simulation/main.go` from the parsed torrent on; composes `PieceStore` by `INSTANCE` over the same variables | PieceStore's, plus `fakeData` (per block: whether its fake bytes are the real ones) and `main` (program counter, blocks left, the report printed, what the reads returned) | `MainAddBlock`, `MainIsComplete`, `MainGetDataLock`, `MainGetDataRead`, `MainStats`, `MainReadPiece`, `MainReadBlock`; PieceStore's steps as `AddBlockDataStep` and `VerifierStep` |
| `Disk` | the disk manager's `Initialize`, `createFile`, `WritePiece`, `writeMultiFile`, `ReadPiece`, `readMultiFile`, `ReadBlock`, as operators over the files' bytes | constant-level | |
| `PieceLayout` | `NewManager`, `NewPiece` and the queries made before any block arrives (`GetNextPiece`, `GetNextBlocks`, `GetStatistics`, `GetProgress`, `GetMissingPieces`), with real byte lengths | constant-level | |
| `IntegrationTest` | `cmd/integration-test/main.go` from the parsed torrent on, as the operator `Run` | constant-level | |
| `MCFormats` | one call of the pure code per behaviour | `case` (the input), `called`, `out` (what the call returned) | `DecodeBitfield`, `SelectPieces`, `SelectByPriority`, `Handshaking`, `Parsing`, `Announcing`, `StoringPieces`, `IntegrationTesting`, `Coding`, `Framing` |
| `MCPieceStore`, `MCDownload`, `MCPeerPool`, `MCSimulation` | constants for TLC | | |

### How the code maps onto the models

**Locks.** A piece's lock is not a variable. It is derived from the goroutines' program counters:
- `Readers(p)` are the verifiers inside `GetData` holding the outer `RLock`;
- `PendingWriter(p)` holds when a goroutine waits in `Lock()` (SetBlockData, the Downloaded update, the reset, MarkPieceVerified);
- an `RLock` step is enabled only without a pending writer (Go's writer preference);
- a `Lock` step is enabled only without readers.

`ManagerLocked` is MarkPieceVerified holding `m.mu` while it waits for the piece.

**Payloads.** A block is `"good"` (the bytes that hash to the piece hash) or `"bad"`. `VerifyPiece` is "all blocks good". `disk[p]` records whether the last successful `WritePiece` wrote good bytes.

**Channels.** `toPeer[r]` is `sendCh`, sendLoop and TCP, which together are one FIFO. `fromPeer[r]` is TCP from the peer. `inbox[r]` is `receiveCh`, handlePeer and `incomingMessages`: a FIFO per peer, which the single messageLoop merges in any order.

**The coordinator.** `RequestPieces(r)` starts a call of `requestPiecesFromPeer` under `c.mu`, preceded by processDownloadCycle's guards (something needed, `CanDownload`). Its steps:
1. It counts the peer's entries.
2. It selects sequentially.
3. It takes the missing blocks without an `activeRequests` entry (`NotRequested`), in offset order, and the remaining budget (`BudgetLeft`, the code's `requestsToMake`).

Its lock conditions are those of `GetBlockRequests` on the piece and the `RLock` of `m.mu`. The loop then runs a block at a time, as the code does: `RequestBlockSend` writes the REQUEST and records the entry, or `RequestBlockSkip` takes `RequestPiece`'s error path when a CHOKE has arrived since `CanDownload` (the loop `continue`s without recording or counting it); `LoopNext` breaks once the budget is used or the blocks run out; `RequestBlockRLock` is `RequestBlock`'s `m.mu.RLock()` and `RequestBlockLock` its `piece.mu.Lock()`. The coordinator holds `c.mu` until the last block, so every other step that needs `c.mu` or the coordinator goroutine (`HandlePieceReceived`, the timeout loop, the cycle's start and end, `EnsureInterested`) waits for `coord.pc = "idle"`. While it waits in `Lock()`, new `RLock`s of the piece wait too (`CoordPendingWriter`), and while it holds `m.mu`'s read lock `MarkPieceVerified` cannot take it. `SendMessage`'s own failure (a `sendCh` full for 5 s) is not modelled; see below.

**Remote peers.** They are the environment, not code of this repository, and are honest BEP 3 peers:
- a peer holding pieces sends BITFIELD first;
- one holding none skips it;
- a peer answers a REQUEST while it does not choke us and has the piece, and drops it otherwise;
- it unchokes an interested peer;
- it may choke us (bounded by `MaxChokes`);
- it obtains pieces and announces each by HAVE.

A peer in `Corrupt` may answer a REQUEST with bad bytes, which fail the hash check; the other peers always send the right bytes.

**Lost answers.** A peer that chokes us discards the REQUESTs it holds. receiveLoop's `select` has a `default` case: a PIECE meeting a full `receiveCh` is dropped. `ReceiveMessage` may take that branch for a non-control message up to `MaxDrops` times (`drops` counts them). A peer in `TimelyPeers` answers within `requestTimeout`, so its entries are evicted by `Timeout` only when they are `Overdue`: the answer is `Lost` (no REQUEST or PIECE for the block, its `InFlight` copies, is still queued anywhere and no handler holds it) and everything the peer sent before has been read. For the other peers a timeout may race a late answer, as the code allows.

**The peer pool.** Each method that holds `m.mu` is one atomic action: `hasPeer`, `addPeer`, `removePeer`, `cleanup`, and the loop of `Stop`. The steps between them are separate actions, so they interleave with the other goroutines:
- `ConnectToPeers` reads the count before the goroutine runs;
- the dial and handshake happen between `hasPeer` and `addPeer`;
- `Stop` cancels, then stops the peers, then closes the channels.

`RemovePeer(s)` is the code's `delete(m.peers, addr)`: it clears the address, whichever session is stored there. Messages are abstracted to whether `handlePeer` holds one. `incomingMessages` is buffered (1000) and drained by `messageLoop`, so only its being closed matters. A session is a connection attempt with a fixed address (`SessionAddr`).

**The refinement.** `PieceStore` defines `Abs == INSTANCE PieceStoreSpec WITH advertised <- bitfield, stored <- disk`, and `StoreRefinesSpec == Abs!Spec` is a property of `store_safety`. Every step of the detailed model must therefore do one of three things: leave the bitfield and the disk alone, write a piece's verified bytes, or set the bit of a piece already good on disk. `MarkPieceVerified` of a piece whose bit is already set is a stuttering step.

**The demo program.** `main`'s calls into the piece manager are PieceStore's own actions, with the program counter of `main` added. `main` is the goroutine inside `AddBlockData` (PieceStore's `ml`); the verifier goroutine it spawns runs concurrently until `main` returns, when the process ends. `GetData`'s outer `RLock` held by `main` (`MainReads`) blocks the verifier's write lock, as `Readers` does for verifiers. The fake bytes `(begin + j) % 256` are abstracted per block to whether they are the piece's real bytes there.

**The pure code.** `MCFormats` has one initial state per input. The one step from it is an action that calls the code, such as `Sel!SelectSmart`, `HS!DoHandshake` or `MI!Parse`, and records the result in `out`. The properties compare that result with a reference taken from BEP 3 or the spec, never with the code's own definition. Three abstractions are used:
- **Byte strings** keep their real widths (a 68-byte handshake, 20-byte hashes, the 6-byte compact peers) and are sequences of integers.
- **A SHA-1 hash, a path component and an IP's text** are tokens. The text of an IP is a record giving the form and the address it spells, and `net.ParseIP` maps it to the address bytes.
- **A decoded bencode value** is tagged with its Go type (`Bencoded`), so that `x.(int64)` failing on a missing key or on another type is modelled as in the code. Parse and the tracker take their input already decoded; the bencode decoder itself is not part of these modules.

**Files.** `Disk` keeps the files as a function from path to bytes. A byte of the content is its offset plus one, so any misplaced byte shows, and `Zero` is what `Truncate` allocates. `writeMultiFile`'s loop is `WriteSpans`, which returns the (file, start, slice) writes in order; `ApplyWrites` performs them.

A strategy that draws a random number or sorts with the unstable `sort.Slice` returns the set of pieces the code may return.

## 3. Runs

| Run | Cfg | Expect | Checks | Bounds |
|---|---|---|---|---|
| store_safety | `PieceStore.cfg` | pass | `TypeOK`, `StoreRefinesSpec` | 2 pieces of 2 blocks, 5 deliveries of good or bad blocks, failing writes allowed |
| store_bitfield | `PieceStoreBitfield.cfg` | violation | `BitfieldMatchesState` | as above, writes never fail |
| store_stuck | `PieceStoreStuck.cfg` | violation | `DownloadedResolves` | 2 deliveries, failing writes |
| download_happy | `DownloadHappy.cfg` | pass | `TypeOK`, `TerminatesUnlessGetDataDeadlock` | 1 timely peer with piece 0 that obtains piece 1 and sends HAVE, 2 pieces of 1 block, budget 1, 1 choke, 1 dropped PIECE, 2 timeouts |
| download_safety | `DownloadSafety.cfg` | pass | `PerPeerBudget`, `NoWastedRequest`, `NoDuplicateRequest` | r1 and r2 seed the piece, r2 may send bad bytes; 1 piece of 2 blocks; budget 1; 1 timeout; no chokes |
| download_choke | `DownloadChoke.cfg` | violation | `NoRequestToChokingPeer` | 2 seeders, 1 choke |
| download_deadlock | `DownloadDeadlock.cfg` | violation | `Termination` | 2 seeders, 2 pieces of 1 block, budget 2, 1 timeout |
| pool_safety | `PeerPool.cfg` | pass | `PeerCap`, `EndedSessionRemoved` | 3 attempts (two to address a1, one to a2), `maxPeers` 1 |
| pool_orphan | `PeerPoolOrphan.cfg` | violation | `LiveSessionRegistered` | as above |
| pool_stop_panic | `PeerPoolStopPanic.cfg` | violation | `NoPanic` | as above |
| simulation | `Simulation.cfg` | pass | `StoredReportSound`, `IncompleteReportSound` | piece 0 of 3 blocks, each fake block good or bad, reads may fail |
| formats | `Formats.cfg` | pass | `BitfieldDecoding`, `SelectionSound`, `RarestFirstIsRarest`, `HandshakeAccepted`, `MetainfoLayout`, `TrackerPeersAgree`, `DiskRoundTrip`, `BlocksTilePieces`, `IntegrationReport`, `BencodeRoundTrip`, `MessageRoundTrip` | about 56,700 inputs, listed below |

What the runs show:

- **store_safety.** Up to 5 blocks arrive in any order, with duplicates and bad payloads, at most 5 verifiers run, and writes may fail. Even so, the store implements `PieceStoreSpec`:
  - only verified bytes ever reach the disk;
  - no piece gets its bit without them (spec 8.2);
  - no bit is ever cleared and no write is undone.

  Each verifier writes exactly the bytes it hashed, under whatever interleaving with new blocks and resets.
- **store_bitfield.** A block arriving for a Verified piece (a duplicate) breaks spec 8.1: the piece goes back to Downloaded with its bit set. The same duplicate produces a second verification, which counts the piece twice. As a result, `CompletionReportSound` also fails: `Manager.IsComplete` is true while a piece is missing. To see it, run `PieceStore.cfg` with that property as the invariant. No run keeps it, because the runtime reads `GetProgressCounts`, which counts Verified states; only the demos and tests read the counter.
- **store_stuck.** After a `WritePiece` error the piece stays Downloaded forever. Spec 7 wants a fatal error instead.
- **download_happy.** The whole path (interest, unchoke, sequential requests within the budget, a HAVE after the BITFIELD, the store's verification) finishes the download in every behaviour except those in which `Piece.GetData` deadlocks against a writer of the same piece (`GetDataDeadlock`, see download_deadlock). Nothing else stops it. Two answers may be lost: the peer may choke us and discard the REQUESTs it holds, and receiveLoop may drop one PIECE on a full `receiveCh`. Each lost entry keeps the peer's budget spent until `cleanupTimedOutRequests` evicts it, and a later cycle requests the block again (after the peer unchokes us). Without the eviction's fairness, or with one timeout fewer, TLC finds the run stuck with an entry forever active, so the recovery is what the property checks. The run has one peer: with two, the liveness check does not finish in minutes.
- **download_safety.** Two peers serving the same piece, one of them corrupt (so the piece fails its hash check and is reset), a timeout (with its late duplicate, possibly from the other peer) and the concurrent verifiers are all in play. Under them the per-peer budget holds; once the messageLoop finishes a block no outstanding request names a block the store already holds; and until a timeout has evicted an entry, at most one REQUEST or PIECE for a block is on its way (`NoDuplicateRequest`): the two peers' request loops never ask for the same block. Chokes are left to download_happy and download_choke: with a choke here the run grows tenfold.
- **download_choke.** The coordinator holds requests to a choking peer (spec 8.3).
- **pool_safety.** Attempts race each other, cleanup and `Stop`. Dials and handshakes fail, and sessions end at any time. Even so, `addPeer`'s re-check keeps the registry within `maxPeers`, although every attempt passed `ConnectToPeers`'s stale count. Every ended session leaves the registry: through `cleanup` while the manager runs, and, once `Stop` has ended `cleanupLoop`, through `handlePeer`'s deferred `removePeer`.
- **pool_orphan.** In 12 steps:
  1. session s1 to a1 ends;
  2. `cleanup` deletes it;
  3. s2 to a1 connects and is registered;
  4. s1's `handlePeer` wakes and its `removePeer` deletes a1, which is s2.

  s2 keeps running unregistered: `GetPeers`, the cap, `hasPeer` and `Stop` no longer see it.
- **pool_stop_panic.** A `handlePeer` holds a message when `Stop` closes `incomingMessages`. Its select then picks the send case and panics.
- **simulation.** Over every interleaving of `main` with the verifier: when the demo prints "successfully verified and stored", the fake bytes were the piece and `ReadPiece`/`ReadBlockFromDisk` read them back (or failed), never the zeros of the unwritten file; it prints "not complete" or fails in `GetData` only when the bytes did not match and the verifier had reset the piece.
- **formats.** Every input below passes every check:
  - **BitfieldDecoding.** `peerHasPiece` agrees with BEP 3's bit order for every one-byte bitfield and for two-byte bitfields of edge bytes, at piece indices 0-16. Indices past the end and the empty bitfield count as not held.
  - **SelectionSound.** Each strategy (and each name `GetStrategyByName` knows) returns a piece we lack that the peer has, and returns nil only when no such piece exists. This answers the spec's open question (section 9): Smart does not return nil when sequential comes up empty, because it falls through to the end game or to rarest-first.
  - **RarestFirstIsRarest.** Rarest-first returns a piece held by the fewest known peers.
  - **HandshakeAccepted.** `DoHandshake` accepts exactly the streams that begin with a well-formed handshake for our info hash. It records the peer's id and the extension flags the peer set, and leaves the bytes that follow for `receiveLoop`. It rejects truncated streams, length bytes 0, 18 and 20, and a changed protocol-string byte. What we send is itself such a handshake, and `UnmarshalBinary` of it gives it back.
  - **MetainfoLayout.** For every torrent `Parse` accepts whose piece count is ceil(total / piece length), the piece sizes are in 1..piece length and the last is total - (N-1) * piece length. `PieceHash` gives the i-th hash and refuses -1 and N. `GetFiles` places the files back to back from 0 up to the total.
  - **DiskRoundTrip.** For every torrent `Parse` accepts whose piece count fits its length and whose files have distinct paths, `Initialize` then `WritePiece` of every piece (in index order or in reverse) leaves each file holding exactly its slice of the content laid end to end, `ReadPiece` returns every piece, and `ReadBlock` cuts a block at the piece's end. Pieces that straddle a file boundary, and pieces that start exactly at one, both occur.
  - **BlocksTilePieces.** The piece manager the demo programs build from a parsed torrent has one piece per hash, each of `PieceSize` bytes, cut into blocks of at most 16 KiB that lie back to back over the piece; its bitfield has a bit per piece and fewer than 8 spare bits.
  - **IntegrationReport.** The integration test's sequential strategy selects piece 0, its random strategy any of the first ten pieces (those of its mock bitfield), and both return nil for a torrent without pieces. `GetNextBlocks(p, 5)` gives at most five blocks, the first at offset 0 and at most 16 KiB long. The statistics, progress and missing count are those of a fresh manager, and `ReadPiece(0)` has bytes to hash unless there are no pieces.
  - **BencodeRoundTrip.** `Decode` of what `Encode` wrote gives the value back, into an `interface{}` and, for a dictionary, into the `map[string]interface{}` that `torrent.Parse` and the tracker use; it reads every byte written, and only a dictionary decodes into a map. Strings that hold `e`, `:` or a digit, lengths of two digits, negative integers, and keys that are prefixes of each other all occur.
  - **MessageRoundTrip.** For every constructor, `ReadMessage` of what `WriteMessage` put on a connection gives the message back, its `Parse` method gives the constructor's fields, a CHOKE written after it follows intact, and the frame is `MessageLength` bytes. Every cut of the frame fails to read.
  - **TrackerPeersAgree.** A reply in the compact form and one in the dictionary form (after an entry `parseDictPeers` must skip) give the same peers, address and port, in order. A 200 reply is always accepted. `CompactPeersToBytes` gives back the compact form and leaves out IPv6 peers.
- **download_deadlock.** Two honest seeders, and the download can hang (a trace of 22 states):
  1. the coordinator sends the REQUEST for a piece's last block;
  2. the answer arrives before `RequestBlock` runs, completes the piece and starts its verifier, which takes `GetData`'s first `RLock`;
  3. `RequestBlock` asks for the piece's `Lock()` and waits for that reader;
  4. the verifier's second `RLock` (in `IsComplete`) waits behind the pending writer.

  The coordinator hangs holding `c.mu` and `m.mu`'s read lock, and everything behind them hangs with it. A duplicate block after a timeout does the same through `SetBlockData`, and a second verifier of a reset piece through `ResetPiece`.

### Why the bounds are enough

- **Pieces and blocks.** Two pieces of two blocks give every distinction the code makes:
  - a piece complete or not;
  - a block held or missing;
  - two verifiers of the same piece;
  - one piece selected while another is needed;
  - a budget smaller than the blocks of a piece.
- **One block per piece** in download_happy and download_deadlock: the deadlock needs only a piece completed by one answer, and liveness checking with two blocks per piece takes minutes. The safety run keeps two blocks, of one piece: two peers can then hold requests for the same piece, and a budget of one is smaller than the piece. Two pieces of two blocks with two usable peers do not finish in 15 minutes; `SelectionSound` checks the choice between pieces.
- **Deliveries.** Five deliveries are enough to complete a piece, duplicate a block during its verification, and complete the other piece.
- **Drops and chokes.** One dropped PIECE and one choke in download_happy produce lost entries of both kinds; `MaxTimeouts = 2` evicts both, and TLC shows one timeout is not enough.
- **Timeouts and chokes.** In the Download runs `MaxDeliveries` is the number of blocks times (1 + timeouts). Every PIECE answers one request, and only a timeout or a failed hash check re-issues one. The bound never cuts a behaviour short except in download_safety after the corrupt peer's piece is reset, where it stops the re-download (the reset and what races it are reached first). One timeout is enough to produce the stale entry and the duplicate it causes.

- **Simulation.** Three blocks make the last `AddBlockData` the only one that completes the piece, and let the verifier's reset race `main`'s `IsComplete` and `GetData`; the fake data of each block is chosen independently, so matching and mismatching pieces, and mismatches in any block, are all explored.

- **Pool.** Three attempts over two addresses with a cap of one are enough for three things:
  - the cap rejecting a session at another address;
  - two sessions at one address, one after the other;
  - a third attempt racing them.

`CHECK_DEADLOCK FALSE` is set in every run. In `simulation` the normal end of `main` has no successor (the deadlock it does have is an observation below). Elsewhere it is because behaviours end when the delivery, timeout and choke budgets are used up. A finished download also stops: the coordinator idles with nothing needed. The liveness properties state what must still happen.

- **Formats.** Each input set covers every branch of the code it feeds:
  - **Selector:** 3 pieces in each of missing/downloaded/verified; peer bitfields of every pattern of the three high bits, with and without the spare bits set, empty, or one byte too long; up to two other peers' bitfields; priorities in {-1, 0, 1}. The Smart thresholds are scaled to 3 pieces (1, 2 and 1), so that all four of its branches are taken.
  - **Handshake:** two info hashes that differ only in the last byte, all 8 extension combinations, and a trailing frame or none. Mutations at the length byte, the first and the last protocol byte, and truncations at 0, 1, 20, 67 and 68 bytes.
  - **Metainfo:** piece lengths -1, 0, 2 and 3; 0-3 hashes with or without a partial one; an empty name; a single length from -1 to 6, or up to two file entries of every kind `Parse` distinguishes.
  - **Disk:** the torrents of the metainfo inputs that `Parse` accepts: single files of 4-6 bytes and one or two files of 2-3 bytes, pieces of 2 or 3 bytes, so pieces straddle a file boundary or start on one.
  - **Integration test:** single-file torrents with piece lengths of one block, one block and a byte, 40,000 bytes and 100,000 bytes (so that the limit of 5 blocks cuts); 0, 1, 2, 9, 10, 11 or 12 pieces (the mock peer holds the first 10, and 9 to 12 pieces span one or two bitfield bytes); a last piece of 1 byte, one block, a block and a byte or a whole piece, and a length past what the hashes cover.
  - **Bencode:** integers -12, -1, 0, 7 and 10; strings that are empty, `e`, `1:`, `ie`, and of 10 and 12 bytes; lists and dictionaries of up to two of these, keys `""`, `a`, `b`, `ab` and `1`, and nesting to depth three.
  - **Messages:** every constructor, with uint32 fields 0, 1, 255, 256, 65536 and 2^31-1 (TLC's integers stop there), PIECE blocks of 0, 1, 3 and 16384 bytes, and ports 0, 1, 6881 and 65535. Frames near `MaxMessageLength` (128 KiB) are left out: a byte sequence that long makes an error trace take minutes to print.
  - **Tracker:** up to two of four peers (two ports on one address, ports whose two bytes differ, an IPv6 peer); one of five kinds of skipped entry; HTTP 200 or 503.

### Fairness and why the code justifies it

- **Goroutines of this process** get strong fairness for each step: the messageLoop, each verifier, `HandlePieceData` per peer, and `RequestPieces` per peer. The reasons:
  - Go's scheduler runs every runnable goroutine;
  - `sync.Mutex`'s starvation mode hands a contended lock to a waiter that keeps asking;
  - `HandlePieceData` waits for the messageLoop, which is busy only intermittently;
  - the coordinator's 500 ms ticker retries `requestPiecesFromPeer` every cycle.
- **receiveLoop** steps (`ReceiveMessage`) and `HandlePieceReceived` get weak fairness. So does `CycleStart` (the 500 ms ticker), and so do the coordinator's REQUEST write and its error path (`RequestBlockSend`, `RequestBlockSkip`), which wait for nothing. `UpdateProgress` and `RequestBlock`'s two lock steps get strong fairness: they wait for locks, as the verifiers do.
- **Remote peers** get weak fairness for reading what we send, unchoking an interested peer, and obtaining and announcing pieces. This is the "honest peer" hypothesis of spec 8.9.
- **Peer pool.** Weak fairness goes to the goroutine steps that need nothing from outside: connectToPeer's steps, handlePeer's checks, its `ReceiveMessage` error return and its forwarding select, `cleanup` (a one-minute ticker), and the two later steps of `Stop`. No fairness goes to steps the environment decides: tracker peers handed over, a message arriving, a session failing, the caller calling `Stop`.
- **Eviction of an `Overdue` request** gets weak fairness: `coordinationLoop`'s 10 s ticker calls `cleanupTimedOutRequests`, and an entry whose answer was lost grows older than the 15 s `requestTimeout` and stays enabled until evicted.
- **Chokes, drops and other timeouts** are never forced. PIECE deliveries in `PieceStore` alone are up to the peers and get no fairness.

## 4. Mutants

Each property of a passing run is shown to fail when one mapped definition is replaced by a plausible bug. The replacement is the operator defined just before the definition:

| Property | Mutated definition | Bug |
|---|---|---|
| `StoreRefinesSpec` | `WritePiece` | writes the piece's blocks as they are now, not the verified bytes |
| `PieceStore.TypeOK` | `MarkPieceVerified` | the bitfield bit index is off by one |
| `TerminatesUnlessGetDataDeadlock` | `SelectSequential` | selects the lowest piece the peer has, Verified or not |
| `Download.TypeOK` | `isControlMessage` | misses HAVE, which is then forwarded to the messageLoop |
| `PerPeerBudget` | `requestsToMake` (`BudgetLeft`) | one request too many |
| `NoWastedRequest` | `GetBlockRequests` | drops the `Data == nil` test |
| `NoDuplicateRequest` | the request loop's skip (`NotRequested`) | drops the `activeRequests` check |
| `PeerCap` | `addPeer` | drops the `len(m.peers) >= m.maxPeers` check |
| `EndedSessionRemoved` | `removePeer` | deletes nothing |
| `BitfieldDecoding` | `peerHasPiece` | counts the bit from the low end of the byte |
| `SelectionSound` | the strategies' candidate filter | skips only pieces the peer lacks, not Verified ones |
| `RarestFirstIsRarest` | `RarestFirstStrategy.SelectPiece` | sorts by descending rarity |
| `HandshakeAccepted` | `Read` (its field extraction) | takes the reserved bytes one byte early |
| `MetainfoLayout` | `PieceSize` | drops the `lastPieceSize == 0` case |
| `TrackerPeersAgree` | `parseCompactPeers`' port | reads the port little-endian |
| `DiskRoundTrip` | `writeMultiFile`'s walk (`WriteSpans`) | skips a file only when the piece starts past its end, not at it |
| `BlocksTilePieces` | `NewPiece` | counts only whole blocks, `length / BlockSize` |
| `IntegrationReport` | the integration test's mock bitfield | sets the bits of pieces 0..10 |
| `BencodeRoundTrip` | `readByte` | takes the reader before the push-back buffer |
| `MessageRoundTrip` | `Serialize` | leaves the ID byte out of the length prefix |
| `StoredReportSound` | `GetDataRead` | a verifier whose hash matched marks the piece verified without writing it |
| `IncompleteReportSound` | `MarkPieceVerified` | frees the piece's block buffers once it is verified |

`PeerPool.TypeOK` and `Simulation.TypeOK` are stated but not part of a run: no plausible bug of the pool's code changes a variable's type, and the demo program's store is PieceStore's, whose type invariant store_safety checks.

## 5. Observations

These are disagreements with the spec that the models show, but that no run of their own checks:

- **A peer index past the last piece panics the process** (`manager.go:367`). `AddBlockData` indexes `m.pieces` without a bounds check. `PieceStore` keeps the panicking branch, with `BadIndices` as the out-of-range indices; no run sets them, since a single unit test reaches this.
- **`Validate` accepts a piece count that does not fit the length** (`torrent.go:186`). Spec section 3 requires N = ceil(total / piece length) of a TorrentMeta. With too few hashes, the tail of the content is never requested. With too many, the extra pieces lie past the end of the files. For example, piece length 2, total 5 and one hash gives a single piece of size 1. `MetainfoLayout` is stated for the torrents that satisfy the spec's count.
- **Zero-length files are dropped** (`torrent.go:160`). `Parse` keeps only file entries with a positive length and a string path component, so a zero-length file of a multi-file torrent is never created. The spec asks for the exact files described. `Validate`'s own checks for a negative length and an empty path are unreachable after this filter.
- **Out-of-range tracker ports are truncated** (`tracker.go:216`). `uint16(port)` keeps the low 16 bits of a dictionary peer's port.
- **Priority does not always choose the highest priority.** When the top priority is 0, `PriorityStrategy` defers to its base strategy over all candidates, which may pick a piece of negative priority (spec 4.3 says "highest chosen"). Ties among positive priorities are broken by the unstable sort, not by the base strategy. Only tests use this strategy.
- **Which pieces count as wanted.** Every strategy skips only Verified pieces, so a Downloaded piece that is still being verified is selected again. Spec 4.3 says "Missing". `SelectionSound` uses the code's notion; the coordinator's consequence of this is a hazard checked in `download_happy`.
- **Peers announcing only by HAVE are never used** (`peer.go:313`). `setPieceUnsafe` drops a HAVE while no BITFIELD was received, so a peer that started empty (and, per BEP 3, skipped BITFIELD) never gets a bitfield, and `NeedsPieces` and `requestPiecesFromPeer` never consider it. Spec 4.4 says to allocate the bitfield on the first HAVE. `Download` with `InitialHas` empty for every peer shows `Termination` violated; the run was retired for the demo program's.
- **The download simulation can hang** (`download-simulation/main.go:104`). `main` calls `piece.GetData` while the verifier goroutine spawned by the last `AddBlockData` waits for the piece's write lock (to reset it, or in `MarkPieceVerified`). `GetData`'s second `RLock` queues behind that writer, which waits for `main`'s first `RLock`. `Simulation.cfg` with deadlock checking and a stuttering step at `main`'s exit finds it, for matching and mismatching bytes alike. The cause is the nested `RLock` of `download_deadlock`.
- **The simulation may report good data as failed** (`download-simulation/main.go:122`). `GetStatistics` is read without waiting for the verifier, so "verification failed" is printed for matching bytes when the verifier has not yet finished; the comment at line 118 expects the piece to be verified by then.
- **Files with the same path share one file** (`strategy_test.go:861`). `Parse` and `Validate` accept a torrent whose `files` list has two entries with the same path. `Initialize` truncates the one file twice, and `writeMultiFile` writes both entries' bytes into it, so the first entry's content is overwritten and `ReadPiece` of its pieces returns the second's bytes. `DiskRoundTrip` without its distinct-paths premise fails on such a torrent.
- **The coordinator never reports the download complete** (`coordinator.go:118`). `processDownloadCycle` returns as soon as `GetNeededPieces` is empty, before its closing `updateProgress`. So after the cycle before the last verification, `downloadedPieces` stays below `totalPieces` for ever, and `IsDownloadComplete` and `GetProgress` never report completion. The exception is a race: the last verification lands between `GetNeededPieces` and `updateProgress` of one cycle. Spec 4.6 says the coordinator signals done once no piece is left to verify. `Download` states this as `CompletionSignalled` (`(Needed = {}) ~> IsDownloadComplete`), and TLC under `DownloadHappy.cfg` finds it violated: every piece is verified while `progress` still holds an older count. Nothing in the repository calls `IsDownloadComplete`.
- **The info hash is taken over re-encoded bytes** (`torrent.go:81`). `Parse` hashes `bencode.Encode` of the decoded info dictionary. Spec section 6 requires the hash over the bytes as they appear on disk, and allows re-encoding only if it is byte-identical. The decoder accepts input that does not re-encode to itself: keys out of order, `i03e`, `i-0e`, a length prefix `01:`, a repeated key, and bytes after the value. TLC, evaluating `Encode(Decode(b))` on `d1:bi1e1:ai2ee`, `d1:ai03ee`, `d1:ai-0ee`, `d01:ai1ee` and `dei1e`, finds every one different from `b`. So such a torrent gets an info hash that no other client computes.
- **`UnmarshalBinary` does not check the protocol string**, unlike `Read`. Nothing outside the tests calls it.

## 6. Not modelled, and the plan

Not modelled yet, in the order planned:

1. **Pool with download:** compose `PeerPool` with `Download`, so that session loss reaches the coordinator. Spec 4.6 wants the session's requests dropped, and the code drops none. Connections are also never closed on this path: a session whose loop returns (a read timeout, say) is cancelled but never `Stop`ped. The same holds for a session `addPeer` registers after `Stop`'s loop. `PeerPool` records this in `closed`, and the plan states it as a liveness property.

Left out for good:
- bencode decoding into structs and typed slices (`mapToStruct`, `setFieldValue`) and `encodeStruct`: no caller outside the tests uses them;
- `ReadMessageTimeout`, `CopyMessage` and `Message.String`, which only the tests call;
- the tracker's query-string encoding, `GeneratePeerID`, and the `String` methods (formatting);
- the info hash: the SHA-1 of the re-encoded info dictionary, which needs the bencode encoder;
- `GetAnnounceURLs`, `ReadHandshakeTimeout` and `ValidatePeerID`, which nothing outside the tests and `String` calls;
- in `cmd/integration-test/main.go`: the peer manager it creates and never starts, the SHA-1 of fixed test bytes, and the printing;
- statistics other than `VerifiedPieces`;
- logging;
- upload (`handlePieceRequest`): we never unchoke, so it never sends;
- why `receiveCh` is full: the drop is a nondeterministic fault bounded by `MaxDrops`, not a count of 100 slots;
- `SendMessage` failing after 5 s on a full `sendCh`: 100 queued messages are far beyond the bounded queues, so `Interested` always sends and `RequestPiece` fails only on its `PeerChoking` check;
- the 30 s read deadline of `ReadMessage` and the 2 min keep-alives, which need real time.
