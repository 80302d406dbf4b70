------------------------------ MODULE PeerPool ------------------------------
(***************************************************************************)
(* The peer connection pool of internal/peer (Manager, peer.go 486-873):   *)
(* the registry m.peers keyed by address, the connectToPeer goroutine that *)
(* dials, starts and registers one session, the handlePeer goroutine that  *)
(* forwards a session's messages to m.incomingMessages and removes the     *)
(* session when it ends, the periodic cleanup, and Manager.Stop.           *)
(*                                                                         *)
(* Every method that takes m.mu (hasPeer, addPeer, removePeer, cleanup and *)
(* the loop of Stop) is one atomic action.  Messages are abstracted away:  *)
(* only whether handlePeer holds one to forward matters, and               *)
(* incomingMessages (buffered 1000, drained by messageLoop) is modelled    *)
(* only by whether it has been closed.                                     *)
(***************************************************************************)
EXTENDS Naturals, FiniteSets

CONSTANTS
    Addrs,          \* peer addresses the tracker may return
    Sessions,       \* connection attempts, one Peer value each
    SessionAddr,    \* the address each attempt dials
    MaxPeers        \* m.maxPeers

ASSUME SessionAddr \in [Sessions -> Addrs] /\ MaxPeers \in Nat \ {0}

VARIABLES
    peers,          \* m.peers: address -> registered session
    conn,           \* pc of each session's connectToPeer goroutine
    hp,             \* pc of each session's handlePeer goroutine
    started,        \* Start succeeded: its send and receive loops run
    cancelled,      \* the session's p.ctx is done (peer.Done())
    closed,         \* Peer.Stop ran: p.conn is closed
    mgr,            \* progress of Manager.Stop
    panicked        \* a goroutine panicked, which ends the program

vars == <<peers, conn, hp, started, cancelled, closed, mgr, panicked>>

NoSession == "none"

ConnPcs == {"idle", "check", "dial", "add", "done"}
HpPcs == {"none", "loop", "recv", "forward", "exited"}
MgrPcs == {"running", "stopping", "closing", "closed"}

\* m.ctx is done from the first line of Manager.Stop on.
MgrCancelled == mgr # "running"

\* close(m.incomingMessages) has run.
IncomingClosed == mgr = "closed"

Registered == {peers[a] : a \in {b \in Addrs : peers[b] # NoSession}}

TypeOK ==
    /\ peers \in [Addrs -> Sessions \cup {NoSession}]
    /\ conn \in [Sessions -> ConnPcs]
    /\ hp \in [Sessions -> HpPcs]
    /\ started \in [Sessions -> BOOLEAN]
    /\ cancelled \in [Sessions -> BOOLEAN]
    /\ closed \in [Sessions -> BOOLEAN]
    /\ mgr \in MgrPcs
    /\ panicked \in BOOLEAN

Init ==
    /\ peers = [a \in Addrs |-> NoSession]
    /\ conn = [s \in Sessions |-> "idle"]
    /\ hp = [s \in Sessions |-> "none"]
    /\ started = [s \in Sessions |-> FALSE]
    /\ cancelled = [s \in Sessions |-> FALSE]
    /\ closed = [s \in Sessions |-> FALSE]
    /\ mgr = "running"
    /\ panicked = FALSE

\* Peer.Stop: cancel the context and close the connection.
StopSession(S) ==
    /\ cancelled' = [s \in Sessions |-> cancelled[s] \/ s \in S]
    /\ closed' = [s \in Sessions |-> closed[s] \/ s \in S]

\* removePeer as the code writes it: it deletes whatever session is
\* registered under the address of the one that ended.
RemovePeerNoop(s) == peers

RemovePeer(s) ==
    [peers EXCEPT ![SessionAddr[s]] = NoSession]

-----------------------------------------------------------------------------
(* connectToPeer, started by ConnectToPeers after its count check.        *)

\* One iteration of the loop of ConnectToPeers: the count is read under
\* RLock and the goroutine starts after the lock is released.  The caller
\* hands over tracker peers only before it stops the manager (the manager
\* itself does not check m.ctx here).
ConnectToPeers(s) ==
    /\ ~panicked
    /\ mgr = "running"
    /\ conn[s] = "idle"
    /\ Cardinality(Registered) < MaxPeers
    /\ conn' = [conn EXCEPT ![s] = "check"]
    /\ UNCHANGED <<peers, hp, started, cancelled, closed, mgr, panicked>>

\* hasPeer: return early when the address is already registered.
HasPeer(s) ==
    /\ ~panicked
    /\ conn[s] = "check"
    /\ conn' = [conn EXCEPT ![s] = IF peers[SessionAddr[s]] # NoSession
                                   THEN "done" ELSE "dial"]
    /\ UNCHANGED <<peers, hp, started, cancelled, closed, mgr, panicked>>

\* DialTimeout then NewPeer and Start (the handshake).  A failed dial
\* returns; a failed handshake calls peer.Stop.
DialAndStart(s) ==
    /\ ~panicked
    /\ conn[s] = "dial"
    /\ \/ /\ conn' = [conn EXCEPT ![s] = "done"]
          /\ UNCHANGED <<started, cancelled, closed>>
       \/ /\ conn' = [conn EXCEPT ![s] = "done"]
          /\ StopSession({s})
          /\ UNCHANGED started
       \/ /\ conn' = [conn EXCEPT ![s] = "add"]
          /\ started' = [started EXCEPT ![s] = TRUE]
          /\ UNCHANGED <<cancelled, closed>>
    /\ UNCHANGED <<peers, hp, mgr, panicked>>

\* addPeer under m.mu, then go handlePeer on success or peer.Stop.
AddPeerNoCap(s) ==
    /\ ~panicked
    /\ conn[s] = "add"
    /\ conn' = [conn EXCEPT ![s] = "done"]
    /\ IF peers[SessionAddr[s]] = NoSession
       THEN /\ peers' = [peers EXCEPT ![SessionAddr[s]] = s]
            /\ hp' = [hp EXCEPT ![s] = "loop"]
            /\ UNCHANGED <<cancelled, closed>>
       ELSE /\ StopSession({s})
            /\ UNCHANGED <<peers, hp>>
    /\ UNCHANGED <<started, mgr, panicked>>

AddPeer(s) ==
    /\ ~panicked
    /\ conn[s] = "add"
    /\ conn' = [conn EXCEPT ![s] = "done"]
    /\ IF Cardinality(Registered) < MaxPeers /\ peers[SessionAddr[s]] = NoSession
       THEN /\ peers' = [peers EXCEPT ![SessionAddr[s]] = s]
            /\ hp' = [hp EXCEPT ![s] = "loop"]
            /\ UNCHANGED <<cancelled, closed>>
       ELSE /\ StopSession({s})
            /\ UNCHANGED <<peers, hp>>
    /\ UNCHANGED <<started, mgr, panicked>>

-----------------------------------------------------------------------------
(* A session's own loops and its handlePeer goroutine.                    *)

\* sendLoop or receiveLoop returns (a read or write error, the five-minute
\* read deadline, a bad message) and its deferred p.cancel() runs; nothing
\* on that path closes p.conn.
SessionEnd(s) ==
    /\ ~panicked
    /\ started[s]
    /\ ~cancelled[s]
    /\ cancelled' = [cancelled EXCEPT ![s] = TRUE]
    /\ UNCHANGED <<peers, conn, hp, started, closed, mgr, panicked>>

\* handlePeer returns and its deferred removePeer runs.
ExitHandlePeer(s) ==
    /\ hp' = [hp EXCEPT ![s] = "exited"]
    /\ peers' = RemovePeer(s)

\* Top of the loop of handlePeer: return when the session or the manager
\* is done, otherwise block in peer.ReceiveMessage.
HandlePeerCheck(s) ==
    /\ ~panicked
    /\ hp[s] = "loop"
    /\ IF cancelled[s] \/ MgrCancelled
       THEN ExitHandlePeer(s)
       ELSE /\ hp' = [hp EXCEPT ![s] = "recv"]
            /\ UNCHANGED peers
    /\ UNCHANGED <<conn, started, cancelled, closed, mgr, panicked>>

\* ReceiveMessage returns a message that receiveLoop put on p.receiveCh.
HandlePeerReceive(s) ==
    /\ ~panicked
    /\ hp[s] = "recv"
    /\ hp' = [hp EXCEPT ![s] = "forward"]
    /\ UNCHANGED <<peers, conn, started, cancelled, closed, mgr, panicked>>

\* ReceiveMessage returns the error of a done p.ctx.
HandlePeerReceiveDone(s) ==
    /\ ~panicked
    /\ hp[s] = "recv"
    /\ cancelled[s]
    /\ ExitHandlePeer(s)
    /\ UNCHANGED <<conn, started, cancelled, closed, mgr, panicked>>

\* The forwarding select: the send case is ready while the buffered channel
\* is open and panics once Stop has closed it; the two Done cases return.
\* Go picks among the ready cases at random.
HandlePeerForward(s) ==
    /\ ~panicked
    /\ hp[s] = "forward"
    /\ \/ /\ ~IncomingClosed
          /\ hp' = [hp EXCEPT ![s] = "loop"]
          /\ UNCHANGED <<peers, panicked>>
       \/ /\ IncomingClosed
          /\ panicked' = TRUE
          /\ UNCHANGED <<peers, hp>>
       \/ /\ MgrCancelled \/ cancelled[s]
          /\ ExitHandlePeer(s)
          /\ UNCHANGED panicked
    /\ UNCHANGED <<conn, started, cancelled, closed, mgr>>

-----------------------------------------------------------------------------
(* The manager's own goroutines.                                          *)

\* cleanup, run by cleanupLoop every CleanupInterval until m.ctx is done:
\* delete every registered session whose context is done.
Cleanup ==
    /\ ~panicked
    /\ ~MgrCancelled
    /\ \E s \in Registered : cancelled[s]
    /\ peers' = [a \in Addrs |->
                    IF peers[a] # NoSession /\ cancelled[peers[a]]
                    THEN NoSession ELSE peers[a]]
    /\ UNCHANGED <<conn, hp, started, cancelled, closed, mgr, panicked>>

\* Manager.Stop, first line: m.cancel().
StopCancel ==
    /\ ~panicked
    /\ mgr = "running"
    /\ mgr' = "stopping"
    /\ UNCHANGED <<peers, conn, hp, started, cancelled, closed, panicked>>

\* Manager.Stop under m.mu: peer.Stop() for every registered session.
StopPeers ==
    /\ ~panicked
    /\ mgr = "stopping"
    /\ mgr' = "closing"
    /\ StopSession(Registered)
    /\ UNCHANGED <<peers, conn, hp, started, panicked>>

\* Manager.Stop, after the unlock: close the two manager channels.
StopClose ==
    /\ ~panicked
    /\ mgr = "closing"
    /\ mgr' = "closed"
    /\ UNCHANGED <<peers, conn, hp, started, cancelled, closed, panicked>>

Next ==
    \/ \E s \in Sessions :
          \/ ConnectToPeers(s)
          \/ HasPeer(s)
          \/ DialAndStart(s)
          \/ AddPeer(s)
          \/ SessionEnd(s)
          \/ HandlePeerCheck(s)
          \/ HandlePeerReceive(s)
          \/ HandlePeerReceiveDone(s)
          \/ HandlePeerForward(s)
    \/ Cleanup
    \/ StopCancel
    \/ StopPeers
    \/ StopClose

\* Goroutines that are runnable are eventually scheduled.  Whether tracker
\* peers are handed over, a remote peer sends, a session fails, or the
\* caller stops the manager is up to the environment and is not forced.
Fairness ==
    /\ \A s \in Sessions :
          /\ WF_vars(HasPeer(s))
          /\ WF_vars(DialAndStart(s))
          /\ WF_vars(AddPeer(s))
          /\ WF_vars(HandlePeerCheck(s))
          /\ WF_vars(HandlePeerReceiveDone(s))
          /\ WF_vars(HandlePeerForward(s))
    /\ WF_vars(Cleanup)
    /\ WF_vars(StopPeers)
    /\ WF_vars(StopClose)

Spec == Init /\ [][Next]_vars /\ Fairness

-----------------------------------------------------------------------------
(* Properties.                                                            *)

\* addPeer re-checks len(m.peers) under m.mu, so the registry never holds
\* more than maxPeers sessions although ConnectToPeers reads the count
\* before its goroutines run and many attempts can pass that check at once.
PeerCap == Cardinality(Registered) <= MaxPeers

\* A registered session whose context is done leaves the registry: through
\* cleanup while the manager runs, and through handlePeer's deferred
\* removePeer once Stop has ended cleanupLoop (unless the program panicked).
EndedSessionRemoved ==
    \A s \in Sessions :
        (s \in Registered /\ cancelled[s]) ~> (s \notin Registered \/ panicked)

\* Every session whose handlePeer still runs and whose context is live is
\* the one registered under its address, so GetPeers, the cap and Stop all
\* see it.  removePeer deletes by address, so a stale handlePeer may delete
\* a newer session registered under the same address.
LiveSessionRegistered ==
    \A s \in Sessions :
        (hp[s] \in {"loop", "recv", "forward"} /\ ~cancelled[s] /\ ~MgrCancelled)
            => peers[SessionAddr[s]] = s

\* No goroutine panics: handlePeer's send on m.incomingMessages must not
\* run after Stop has closed the channel.
NoPanic == ~panicked
=============================================================================
