---------------------------- MODULE MCDownload ----------------------------
EXTENDS Download, TLC

CONSTANTS r1, r2

MCPeers == {r1, r2}

\* A single peer, for the liveness run.
MCOnePeer == {r1}

MCPieces == {0, 1}
MCBlocks == {0, 1}

\* One block per piece, for the liveness runs.
MCOneBlock == {0}

\* Both peers are seeders: they send a full BITFIELD after the handshake.
MCSeeders == [r \in Peers |-> Pieces]

\* One piece, for the safety run.
MCOnePiece == {0}

\* Every peer starts with piece 0 only, sends it in its BITFIELD, and
\* announces the other pieces by HAVE as it obtains them.
MCFirstOnly == [r \in Peers |-> {0}]

\* Every PIECE message answers one request; a block is requested again only
\* after a timeout or after a failed hash check resets its piece.  This many
\* deliveries allow every timeout; with a corrupt peer they also cut short
\* the re-download after a reset, once the reset itself has been reached.
MCMaxDeliveries == Cardinality(Pieces \X Blocks) * (1 + MaxTimeouts)
====
