---------------------------- MODULE MCSimulation ----------------------------
(* Instantiation of Simulation for TLC: piece 0 of the torrent is three   *)
(* blocks long (32 KiB < piece length <= 48 KiB), so main makes three     *)
(* AddBlockData calls and only the last completes the piece.              *)
EXTENDS Simulation

MCPieces == {0}
MCBlocks == {0, 1, 2}
=============================================================================
