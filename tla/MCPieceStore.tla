---------------------------- MODULE MCPieceStore ----------------------------
(* Instantiation of PieceStore for TLC: two pieces of two blocks each.     *)
EXTENDS PieceStore

MCPieces == {0, 1}
MCBlocks == {0, 1}
=============================================================================
