--------------------------- MODULE PieceStoreSpec ---------------------------
(***************************************************************************)
(* What the piece store promises the rest of the client and the swarm     *)
(* (spec 4.1, 8.2): the set of pieces it advertises in its bitfield, and   *)
(* what is on disk for each piece.  A piece's bytes reach the disk only    *)
(* as its verified content, and a piece is advertised only once that       *)
(* content is on disk.  Nothing is ever taken back: BEP 3 has no way to    *)
(* retract a HAVE, and a verified piece is never rewritten with other      *)
(* bytes.                                                                  *)
(***************************************************************************)
CONSTANT Pieces

VARIABLES
    advertised,  \* pieces whose bit is set in the bitfield we send
    stored       \* per piece: "empty", or "good" once its content is on disk

Init ==
    /\ advertised = {}
    /\ stored = [p \in Pieces |-> "empty"]

\* The verified content of p is written to disk (again, perhaps).
Persist(p) ==
    /\ stored' = [stored EXCEPT ![p] = "good"]
    /\ UNCHANGED advertised

\* p is added to the bitfield, once its content is on disk.
Advertise(p) ==
    /\ stored[p] = "good"
    /\ advertised' = advertised \cup {p}
    /\ UNCHANGED stored

Next == \E p \in Pieces : Persist(p) \/ Advertise(p)

Spec == Init /\ [][Next]_<<advertised, stored>>
=============================================================================
