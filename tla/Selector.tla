------------------------------ MODULE Selector ------------------------------
(***************************************************************************)
(* The piece selection strategies of internal/piece/strategy.go, as        *)
(* operators.  A call SelectPiece(pieces, peerBitfield) is modelled with   *)
(* pieces as a function from piece index (0-based, as in the Go slice) to  *)
(* the piece's State, and the peer's bitfield as a sequence of bytes.      *)
(*                                                                         *)
(* Every selector returns the SET of results the Go code may return: one   *)
(* for a deterministic strategy, several where the code draws a random     *)
(* number or sorts with the unstable sort.Slice.  Nil is the nil *Piece.   *)
(***************************************************************************)
EXTENDS Integers, FiniteSets, Sequences, Bitwise

LOCAL INSTANCE FiniteSetsExt

CONSTANTS
    SequentialThreshold,    \* SmartStrategy.sequentialThreshold (4 in NewSmartStrategy)
    EndGameThreshold,       \* SmartStrategy.endGameThreshold (10)
    SmartEndGameThreshold   \* threshold of SmartStrategy.endGame (5)

Nil == -1

Verified == "verified"

\* Counting the bit from the least significant end of the byte.
PeerHasPieceLsbFirst(bitfield, pieceIndex) ==
    /\ Len(bitfield) # 0
    /\ pieceIndex \div 8 < Len(bitfield)
    /\ (bitfield[pieceIndex \div 8 + 1] & (2 ^ (pieceIndex % 8))) # 0

\* peerHasPiece: false for an empty bitfield or a byte index past its end,
\* else the bit counted from the most significant end of the byte.
PeerHasPiece(bitfield, pieceIndex) ==
    /\ Len(bitfield) # 0
    /\ pieceIndex \div 8 < Len(bitfield)
    /\ (bitfield[pieceIndex \div 8 + 1] & (2 ^ (7 - (pieceIndex % 8)))) # 0

\* Skipping only the pieces the peer does not have.
CandidatesAnyState(pieces, peerBitfield) ==
    {i \in DOMAIN pieces : PeerHasPiece(peerBitfield, i)}

\* The filter every strategy's loop applies: skip Verified pieces and
\* pieces the peer does not have.
Candidates(pieces, peerBitfield) ==
    {i \in DOMAIN pieces : pieces[i] # Verified /\ PeerHasPiece(peerBitfield, i)}

\* The first candidate in index order, or nil.
FirstCandidate(pieces, peerBitfield) ==
    LET c == Candidates(pieces, peerBitfield)
    IN IF c = {} THEN {Nil} ELSE {Min(c)}

SelectSequential(pieces, peerBitfield) == FirstCandidate(pieces, peerBitfield)

\* available[s.rand.Intn(len(available))]: any candidate.
SelectRandom(pieces, peerBitfield) ==
    LET c == Candidates(pieces, peerBitfield)
    IN IF c = {} THEN {Nil} ELSE c

\* The number of known peer bitfields (s.peerBitfields) holding piece i.
Rarity(peerBitfields, i) ==
    Cardinality({p \in DOMAIN peerBitfields : PeerHasPiece(peerBitfields[p], i)})

\* Sorting by descending rarity instead of ascending.
SelectRarestFirstDescending(pieces, peerBitfield, peerBitfields) ==
    LET c == Candidates(pieces, peerBitfield)
        r(i) == Rarity(peerBitfields, i)
    IN IF c = {} THEN {Nil} ELSE {i \in c : \A j \in c : r(i) >= r(j)}

\* candidates[0] after sort.Slice by ascending rarity: a candidate of least
\* rarity (sort.Slice is not stable, so any of them).
SelectRarestFirst(pieces, peerBitfield, peerBitfields) ==
    LET c == Candidates(pieces, peerBitfield)
        r(i) == Rarity(peerBitfields, i)
    IN IF c = {} THEN {Nil} ELSE {i \in c : \A j \in c : r(i) =< r(j)}

NotVerifiedCount(pieces) == Cardinality({i \in DOMAIN pieces : pieces[i] # Verified})

\* EndGameStrategy.SelectPiece with its threshold and the outcomes of its
\* base strategy.
SelectEndGame(pieces, peerBitfield, threshold, baseResult) ==
    IF NotVerifiedCount(pieces) =< threshold
    THEN FirstCandidate(pieces, peerBitfield)
    ELSE baseResult

\* SmartStrategy.SelectPiece: sequential while fewer than
\* SequentialThreshold pieces are Verified and it finds one; then the
\* end game (over rarest-first) when at most EndGameThreshold remain;
\* otherwise rarest-first.
SelectSmart(pieces, peerBitfield, peerBitfields) ==
    LET completed == Cardinality(DOMAIN pieces) - NotVerifiedCount(pieces)
        remaining == NotVerifiedCount(pieces)
        seq == SelectSequential(pieces, peerBitfield)
        rarest == SelectRarestFirst(pieces, peerBitfield, peerBitfields)
    IN IF completed < SequentialThreshold /\ seq # {Nil}
       THEN seq
       ELSE IF remaining =< EndGameThreshold
            THEN SelectEndGame(pieces, peerBitfield, SmartEndGameThreshold, rarest)
            ELSE rarest

\* PriorityStrategy.SelectPiece: candidates[0] after sort.Slice by
\* descending priority (s.priorities[i], 0 when unset); the base strategy
\* when that priority is 0.
SelectPriority(pieces, peerBitfield, priorities, baseResult) ==
    LET c == Candidates(pieces, peerBitfield)
        top == {i \in c : \A j \in c : priorities[i] >= priorities[j]}
    IN IF c = {} THEN {Nil}
       ELSE IF \E i \in top : priorities[i] = 0 THEN baseResult
       ELSE top

\* GetStrategyByName, with the strategies built fresh (no peer bitfields
\* known to rarest-first).
SelectByName(name, pieces, peerBitfield) ==
    CASE name = "random" -> SelectRandom(pieces, peerBitfield)
      [] name = "rarest-first" -> SelectRarestFirst(pieces, peerBitfield, <<>>)
      [] name = "smart" -> SelectSmart(pieces, peerBitfield, <<>>)
      [] OTHER -> SelectSequential(pieces, peerBitfield)

-----------------------------------------------------------------------------
(* Reference definitions.                                                  *)

\* BEP 3: "The high bit in the first byte corresponds to piece index 0";
\* bits past the end of the bitfield are absent.
HasPieceBEP3(bitfield, i) ==
    /\ i < 8 * Len(bitfield)
    /\ (bitfield[i \div 8 + 1] \div 2 ^ (7 - (i % 8))) % 2 = 1

\* The pieces a strategy may choose: not Verified and held by the peer.
Eligible(pieces, peerBitfield) ==
    {i \in DOMAIN pieces : pieces[i] # Verified /\ HasPieceBEP3(peerBitfield, i)}

\* A selection result is sound when it is nil exactly when nothing is
\* eligible and an eligible piece otherwise.
SoundResult(result, pieces, peerBitfield) ==
    /\ result # {}
    /\ \A r \in result :
          IF Eligible(pieces, peerBitfield) = {} THEN r = Nil
          ELSE r \in Eligible(pieces, peerBitfield)
=============================================================================
