----------------------------- MODULE MCPeerPool -----------------------------
(* Two addresses, two attempts at the first and one at the second, and a  *)
(* cap of one so that the cap rejects a session at another address.      *)
EXTENDS PeerPool, TLC

CONSTANTS a1, a2, s1, s2, s3

MCAddrs == {a1, a2}
MCSessions == {s1, s2, s3}
MCSessionAddr == (s1 :> a1) @@ (s2 :> a1) @@ (s3 :> a2)
=============================================================================
