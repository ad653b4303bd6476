--------------------------- MODULE MCPeerFederation ---------------------------
(* Finite values for PeerFederation: the outbox and one or two peers. *)
EXTENDS PeerFederation, TLC

OnePeer  == {1}
TwoPeers == {1, 2}
NoPeers  == {}

MsgSymmetry == Permutations(Msgs)
=============================================================================
