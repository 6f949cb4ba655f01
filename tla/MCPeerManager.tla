---------------------------- MODULE MCPeerManager ----------------------------
(* Instance of PeerManager for TLC: the parties of a registration.          *)
EXTENDS PeerManager

CONSTANTS new, existing

\* The devices talk to each other through the server, which has messages of
\* its own for one of them: its queue mixes senders and receivers.
SomePairs == {<<new, existing>>, <<existing, new>>, <<Server, existing>>}
=============================================================================
