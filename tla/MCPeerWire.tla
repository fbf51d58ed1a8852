------------------------------ MODULE MCPeerWire ------------------------------
(* PeerWire for TLC: two ends, one of which relays messages.                *)
EXTENDS PeerWire

CONSTANTS a, b
===============================================================================
