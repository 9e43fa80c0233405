---------------------------- MODULE MCPeerSession ---------------------------
EXTENDS PeerSession

CONSTANTS a, b
=============================================================================
