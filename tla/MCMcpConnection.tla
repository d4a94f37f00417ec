--------------------------- MODULE MCMcpConnection ---------------------------
(* TLC instances of McpConnection.                                           *)
EXTENDS McpConnection
=============================================================================
