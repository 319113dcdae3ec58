--------------------------- MODULE MCUeConnection ---------------------------
(* An instance of UeConnection.                                            *)
EXTENDS UeConnection
=============================================================================
