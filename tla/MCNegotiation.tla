--------------------------- MODULE MCNegotiation ---------------------------
(* Instances of Connection with its history.                               *)
EXTENDS MCConnection, Negotiation
=============================================================================
