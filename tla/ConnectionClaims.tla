-------------------------- MODULE ConnectionClaims --------------------------
(***************************************************************************)
(* What the repository says of the connection and its parameters and the   *)
(* code does not do, checked by a run that finds it false.                 *)
(***************************************************************************)
EXTENDS Connection

\* ble_conn_params.c:74, "Negotiation failed, disconnect automatically": a
\* connection is closed for its parameters only if they are not acceptable.
\* The timer goes on when they become acceptable.
ClosedForBadInterval == [][UpdateTimeoutGivesUp => ~IntervalOk(current)]_vars
=============================================================================
