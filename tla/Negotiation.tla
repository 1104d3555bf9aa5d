----------------------------- MODULE Negotiation -----------------------------
(***************************************************************************)
(* Connection with a history variable: the update requests that            *)
(* ble_conn_params has sent on this connection.                            *)
(***************************************************************************)
EXTENDS Connection

VARIABLE attempts

historyVars == <<vars, attempts>>

HistoryInit == Init /\ attempts = 0

Asked == UpdateTimeoutAsks /\ power' = "on"

History ==
    attempts' = IF ~connHandle' \/ ~connHandle THEN 0
                ELSE IF Asked THEN attempts + 1 ELSE attempts

HistoryNext == Next /\ History
HistorySpec == HistoryInit /\ [][HistoryNext]_historyVars
HistoryFairSpec == HistorySpec /\ Fairness

-----------------------------------------------------------------------------

\* ble_conn_params gives a connection up only after it has sent all its
\* requests on it, and never sends more: neither the requests of an earlier
\* connection count, nor a timer that still runs from one.
GivesUpAfterAll ==
    [][/\ UpdateTimeoutGivesUp => attempts = MaxUpdates
       /\ attempts' <= MaxUpdates]_historyVars
=============================================================================
