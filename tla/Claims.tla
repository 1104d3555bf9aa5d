------------------------------- MODULE Claims -------------------------------
(***************************************************************************)
(* What comments of the repository say of the throughput test and the code *)
(* does not do, checked by a run that finds it false.                      *)
(***************************************************************************)
EXTENDS SpeedTest

\* The phone is connected for good and both notifications are on.
Connected == link /\ connHandle /\ notifEnabled /\ cccdRx /\ cccdUp

\* communication.c:517-519, "si on a recu la commande de stopper le timer
\* alors qu'on avait pas toute les données [...] on renvoie une instruction":
\* a stop that was put off is served once the phone stays connected.  A
\* reconnection has dropped the packets whose transmit event would serve it.
StopServedWhenConnected == <>[]Connected => StopServed
=============================================================================
