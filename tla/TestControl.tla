---------------------------- MODULE TestControl ----------------------------
(***************************************************************************)
(* What the phone may rely on when it drives a throughput test: at most    *)
(* one test is open, its kind never changes, it closes only when the       *)
(* program owes no more bytes, and a stop that comes too early is put off, *)
(* never forgotten.  A byte is owed until it was given to the SoftDevice,  *)
(* accepted or refused for another reason than missing packets.  SpeedTest *)
(* implements this.                                                        *)
(***************************************************************************)
CONSTANT Kinds, DownKind

VARIABLES phase,   \* "idle", "open" or "stopping" (a stop has been put off)
          kind,    \* kind of the last test opened
          owed,    \* the program still counts bytes as owed
          result   \* the result of a test can be asked for

vars == <<phase, kind, owed, result>>

Init == phase = "idle" /\ kind = DownKind /\ owed = FALSE /\ result = FALSE

Open(k) ==
    /\ phase = "idle"
    /\ phase' = "open" /\ kind' = k
    /\ UNCHANGED <<owed, result>>

\* More bytes of a DOWN test are asked for, or some are given to the SoftDevice.
Transfer ==
    /\ phase # "idle" /\ kind = DownKind
    /\ owed' \in BOOLEAN
    /\ UNCHANGED <<phase, kind, result>>

PutOff ==
    /\ phase = "open" /\ owed
    /\ phase' = "stopping"
    /\ UNCHANGED <<kind, owed, result>>

Close ==
    /\ phase # "idle" /\ ~owed
    /\ phase' = "idle" /\ result' = TRUE
    /\ UNCHANGED <<kind, owed>>

Next == (\E k \in Kinds : Open(k)) \/ Transfer \/ PutOff \/ Close

Spec == Init /\ [][Next]_vars

\* Fairness of the implementation, in these terms: bytes owed are paid, and
\* a stop that was put off is served.
Pay == Transfer /\ owed /\ ~owed'
Serve == phase = "stopping" /\ Close
FairSpec == Spec /\ WF_vars(Pay) /\ WF_vars(Serve)
=============================================================================
