---------------------------- MODULE EventLedger ----------------------------
(***************************************************************************)
(* What the telemetry pipeline of the SDK promises for one event, with the *)
(* buffer, the flush loop, the retries and the files left out: the event   *)
(* has a standing, the standing changes along few edges, and three of the  *)
(* standings are final.  Of an event that a recovery has copied nothing is *)
(* promised any more.  Reporter.tla is shown to implement this module.     *)
(***************************************************************************)

CONSTANT Events      \* the events a client may ever produce

VARIABLE standing    \* standing[e]: where the client side has event e

Standings == {"unborn", "pending", "saved", "accepted", "refused", "lost", "copied"}

(***************************************************************************)
(* unborn   not produced yet                                               *)
(* pending  in memory, waiting for or taking part in a POST                *)
(* saved    in the recoverable dead-letter file                            *)
(* accepted acknowledged by the platform                                   *)
(* refused  answered with a permanent 4xx, kept for inspection at most     *)
(* lost     gone                                                           *)
(* copied   recovered from a file that could not be read to its end or     *)
(*          cleared: in memory and saved, to be sent more than once        *)
(***************************************************************************)
Final == {"accepted", "refused", "lost"}

Init == standing = [e \in Events |-> "unborn"]

\* The edges one event may follow.
Edge(from, to) ==
    \/ from = to
    \/ from = "unborn"  /\ to \in {"pending", "lost"}
    \/ from = "pending" /\ to \in {"saved", "accepted", "refused", "lost"}
    \/ from = "saved"   /\ to \in {"pending", "lost", "copied"}

\* Any number of events move in one step: a flush moves a whole batch.
Next == /\ standing' \in [Events -> Standings]
        /\ \A e \in Events : Edge(standing[e], standing'[e])

Spec == Init /\ [][Next]_standing

TypeOK == standing \in [Events -> Standings]

(***************************************************************************)
(* A final standing never changes: an event that was accepted or refused   *)
(* is not sent again, whatever restarts, retries and recoveries happen     *)
(* (it was not copied before, and what has been sent is never copied).     *)
(***************************************************************************)
FinalIsFinal ==
    [][\A e \in Events : standing[e] \in Final => standing'[e] = standing[e]]_standing
=============================================================================
