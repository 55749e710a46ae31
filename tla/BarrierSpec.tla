---------------------------- MODULE BarrierSpec ----------------------------
(***************************************************************************)
(* What barrier() of sync.c promises, without its counter and its epoch: a *)
(* reusable rendezvous.  A CPU that arrives waits; the barrier opens only  *)
(* when every participant waits, and lets all of them go at once; a CPU    *)
(* that left may arrive for the next episode while slower ones are still   *)
(* on their way out of the previous one.                                   *)
(***************************************************************************)

CONSTANT CPUs    \* the participants of the barrier

VARIABLE place   \* where each participant is, as seen from outside

Init == place = [p \in CPUs |-> "outside"]

\* A CPU comes to the barrier.
Arrive(p) ==
  /\ place[p] = "outside"
  /\ place' = [place EXCEPT ![p] = "waiting"]

\* The episode ends for everybody in one step, and only if nobody is missing.
Open ==
  /\ \A p \in CPUs : place[p] = "waiting"
  /\ place' = [p \in CPUs |-> "released"]

\* A released CPU returns from the barrier.
Leave(p) ==
  /\ place[p] = "released"
  /\ place' = [place EXCEPT ![p] = "outside"]

Next == Open \/ \E p \in CPUs : Arrive(p) \/ Leave(p)

Spec == Init /\ [][Next]_place
=============================================================================
