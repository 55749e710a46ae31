---------------------------- MODULE Collective -----------------------------
(***************************************************************************)
(* collective_only() and collective_end() of sync.c, as the benchmarks use  *)
(* them round after round:                                                  *)
(*                                                                         *)
(*   if (collective_only(mask)) { ... work ...; collective_end(); }         *)
(*   barrier(&global_barrier);                                              *)
(*                                                                         *)
(* Every CPU runs the same program, so all pass the same mask.  The barriers *)
(* are the rendezvous that module Barrier implements (BarrierSpec): the      *)
(* separate departures from one are the separate next steps of the CPUs.     *)
(***************************************************************************)
EXTENDS SmpHalt

CONSTANT Masks         \* the masks the program passes

ASSUME MasksAssumption == \A m \in Masks : m \subseteq CPUs /\ m # {}

VARIABLES at,            \* where each CPU is in the program
          mask,          \* the argument of this round's collective_only()
          coll_mutex,    \* 1: free, 0: locked
          coll_master,   \* the CPU that has to wake up the others
          coll_mask,     \* the mask it has to do it for
          owner          \* history: who locked coll_mutex (cleared by the unlock)

collVars == <<at, mask, coll_mutex, coll_master, coll_mask, owner>>
vars == <<smpVars, collVars>>

Places == {"call", "halt", "try", "own", "work", "end", "loop", "waking", "bar"}

Init ==
  /\ SmpInit
  /\ at = [p \in CPUs |-> "call"]
  /\ mask \in Masks
  /\ coll_mutex = 1
  /\ coll_master = 0
  /\ coll_mask = {}
  /\ owner = {}

\* The CPU runs program text, outside smp_halt() and smp_wakeup().
Move(p, from, to) ==
  /\ pc[p] = "run" /\ at[p] = from
  /\ at' = [at EXCEPT ![p] = to]

-----------------------------------------------------------------------------
(* Plausible defects, one definition each, for the mutation runs.          *)

MaskForgotten(p) ==
  /\ Move(p, "own", "work")
  /\ coll_master' = p
  /\ UNCHANGED <<mask, coll_mutex, coll_mask, owner, smpVars>>

-----------------------------------------------------------------------------
(* collective_only(mask)                                                   *)

\* A CPU outside the mask calls smp_halt(), a member goes on to the trylock.
Enter(p) ==
  /\ IF p \in mask
     THEN Move(p, "call", "try") /\ UNCHANGED pc
     ELSE Move(p, "call", "halt") /\ Go(p, "run", "h_load")
  /\ UNCHANGED <<flags, pend, old, tgt, mask, coll_mutex, coll_master, coll_mask, owner>>

\* mutex_trylock(&coll_mutex)
TryLock(p) ==
  /\ IF coll_mutex = 1
     THEN Move(p, "try", "own") /\ coll_mutex' = 0 /\ owner' = owner \cup {p}
     ELSE Move(p, "try", "work") /\ UNCHANGED <<coll_mutex, owner>>
  /\ UNCHANGED <<mask, coll_master, coll_mask, smpVars>>

\* Master!
BecomeMaster(p) ==
  /\ Move(p, "own", "work")
  /\ coll_master' = p
  /\ coll_mask' = mask
  /\ UNCHANGED <<mask, coll_mutex, owner, smpVars>>

\* smp_halt() returned: collective_only() returns 0.
Woken(p) ==
  /\ Move(p, "halt", "bar")
  /\ UNCHANGED <<mask, coll_mutex, coll_master, coll_mask, owner, smpVars>>

-----------------------------------------------------------------------------
(* The members' work.  They meet at a barrier in it (barr2): none comes to  *)
(* collective_end() before all of them are through collective_only().       *)

WorkDone(p) ==
  /\ \A q \in mask : at[q] \notin {"call", "try", "own"}
  /\ Move(p, "work", "end")
  /\ UNCHANGED <<mask, coll_mutex, coll_master, coll_mask, owner, smpVars>>

-----------------------------------------------------------------------------
(* collective_end()                                                        *)

\* if (coll_master == myid): start the loop at u = 0.
End(p) ==
  /\ IF coll_master = p
     THEN Move(p, "end", "loop") /\ tgt' = [tgt EXCEPT ![p] = 0]
     ELSE Move(p, "end", "bar") /\ UNCHANGED tgt
  /\ UNCHANGED <<flags, pend, pc, old, mask, coll_mutex, coll_master, coll_mask, owner>>

\* The body of the loop for a CPU that is not in coll_mask: call smp_wakeup(u).
WakeNext(p) ==
  /\ tgt[p] < cpu_online /\ tgt[p] \notin coll_mask
  /\ Move(p, "loop", "waking")
  /\ Go(p, "run", "w_wait")
  /\ UNCHANGED <<flags, pend, old, tgt, mask, coll_mutex, coll_master, coll_mask, owner>>

\* u++, after smp_wakeup(u) or for a CPU in coll_mask.
Advance(p) ==
  /\ \/ Move(p, "waking", "loop")
     \/ tgt[p] < cpu_online /\ tgt[p] \in coll_mask /\ Move(p, "loop", "loop")
  /\ tgt' = [tgt EXCEPT ![p] = @ + 1]
  /\ UNCHANGED <<flags, pend, pc, old, mask, coll_mutex, coll_master, coll_mask, owner>>

\* All are awake: mutex_unlock(&coll_mutex).
Unlock(p) ==
  /\ tgt[p] = cpu_online
  /\ Move(p, "loop", "bar")
  /\ coll_mutex' = 1
  /\ owner' = {}
  /\ tgt' = [tgt EXCEPT ![p] = 0]
  /\ UNCHANGED <<mask, coll_master, coll_mask, flags, pend, pc, old>>

-----------------------------------------------------------------------------
\* barrier(&global_barrier), and on to the next round.
GlobalBarrier ==
  /\ \A p \in CPUs : at[p] = "bar" /\ pc[p] = "run"
  /\ at' = [p \in CPUs |-> "call"]
  /\ mask' \in Masks
  /\ UNCHANGED <<coll_mutex, coll_master, coll_mask, owner, smpVars>>

Step(p) ==
  \/ Enter(p) \/ TryLock(p) \/ BecomeMaster(p) \/ Woken(p) \/ WorkDone(p)
  \/ End(p) \/ WakeNext(p) \/ Advance(p) \/ Unlock(p)
  \/ SmpStep(p) /\ UNCHANGED collVars

Deliver(p) == Interrupt(p) /\ UNCHANGED collVars

-----------------------------------------------------------------------------
(* Correctness.                                                            *)

\* The CPU that wakes up the others is the one that holds coll_mutex, it is the
\* only one, and it does so for the mask of this round: a coll_master or a
\* coll_mask left over from an earlier round is never acted upon.
WakerOwnsRound ==
  \A p \in CPUs : at[p] \in {"loop", "waking"} =>
    owner = {p} /\ coll_mutex = 0 /\ coll_mask = mask

\* "the CPUs not in mask go into smp_halt() until collective_end()" (sync.c,
\* line 183): until the master comes to collective_end(), no CPU outside the mask
\* gets past smp_halt(), even when an IPI left over from an earlier round wakes it.
BeforeEnd(p) ==
  \/ p \in mask /\ at[p] \in {"try", "own"}
  \/ p \in owner /\ at[p] \in {"work", "end"}
OthersHalt ==
  (\E p \in CPUs : BeforeEnd(p)) =>
    \A q \in CPUs \ mask :
      \/ at[q] = "call"
      \/ at[q] = "halt" /\ pc[q] \in {"h_load", "h_store", "h_test", "h_hlt", "h_asleep"}

\* The unlocked updates of the two sides never overwrite each other: a CPU that
\* runs has both bits clear, and HALTED stays set as long as it is in the loop.
FlagsTellState ==
  \A p \in CPUs :
    /\ pc[p] \in {"h_test", "h_hlt", "h_asleep", "h_cload", "h_cstore"} => "HALTED" \in flags[p]
    /\ pc[p] \notin InHalt => flags[p] = {}

\* Every round comes to its end on every CPU: no wakeup is lost between the test
\* of the flag and the hlt, and no smp_wakeup() waits for a CPU that is gone.  (In 64
\* bit mode, as Interrupt of SmpHalt is.)
RoundEnds == \A p \in CPUs : at[p] \in Places \ {"bar"} ~> at[p] = "bar"
=============================================================================
