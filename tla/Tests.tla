------------------------------- MODULE Tests -------------------------------
(***************************************************************************)
(* The self tests of tests.c, which all CPUs run together: tests_doall()    *)
(* before the payload, or those the user selects in tests_menu().  In        *)
(* between the CPUs are in the collective regions of the benchmarks         *)
(* (Collective), so that the IPIs and flags of the one meet those of the     *)
(* other.                                                                  *)
(*                                                                         *)
(* A barrier lets its CPUs go when all are at one of its calls, whichever    *)
(* (the module Barrier has the steps).                                     *)
(***************************************************************************)
EXTENDS Collective, Sequences

CONSTANTS Rounds,      \* the barriers in each loop of tests_barrier(); 20 in the code
          InTime       \* the delays of one second and more are long enough

ASSUME TestsAssumption == Rounds \in Nat /\ InTime \in BOOLEAN

VARIABLES sel,         \* the tests that are selected: the result of menu()
          menuing,     \* the CPUs are in tests_menu(), not in tests_doall()
          n,           \* calls of barrier(), flag_signal() or flag_wait() made at this place
          sig,         \* flag->flag - flag->next of tests_flag()
          shared       \* those of p_shared, p_shared2 .. 4 this execution has set: the
                       \* others are NULL or left over in the static variables

testVars == <<sel, menuing, n, sig, shared>>
allVars == <<vars, testVars>>

\* The order of the tests in both callers, and their first places.
Order == <<"barrier", "mm", "ipi", "printf", "keyboard">>
AllTests == {Order[k] : k \in 1..Len(Order)}

\* if (cpu_online >= 2), and the CPU is one of the two the test is for.
Pair(p) == cpu_online >= 2 /\ p < 2

Start(p, test) ==
  CASE test = "barrier"  -> IF Pair(p) THEN "t_barr2" ELSE "t_global"
    [] test = "mm"       -> IF ~Pair(p) THEN "m_done" ELSE IF p = 0 THEN "m_alloc" ELSE "m_barr"
    [] test = "ipi"      -> "i_first"
    [] test = "printf"   -> "p_last"
    [] test = "keyboard" -> "k_last"

\* Where a CPU goes after test number k: the next one that is selected, or the end.
After(p, k) ==
  LET next == {m \in (k + 1)..Len(Order) : Order[m] \in sel}
  IN IF next # {} THEN Start(p, Order[CHOOSE m \in next : \A l \in next : m <= l])
     ELSE IF menuing THEN "t_menu" ELSE "call"

-----------------------------------------------------------------------------
(* Plausible defects, one definition each, for the mutation runs.          *)

FromOwnId(p) == at[p] = "t_global" /\ n[p] + p < Rounds + 1

SameName(p) == 3

NoDelay(u) == TRUE

-----------------------------------------------------------------------------
(* The barriers.                                                           *)

GlobalPlaces == {"d_first", "t_menu", "t_result", "t_global", "f_enter", "i_first", "i_second",
                 "i_last", "p_last", "k_last"}

\* Where the global barrier sends a CPU, and whether it calls it there once more.
Again(p) == at[p] = "t_global" /\ n[p] < Rounds + 1

Onward(p) ==
  CASE at[p] = "d_first"  -> After(p, 0)
    [] at[p] = "t_menu"   -> IF p = 0 THEN "t_select" ELSE "t_result"
    [] at[p] = "t_result" -> IF sel = {} THEN "call" ELSE After(p, 0)
    [] at[p] = "t_global" -> IF Again(p) THEN "t_global" ELSE "f_enter"
    [] at[p] = "f_enter"  -> CASE p = 0 -> "f_signal" [] p = 1 -> "f_wait" [] OTHER -> After(p, 1)
    [] at[p] = "i_first"  -> IF cpu_online = 1 THEN "i_last"
                             ELSE IF p = 0 THEN "i_self" ELSE "i_hlt"
    [] at[p] = "i_second" -> IF p = 0 THEN "i_wake" ELSE "i_halt"
    [] at[p] = "i_last"   -> After(p, 3)
    [] at[p] = "p_last"   -> After(p, 4)
    [] at[p] = "k_last"   -> After(p, 5)

\* The tests are over: it goes on with a benchmark, and a mask for it.
Leaving == \E p \in CPUs : at'[p] = "call"

\* barrier(&global_barrier).  After the second one of tests_ipi() the APs call
\* smp_halt().
TestBarrier ==
  /\ \A p \in CPUs : at[p] \in GlobalPlaces /\ pc[p] = "run"
  /\ at' = [p \in CPUs |-> Onward(p)]
  /\ n' = [p \in CPUs |-> IF Again(p) THEN n[p] + 1 ELSE 0]
  /\ pc' = [p \in CPUs |-> IF at'[p] = "i_halt" THEN "h_load" ELSE "run"]
  /\ tgt' = [p \in CPUs |-> IF at'[p] = "i_wake" THEN 1 ELSE 0]
  /\ mask' \in IF Leaving THEN Masks ELSE {mask}
  /\ sel' = IF Leaving \/ at'[0] \in {"t_menu", "t_select"} THEN {} ELSE sel
  /\ menuing' = (menuing /\ ~Leaving)
  /\ shared' = {}
  /\ UNCHANGED <<flags, pend, old, coll_mutex, coll_master, coll_mask, owner, sig>>

\* barrier(&barr2) of tests_barrier(), between CPUs 0 and 1
PairBarrier ==
  /\ \A p \in {0, 1} : at[p] = "t_barr2"
  /\ LET again(p) == n[p] < Rounds + 1
     IN /\ at' = [p \in CPUs |-> IF p < 2 /\ ~again(p) THEN "t_global" ELSE at[p]]
        /\ n' = [p \in CPUs |-> IF p < 2 THEN (IF again(p) THEN n[p] + 1 ELSE 0) ELSE n[p]]
  /\ UNCHANGED <<smpVars, mask, coll_mutex, coll_master, coll_mask, owner>>
  /\ UNCHANGED <<sel, menuing, sig, shared>>

\* barrier(&barr) of tests_mm(), between CPUs 0 and 1: five calls each
MmBarrier ==
  /\ \A p \in {0, 1} : at[p] = "m_barr"
  /\ at' = [p \in CPUs |-> IF p >= 2 THEN at[p]
                           ELSE IF n[p] < 4 THEN "m_work" ELSE "m_done"]
  /\ n' = [p \in CPUs |-> IF p < 2 THEN (n[p] + 1) % 5 ELSE n[p]]
  /\ UNCHANGED <<smpVars, mask, coll_mutex, coll_master, coll_mask, owner>>
  /\ UNCHANGED <<sel, menuing, sig, shared>>

-----------------------------------------------------------------------------
(* tests_flag()                                                            *)

\* flag_signal(), three times
Signal ==
  /\ Move(0, "f_signal", IF n[0] < 2 THEN "f_signal" ELSE After(0, 1))
  /\ sig' = sig + 1
  /\ n' = [n EXCEPT ![0] = (@ + 1) % 3]
  /\ UNCHANGED <<smpVars, mask, coll_mutex, coll_master, coll_mask, owner>>
  /\ UNCHANGED <<sel, menuing, shared>>

\* flag_wait() twice and flag_trywait(): each ends when there is a signal more
\* than there were waits, and takes it.
Wait ==
  /\ sig > 0
  /\ Move(1, "f_wait", IF n[1] < 2 THEN "f_wait" ELSE After(1, 1))
  /\ sig' = sig - 1
  /\ n' = [n EXCEPT ![1] = (@ + 1) % 3]
  /\ UNCHANGED <<smpVars, mask, coll_mutex, coll_master, coll_mask, owner>>
  /\ UNCHANGED <<sel, menuing, shared>>

-----------------------------------------------------------------------------
(* tests_mm()                                                              *)

\* CPU 0: p_shared and p_shared2
AllocFirst ==
  /\ Move(0, "m_alloc", "m_barr")
  /\ shared' = shared \cup {1, 2}
  /\ UNCHANGED <<smpVars, mask, coll_mutex, coll_master, coll_mask, owner>>
  /\ UNCHANGED <<sel, menuing, n, sig>>

\* After the first barrier each CPU allocates one more, and CPU 1 fills the first
\* two; after the others they only use the memory.
Allocated(p) == IF p = 0 THEN 3 ELSE 4
MmWork(p) ==
  /\ Move(p, "m_work", "m_barr")
  /\ shared' = IF n[p] = 1 THEN shared \cup {Allocated(p)} ELSE shared
  /\ UNCHANGED <<smpVars, mask, coll_mutex, coll_master, coll_mask, owner>>
  /\ UNCHANGED <<sel, menuing, n, sig>>

\* The pointers CPU p dereferences after barrier number n[p].
Used(p) ==
  CASE p = 0 /\ n[0] = 2 -> {1, 2} [] p = 0 /\ n[0] = 3 -> {1, 2, 3} [] p = 0 /\ n[0] = 4 -> {4}
    [] p = 1 /\ n[1] = 1 -> {1, 2} [] p = 1 /\ n[1] = 3 -> {4} [] p = 1 /\ n[1] = 4 -> {1, 2, 3}
    [] OTHER -> {}

\* tests_mm_reconf() works on memory of its own.
MmDone(p) ==
  /\ Move(p, "m_done", After(p, 2))
  /\ UNCHANGED <<smpVars, mask, coll_mutex, coll_master, coll_mask, owner, testVars>>

-----------------------------------------------------------------------------
(* tests_ipi()                                                             *)

\* Interrupts are on from sti() to the cli() before the last barrier.
IpiPlaces == {"i_first", "i_self", "i_send", "i_second", "i_wake", "i_waking", "i_hlt",
              "i_asleep", "i_halt"}

\* CPU 0: int $128, and an IPI to itself
SelfIpi ==
  /\ Move(0, "i_self", "i_send")
  /\ pend' = pend \cup {0}
  /\ tgt' = [tgt EXCEPT ![0] = 1]
  /\ UNCHANGED <<flags, pc, old, mask, coll_mutex, coll_master, coll_mask, owner, testVars>>

\* A CPU gets from the barrier to hlt in less than the seconds CPU 0 waits before
\* it sends the IPI.
Expected(u) == ~InTime \/ at[u] # "i_hlt"

\* send_ipi(u, 0x80)
SendTest ==
  /\ tgt[0] < cpu_online
  /\ Move(0, "i_send", "i_send")
  /\ Expected(tgt[0])
  /\ pend' = pend \cup {tgt[0]}
  /\ tgt' = [tgt EXCEPT ![0] = @ + 1]
  /\ UNCHANGED <<flags, pc, old, mask, coll_mutex, coll_master, coll_mask, owner, testVars>>

AllSent ==
  /\ tgt[0] = cpu_online
  /\ Move(0, "i_send", "i_second")
  /\ tgt' = [tgt EXCEPT ![0] = 0]
  /\ UNCHANGED <<flags, pend, pc, old, mask, coll_mutex, coll_master, coll_mask, owner, testVars>>

\* The APs: a bare hlt
TestHlt(p) ==
  /\ Move(p, "i_hlt", "i_asleep")
  /\ UNCHANGED <<smpVars, mask, coll_mutex, coll_master, coll_mask, owner, testVars>>

\* CPU 0: smp_wakeup(u) for u = 1, 2, ...
TestWake ==
  /\ tgt[0] < cpu_online
  /\ Move(0, "i_wake", "i_waking")
  /\ Go(0, "run", "w_wait")
  /\ UNCHANGED <<flags, pend, old, tgt, mask, coll_mutex, coll_master, coll_mask, owner, testVars>>

TestWoken ==
  /\ Move(0, "i_waking", "i_wake")
  /\ tgt' = [tgt EXCEPT ![0] = @ + 1]
  /\ UNCHANGED <<flags, pend, pc, old, mask, coll_mutex, coll_master, coll_mask, owner, testVars>>

AllWoken ==
  /\ tgt[0] = cpu_online
  /\ Move(0, "i_wake", "i_last")
  /\ tgt' = [tgt EXCEPT ![0] = 0]
  /\ UNCHANGED <<flags, pend, pc, old, mask, coll_mutex, coll_master, coll_mask, owner, testVars>>

\* smp_halt() has returned.
HaltOver(p) ==
  /\ Move(p, "i_halt", "i_last")
  /\ UNCHANGED <<smpVars, mask, coll_mutex, coll_master, coll_mask, owner, testVars>>

\* int_handler() for vector 128, outside smp_halt(): it ends a hlt, and nothing
\* else, whether the IPI is the one of the test or an older one.
TestInterrupt(p) ==
  /\ p \in pend /\ at[p] \in IpiPlaces /\ pc[p] \in {"run", "h_load", "h_store"} \cup InWakeup
  /\ pend' = pend \ {p}
  /\ at' = [at EXCEPT ![p] = IF @ = "i_asleep" THEN "i_second" ELSE @]
  /\ UNCHANGED <<flags, pc, old, tgt, mask, coll_mutex, coll_master, coll_mask, owner, testVars>>

-----------------------------------------------------------------------------
(* tests_menu(), and main() around it                                      *)

\* The user selects one test, all of them, or to return to the main menu and on
\* to a benchmark.
Select ==
  /\ Move(0, "t_select", "t_result")
  /\ sel' \in {{}, AllTests} \cup {{t} : t \in AllTests}
  /\ UNCHANGED <<smpVars, mask, coll_mutex, coll_master, coll_mask, owner, menuing, n, sig, shared>>

\* From a benchmark to the tests: the entry "tests >" or "default" of main().
EnterTests ==
  /\ \A p \in CPUs : at[p] = "bar" /\ pc[p] = "run"
  /\ menuing' \in BOOLEAN
  /\ at' = [p \in CPUs |-> IF menuing' THEN "t_menu" ELSE "d_first"]
  /\ sel' = AllTests
  /\ UNCHANGED <<smpVars, mask, coll_mutex, coll_master, coll_mask, owner, n, sig, shared>>

TestInit ==
  /\ Init
  /\ sel = {} /\ menuing = FALSE
  /\ n = [p \in CPUs |-> 0]
  /\ sig = 0
  /\ shared = {}

TestStep(p) ==
  \/ p = 0 /\ (Signal \/ AllocFirst \/ SelfIpi \/ SendTest \/ AllSent \/ TestWake \/ TestWoken
               \/ AllWoken \/ Select)
  \/ p = 1 /\ Wait
  \/ MmWork(p) \/ MmDone(p) \/ TestHlt(p) \/ HaltOver(p)

CpuStep(p) == TestStep(p) \/ (Step(p) /\ UNCHANGED testVars)

Barriers == TestBarrier \/ PairBarrier \/ MmBarrier \/ (GlobalBarrier /\ UNCHANGED testVars)

Delivery(p) == TestInterrupt(p) \/ (Deliver(p) /\ UNCHANGED testVars)

TestNext ==
  \/ Barriers \/ EnterTests
  \/ \E p \in CPUs : CpuStep(p) \/ Delivery(p)

\* Barriers open, a CPU keeps executing (the user answers), and one that sleeps
\* takes the IPI its local APIC has for it.
Asleep(p) == pc[p] = "h_asleep" \/ at[p] = "i_asleep"
TestSpec ==
  /\ TestInit /\ [][TestNext]_allVars
  /\ WF_allVars(Barriers)
  /\ \A p \in CPUs : WF_allVars(CpuStep(p) \/ (Asleep(p) /\ Delivery(p)))

-----------------------------------------------------------------------------
(* Correctness.                                                            *)

\* CPUs that a barrier lets go have called it at the same place, and for the same
\* time there: no CPU is a test or a round ahead.
SameCall ==
  /\ (\A p \in CPUs : at[p] \in GlobalPlaces) => \A p, q \in CPUs : at[p] = at[q] /\ n[p] = n[q]
  /\ \A l \in {"t_barr2", "m_barr"} : at[0] = l /\ at[1] = l => n[0] = n[1]

\* tests_mm() dereferences only pointers that were set in this execution, not NULL
\* or one left over in the static variables.
SharedSet == \A p \in CPUs : at[p] = "m_work" => Used(p) \subseteq shared

\* "should be waken up by IPI (TODO: works in 64 bit mode, but not in 32 bit...)"
\* (tests.c, line 287).  This is the first half, in 64 bit mode, where the handler
\* of vector 128 returns (see SmpHalt): all the tests end, every CPU gets back to
\* the menu or on to the payload, whatever IPIs are left over from the benchmarks,
\* and none waits for a signal that was taken already.  It needs InTime, without
\* which the IPI of tests_ipi() itself may come before the hlt.
InTests(p) == at[p] \notin Places
TestsEnd == \A p \in CPUs : InTests(p) ~> at[p] \in {"t_menu", "call"}
=============================================================================
