------------------------------ MODULE SmpBoot ------------------------------
(***************************************************************************)
(* How the application processors (APs) are started and counted, until all  *)
(* CPUs that came up leave the first barrier and enter main():             *)
(*   apic_init() of apic.c wakes one AP after the other from the bootstrap  *)
(*   processor (BSP), CPU 0;                                               *)
(*   start_smp.inc gives an AP its stack, and with it its cpu_id, by the id *)
(*   it finds in a variable that all APs share;                            *)
(*   main_ap() and main_bsp() of main.c count the CPUs and meet.           *)
(* The protocol relies on a delay of 100 ms that the BSP grants each AP.    *)
(* The constant Late says whether an AP may need longer.                   *)
(***************************************************************************)
EXTENDS Integers, FiniteSets

CONSTANTS MaxCpu,   \* MAX_CPU, the size of stack[]
          Late      \* an AP may be on its way still when the BSP's delay is over

ASSUME CountAssumption == MaxCpu \in Nat \ {0}
ASSUME LateAssumption == Late \in BOOLEAN

VARIABLES cpu_cnt,     \* hw_info.cpu_cnt
          sel,         \* the APs that the options maxcpu and cpumask select
          alive,       \* the APs that react to an IPI
          u,           \* the loop counter of apic_init()
          smp_apid,    \* the id the APs read
          pc,
          stk,         \* the entry of stack[] a CPU uses: its cpu_id; 0 for none
          wakelock,    \* stack[u].info.wakelock is locked
          missed,      \* APs of which the BSP printed "CPU did not come up."
          cpu_online,
          old,         \* the value of cpu_online a CPU loaded
          cnt, epoch, max,     \* global_barrier
          c                    \* the local c of barrier()

bootVars == <<u, smp_apid, stk, wakelock, missed>>
countVars == <<cpu_online, old>>
barrierVars == <<cnt, epoch, max, c>>
inputs == <<cpu_cnt, sel, alive>>
vars == <<inputs, bootVars, pc, countVars, barrierVars>>

APs == 1..(MaxCpu - 1)
CPUs == 0..(MaxCpu - 1)

InBarrier == {"b_arrive", "b_test", "b_spin"}

-----------------------------------------------------------------------------
(* Plausible defects, one definition each, for the mutation runs.          *)

MaxTooSmall ==
  /\ alive \in SUBSET APs
  /\ u = 1 /\ smp_apid = 1
  /\ pc = [p \in CPUs |-> IF p = 0 THEN "wake" ELSE "off"]
  /\ stk = [p \in CPUs |-> 0]
  /\ wakelock = [p \in CPUs |-> FALSE]
  /\ missed = {}
  /\ cpu_online = 0 /\ old = [p \in CPUs |-> 0]
  /\ cnt = 0 /\ epoch = 0 /\ max = MaxCpu - 2 /\ c = [p \in CPUs |-> 0]

Go(p, from, to) ==
  /\ pc[p] = from
  /\ pc' = [pc EXCEPT ![p] = to]

BspNotCounted ==
  /\ Go(0, "load", "setmax")
  /\ UNCHANGED <<inputs, bootVars, countVars, barrierVars>>

MaxFromTables ==
  /\ Go(0, "setmax", "await")
  /\ max' = cpu_cnt
  /\ UNCHANGED <<inputs, bootVars, countVars, cnt, epoch, c>>

IdOfPrevious ==
  /\ u \in sel
  /\ smp_apid' = u - 1
  /\ pc' = [pc EXCEPT ![0] = "poll", ![u] = IF u \in alive THEN "start" ELSE "off"]
  /\ pc[0] = "wake"
  /\ UNCHANGED <<inputs, u, stk, wakelock, missed, countVars, barrierVars>>

-----------------------------------------------------------------------------
(* The code.                                                               *)

\* The BSP enters main_bsp(); smp_apid is as start_smp.inc defines it.
AtReset ==
  /\ alive \in SUBSET APs
  /\ u = 1 /\ smp_apid = 1
  /\ pc = [p \in CPUs |-> IF p = 0 THEN "wake" ELSE "off"]
  /\ stk = [p \in CPUs |-> 0]
  /\ wakelock = [p \in CPUs |-> FALSE]
  /\ missed = {}
  /\ cpu_online = 0 /\ old = [p \in CPUs |-> 0]
  /\ cnt = 0 /\ epoch = 0 /\ max = MaxCpu + 1 /\ c = [p \in CPUs |-> 0]

\* The firmware lists cpu_cnt CPUs, of which hw_info.cpu[0] is the BSP, and the
\* options select APs among them (BootPath has the code that finds them).
Init ==
  /\ cpu_cnt \in 1..MaxCpu /\ sel \in SUBSET (1..(cpu_cnt - 1))
  /\ AtReset

\* The AP was given the time to lock its wakelock.
HasLocked(p) == pc[p] \in {"init", "main"} \cup InBarrier

\* The delays of the loop are over.
DelayOver(s) == Late \/ s \notin alive \/ HasLocked(s)

\* apic_init(): the AP is not wanted.
SkipAP ==
  /\ pc[0] = "wake" /\ u < cpu_cnt /\ u \notin sel
  /\ u' = u + 1
  /\ UNCHANGED <<inputs, smp_apid, stk, wakelock, missed, pc, countVars, barrierVars>>

\* *ptr_apid = u; the INIT and the start-up IPIs.
WakeAP ==
  /\ u \in sel
  /\ smp_apid' = u
  /\ pc' = [pc EXCEPT ![0] = "poll", ![u] = IF u \in alive THEN "start" ELSE "off"]
  /\ pc[0] = "wake"
  /\ UNCHANGED <<inputs, u, stk, wakelock, missed, countVars, barrierVars>>

\* mutex_trylock(&(stack[u].info.wakelock)) after 100 ms
PollAP ==
  /\ Go(0, "poll", "wake")
  /\ DelayOver(u)
  /\ missed' = IF wakelock[u] THEN missed ELSE missed \cup {u}
  /\ wakelock' = [wakelock EXCEPT ![u] = TRUE]
  /\ u' = u + 1
  /\ UNCHANGED <<inputs, smp_apid, stk, countVars, barrierVars>>

\* The loop is over; the BSP goes on to count itself.
AllCalled ==
  /\ Go(0, "wake", "load")
  /\ u = cpu_cnt
  /\ UNCHANGED <<inputs, bootVars, countVars, barrierVars>>

\* Smp32 of start_smp.inc: the stack is stack[smp_apid].
TakeStack(p) ==
  /\ Go(p, "start", "load")
  /\ stk' = [stk EXCEPT ![p] = smp_apid]
  /\ UNCHANGED <<inputs, u, smp_apid, wakelock, missed, countVars, barrierVars>>

\* cpu_online++ is a load ...
BspLoad ==
  /\ Go(0, "load", "store")
  /\ old' = [old EXCEPT ![0] = cpu_online]
  /\ UNCHANGED <<inputs, bootVars, cpu_online, barrierVars>>

ApLoad(p) ==
  /\ Go(p, "load", "store")
  /\ old' = [old EXCEPT ![p] = cpu_online]
  /\ UNCHANGED <<inputs, bootVars, cpu_online, barrierVars>>

\* ... and a store.
Store(p) ==
  /\ Go(p, "store", IF p = 0 THEN "setmax" ELSE "lock")
  /\ cpu_online' = old[p] + 1
  /\ UNCHANGED <<inputs, bootVars, old, barrierVars>>

\* mutex_lock(&(my_cpu_info()->wakelock))
Lock(p) ==
  /\ Go(p, "lock", "init")
  /\ ~wakelock[stk[p]]
  /\ wakelock' = [wakelock EXCEPT ![stk[p]] = TRUE]
  /\ UNCHANGED <<inputs, u, smp_apid, stk, missed, countVars, barrierVars>>

\* mm_init_ap(), apic_init_ap() and idt_install_ap() set up registers of this CPU.
InitAP(p) ==
  /\ Go(p, "init", "b_arrive")
  /\ UNCHANGED <<inputs, bootVars, countVars, barrierVars>>

\* global_barrier.max = cpu_online
SetMax ==
  /\ Go(0, "setmax", "await")
  /\ max' = cpu_online
  /\ UNCHANGED <<inputs, bootVars, countVars, cnt, epoch, c>>

\* The loop while (cnt < max - 1) ends.
Await ==
  /\ Go(0, "await", "b_arrive")
  /\ cnt >= max - 1
  /\ UNCHANGED <<inputs, bootVars, countVars, barrierVars>>

\* barrier(&global_barrier): the number ...
BarrierArrive(p) ==
  /\ Go(p, "b_arrive", "b_test")
  /\ cnt' = cnt + 1
  /\ c' = [c EXCEPT ![p] = cnt + 1]
  /\ UNCHANGED <<inputs, bootVars, countVars, epoch, max>>

\* ... the test, which makes the last CPU reset the counter and end the episode
\* (see the module Barrier for the steps) ...
BarrierTest(p) ==
  /\ IF c[p] = max
     THEN Go(p, "b_test", "main") /\ cnt' = 0 /\ epoch' = 1
     ELSE Go(p, "b_test", "b_spin") /\ UNCHANGED <<cnt, epoch>>
  /\ UNCHANGED <<inputs, bootVars, countVars, max, c>>

\* ... and the wait.
BarrierLeave(p) ==
  /\ Go(p, "b_spin", "main")
  /\ epoch = 1
  /\ UNCHANGED <<inputs, bootVars, countVars, barrierVars>>

InBarrierStep(p) == BarrierArrive(p) \/ BarrierTest(p) \/ BarrierLeave(p)

BspStep ==
  \/ SkipAP \/ WakeAP \/ PollAP \/ AllCalled
  \/ BspLoad \/ Store(0) \/ SetMax \/ Await \/ InBarrierStep(0)

ApStep(p) ==
  TakeStack(p) \/ ApLoad(p) \/ Store(p) \/ Lock(p) \/ InitAP(p) \/ InBarrierStep(p)

Next == BspStep \/ \E p \in APs : ApStep(p)

\* Every CPU keeps executing.
Spec == Init /\ [][Next]_vars /\ WF_vars(BspStep) /\ \A p \in APs : WF_vars(ApStep(p))

-----------------------------------------------------------------------------
(* Correctness.                                                            *)

\* The APs that were woken and react.
Up == sel \cap alive

HasStack(p) == p \in APs /\ pc[p] \notin {"off", "start"}

\* Each AP runs on its own entry of stack[], though all of them take the index
\* from one variable that the BSP keeps overwriting (apic.c, line 295;
\* start_smp.inc, line 105).
OwnStack == \A p \in APs : HasStack(p) => stk[p] = p

\* When the BSP fixes the number of participants of the global barrier, the
\* unlocked increments of cpu_online have counted every CPU that came up once.
OnlineExact ==
  pc[0] \in {"await", "main"} \cup InBarrier =>
    cpu_online = 1 + Cardinality(Up) /\ max = cpu_online

\* No CPU is in main() before all CPUs that came up have arrived.
BootRendezvous ==
  (\E p \in CPUs : pc[p] = "main") =>
    \A p \in Up \cup {0} : pc[p] = "main" \/ c[p] > 0

\* "if we lock the wakelock, the AP will block in main_ap()" (apic.c, 316-317):
\* an AP the BSP has given up never gets past its wakelock.
MissedBlock == \A p \in missed : ~HasLocked(p)
=============================================================================
