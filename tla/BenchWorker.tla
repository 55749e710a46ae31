---------------------------- MODULE BenchWorker ----------------------------
(***************************************************************************)
(* bench_worker() of benchmark.c, called again and again by all CPUs: for   *)
(* each number of load CPUs, CPU 0 measures while CPUs 1 .. load_nbr write   *)
(* to memory until their flag is signalled, and the others sleep in          *)
(* smp_halt().  The CPUs that take part meet at barr_dyn, a barrier whose    *)
(* max CPU 0 changes between two global barriers.                           *)
(*                                                                         *)
(* The global barrier is the rendezvous that module Barrier implements: it   *)
(* opens when every CPU waits at some call of it.                           *)
(***************************************************************************)
EXTENDS SmpHalt, Sequences

CONSTANTS LoadNbrs,    \* load_nbrs[]
          Ranges,      \* the number of load ranges (times strides)
          EpochMod     \* the epoch of barr_dyn wraps around

ASSUME BenchAssumption ==
  /\ LoadNbrs \in Seq(Nat)
  /\ Ranges \in Nat \ {0}
  /\ EpochMod \in Nat /\ EpochMod > 1
  /\ CPUs = 0..(cpu_online - 1) /\ cpu_online > 1

VARIABLES at,      \* where each CPU is in bench_worker()
          k,       \* its position in load_nbrs
          r,       \* its position in the load ranges
          dyn,     \* barr_dyn
          e,       \* the epoch of barr_dyn a CPU waits under
          flag     \* flags[]

benchVars == <<at, k, r, dyn, e, flag>>
vars == <<smpVars, benchVars>>

Sites == {"bar1", "bar2", "final"}      \* the calls of barrier(&global_barrier)
Places == Sites \cup {"init", "pick", "max", "go", "halt", "load", "dyn", "spin", "next",
                      "wake", "waking"}

NoFlag == [flag |-> 0, next |-> 0]

Init ==
  /\ SmpInit
  /\ at = [p \in CPUs |-> "init"]
  /\ k = [p \in CPUs |-> 1]
  /\ r = [p \in CPUs |-> 1]
  /\ dyn = [cnt |-> 0, epoch |-> 0, max |-> cpu_online + 1]
  /\ e = [p \in CPUs |-> 0]
  /\ flag = [p \in CPUs |-> NoFlag]

Load(p) == LoadNbrs[k[p]]

\* The CPU runs program text, outside smp_halt() and smp_wakeup().
Move(p, from, to) ==
  /\ pc[p] = "run" /\ at[p] = from
  /\ at' = [at EXCEPT ![p] = to]

-----------------------------------------------------------------------------
(* Plausible defects, one definition each, for the mutation runs.          *)

WakeFromOne(p) ==
  /\ at[p] = "next"
  /\ IF Load(p) = 0 \/ r[p] = Ranges
     THEN /\ IF p = 0
             THEN Move(p, "next", "wake") /\ tgt' = [tgt EXCEPT ![p] = 1] /\ UNCHANGED k
             ELSE Move(p, "next", "pick") /\ k' = [k EXCEPT ![p] = @ + 1] /\ UNCHANGED tgt
          /\ UNCHANGED r
     ELSE Move(p, "next", "load") /\ r' = [r EXCEPT ![p] = @ + 1] /\ UNCHANGED <<k, tgt>>
  /\ UNCHANGED <<flags, pend, pc, old, dyn, e, flag>>

MaxOneMore(p) ==
  /\ Move(p, "max", "bar2")
  /\ dyn' = IF p = 0 THEN [dyn EXCEPT !.max = Load(p)] ELSE dyn
  /\ UNCHANGED <<k, r, e, flag, smpVars>>

WokenSameLoad(p) ==
  /\ Move(p, "halt", "pick")
  /\ UNCHANGED <<k, r, dyn, e, flag, smpVars>>

TryWaitPeeks(p) ==
  /\ p # 0
  /\ ~ (flag[p].flag < flag[p].next + 1)
  /\ Move(p, "load", "dyn")
  /\ UNCHANGED <<k, r, dyn, e, flag, smpVars>>

-----------------------------------------------------------------------------
(* bench_worker()                                                          *)

\* Every CPU resets every flag: flag_init(&flags[u]).
InitFlags(p) ==
  /\ Move(p, "init", "pick")
  /\ flag' = [u \in CPUs |-> NoFlag]
  /\ k' = [k EXCEPT ![p] = 1]
  /\ UNCHANGED <<r, dyn, e, smpVars>>

\* foreach (load_nbr, load_nbrs) { if (load_nbr >= cpu_online) break; ...
Pick(p) ==
  /\ Move(p, "pick", IF k[p] <= Len(LoadNbrs) /\ Load(p) < cpu_online THEN "bar1" ELSE "final")
  /\ UNCHANGED <<k, r, dyn, e, flag, smpVars>>

\* if (CPU_ID == 0) barr_dyn.max = load_nbr+1;
SetMax(p) ==
  /\ Move(p, "max", "bar2")
  /\ dyn' = IF p = 0 THEN [dyn EXCEPT !.max = Load(p) + 1] ELSE dyn
  /\ UNCHANGED <<k, r, e, flag, smpVars>>

\* if (myid > load_nbr) smp_halt(); else the first load range
Start(p) ==
  /\ Move(p, "go", IF p > Load(p) THEN "halt" ELSE "load")
  /\ pc' = IF p > Load(p) THEN [pc EXCEPT ![p] = "h_load"] ELSE pc
  /\ r' = [r EXCEPT ![p] = 1]
  /\ UNCHANGED <<flags, pend, old, tgt, k, dyn, e, flag>>

\* smp_halt() returned: on to the next load_nbr.
Woken(p) ==
  /\ Move(p, "halt", "pick")
  /\ k' = [k EXCEPT ![p] = @ + 1]
  /\ UNCHANGED <<r, dyn, e, flag, smpVars>>

\* CPU 0 has measured, and calls flag_signal(&flags[u]) for each load CPU.
Measure(p) ==
  /\ p = 0
  /\ Move(p, "load", "dyn")
  /\ flag' = [u \in CPUs |-> IF u \in 1..Load(p) THEN [flag[u] EXCEPT !.flag = @ + 1] ELSE flag[u]]
  /\ UNCHANGED <<k, r, dyn, e, smpVars>>

\* load_until_flag(): flag_trywait(&flags[myid]) succeeds.
LoadDone(p) ==
  /\ p # 0
  /\ ~ (flag[p].flag < flag[p].next + 1)
  /\ Move(p, "load", "dyn")
  /\ flag' = [flag EXCEPT ![p].next = @ + 1]
  /\ UNCHANGED <<k, r, dyn, e, smpVars>>

\* barrier(&barr_dyn): the CPU whose number equals max opens it.
DynArrive(p) ==
  /\ IF dyn.cnt + 1 = dyn.max
     THEN /\ Move(p, "dyn", "next")
          /\ dyn' = [dyn EXCEPT !.cnt = 0, !.epoch = (@ + 1) % EpochMod]
     ELSE /\ Move(p, "dyn", "spin")
          /\ dyn' = [dyn EXCEPT !.cnt = @ + 1]
  /\ e' = [e EXCEPT ![p] = dyn.epoch]
  /\ UNCHANGED <<k, r, flag, smpVars>>

DynLeave(p) ==
  /\ e[p] # dyn.epoch
  /\ Move(p, "spin", "next")
  /\ UNCHANGED <<k, r, dyn, e, flag, smpVars>>

\* The next load range, or the end of the inner loops (label_break): CPU 0 goes
\* on to wake up the CPUs above load_nbr, the others to the next load_nbr.
NextRange(p) ==
  /\ at[p] = "next"
  /\ IF Load(p) = 0 \/ r[p] = Ranges
     THEN /\ IF p = 0
             THEN Move(p, "next", "wake") /\ tgt' = [tgt EXCEPT ![p] = Load(p) + 1] /\ UNCHANGED k
             ELSE Move(p, "next", "pick") /\ k' = [k EXCEPT ![p] = @ + 1] /\ UNCHANGED tgt
          /\ UNCHANGED r
     ELSE Move(p, "next", "load") /\ r' = [r EXCEPT ![p] = @ + 1] /\ UNCHANGED <<k, tgt>>
  /\ UNCHANGED <<flags, pend, pc, old, dyn, e, flag>>

\* for (u=load_nbr+1; u<cpu_online; u++) smp_wakeup(u);
WakeNext(p) ==
  /\ at[p] = "wake"
  /\ IF tgt[p] < cpu_online
     THEN Move(p, "wake", "waking") /\ pc' = [pc EXCEPT ![p] = "w_wait"] /\ UNCHANGED k
     ELSE Move(p, "wake", "pick") /\ k' = [k EXCEPT ![p] = @ + 1] /\ UNCHANGED pc
  /\ UNCHANGED <<flags, pend, old, tgt, r, dyn, e, flag>>

WakeDone(p) ==
  /\ Move(p, "waking", "wake")
  /\ tgt' = [tgt EXCEPT ![p] = @ + 1]
  /\ UNCHANGED <<flags, pend, pc, old, k, r, dyn, e, flag>>

\* Everybody waits at a call of barrier(&global_barrier), and each CPU goes on
\* from its own.  After the last one the caller calls bench_worker() again.
GlobalBarrier ==
  /\ \A p \in CPUs : pc[p] = "run" /\ at[p] \in Sites
  /\ at' = [p \in CPUs |-> CASE at[p] = "bar1" -> "max"
                             [] at[p] = "bar2" -> "go"
                             [] at[p] = "final" -> "init"]
  /\ UNCHANGED <<k, r, dyn, e, flag, smpVars>>

Step(p) ==
  \/ InitFlags(p) \/ Pick(p) \/ SetMax(p) \/ Start(p) \/ Woken(p) \/ Measure(p)
  \/ LoadDone(p) \/ DynArrive(p) \/ DynLeave(p) \/ NextRange(p) \/ WakeNext(p) \/ WakeDone(p)
  \/ SmpStep(p) /\ UNCHANGED benchVars

Deliver(p) == Interrupt(p) /\ UNCHANGED benchVars

Next == GlobalBarrier \/ \E p \in CPUs : Step(p) \/ Deliver(p)

Spec == Init /\ [][Next]_vars

\* CPUs keep executing, and the local APIC delivers what is pending.
FairSpec ==
  /\ Spec
  /\ WF_vars(GlobalBarrier)
  /\ \A p \in CPUs : WF_vars(Step(p)) /\ WF_vars(Deliver(p))

-----------------------------------------------------------------------------
(* Correctness.                                                            *)

\* The global barrier always joins calls of the same place, for the same load:
\* no CPU runs ahead of the others by a whole episode.
SameCallSite ==
  (\A p \in CPUs : at[p] \in Sites) =>
    \A p, q \in CPUs : at[p] = at[q] /\ k[p] = k[q]

\* At barr_dyn wait CPUs that take part in the same load range and nobody else,
\* and max is their number: it never opens early, and never waits for a CPU that
\* sleeps.
DynOfThisLoad ==
  \A p \in CPUs : at[p] = "dyn" \/ (at[p] = "spin" /\ e[p] = dyn.epoch) =>
    /\ dyn.max = Load(p) + 1
    /\ p <= Load(p)
    /\ \A q \in CPUs : at[q] = "dyn" => k[q] = k[p] /\ r[q] = r[p]

\* A signal ends one load, and never the next one: a load CPU that arrives at
\* barr_dyn has consumed every signal that was sent, though CPU 0 may have sent
\* the one for this range before the CPU began to load.
SignalUsed ==
  \A p \in CPUs : at[p] = "dyn" \/ (at[p] = "spin" /\ e[p] = dyn.epoch) =>
    flag[p].flag = flag[p].next

\* The benchmark ends on every CPU, every time.  (In 64 bit mode, as Interrupt of
\* SmpHalt is.)
BenchmarkEnds == \A p \in CPUs : at[p] = "init" ~> at[p] = "final"
=============================================================================
