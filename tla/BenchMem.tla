----------------------------- MODULE BenchMem ------------------------------
(***************************************************************************)
(* bench_mem() of benchmark.c: CPU 0 measures alone while the others are in  *)
(* smp_halt(), wakes up CPU 1, measures again while CPU 1 loads the memory,  *)
(* wakes up everybody, and all meet at the global barrier.                   *)
(***************************************************************************)
EXTENDS SmpHalt

CONSTANT Meetings    \* how often CPUs 0 and 1 meet at barr2 (9 in the code)

VARIABLES at,      \* where each CPU is in bench_mem()
          met      \* how often the two have met at barr2

vars == <<smpVars, at, met>>

Init ==
  /\ SmpInit
  /\ at = [p \in CPUs |-> "begin"]
  /\ met = 0

Move(p, from, to) ==
  /\ pc[p] = "run" /\ at[p] = from
  /\ at' = [at EXCEPT ![p] = to]

Call(p, label) == pc' = [pc EXCEPT ![p] = label]

\* The first measurement of CPU 0; the others call smp_halt().
Begin(p) ==
  /\ IF p = 0
     THEN IF cpu_online > 1
          THEN /\ Move(p, "begin", "first") /\ Call(p, "w_wait")
               /\ tgt' = [tgt EXCEPT ![p] = 1]
          ELSE Move(p, "begin", "loop") /\ tgt' = [tgt EXCEPT ![p] = 1] /\ UNCHANGED pc
     ELSE Move(p, "begin", "halt") /\ Call(p, "h_load") /\ UNCHANGED tgt
  /\ UNCHANGED <<flags, pend, old, met>>

\* smp_wakeup(1) returned, and on CPU 1 smp_halt().
ToBarr2(p) ==
  /\ p \in {0, 1}
  /\ Move(p, IF p = 0 THEN "first" ELSE "halt", "barr2")
  /\ UNCHANGED <<smpVars, met>>

\* barrier(&barr2), and the load and the measurement in between.
Meet ==
  /\ \A p \in {0, 1} : at[p] = "barr2" /\ pc[p] = "run"
  /\ met' = met + 1
  /\ IF met + 1 = Meetings
     THEN at' = [at EXCEPT ![0] = "loop", ![1] = "bar"] /\ tgt' = [tgt EXCEPT ![0] = 1]
     ELSE UNCHANGED <<at, tgt>>
  /\ UNCHANGED <<flags, pend, pc, old>>

\* smp_halt() returned on another CPU.
Woken(p) ==
  /\ p # 1
  /\ Move(p, "halt", "bar")
  /\ UNCHANGED <<smpVars, met>>

\* for (u = 1; u<cpu_online; u++) smp_wakeup(u);
WakeNext(p) ==
  /\ at[p] = "loop"
  /\ IF tgt[p] < cpu_online
     THEN Move(p, "loop", "waking") /\ Call(p, "w_wait")
     ELSE Move(p, "loop", "bar") /\ UNCHANGED pc
  /\ UNCHANGED <<flags, pend, old, tgt, met>>

WakeDone(p) ==
  /\ Move(p, "waking", "loop")
  /\ tgt' = [tgt EXCEPT ![p] = @ + 1]
  /\ UNCHANGED <<flags, pend, pc, old, met>>

Step(p) ==
  \/ Begin(p) \/ ToBarr2(p) \/ Woken(p) \/ WakeNext(p) \/ WakeDone(p)
  \/ SmpStep(p) /\ UNCHANGED <<at, met>>

Deliver(p) == Interrupt(p) /\ UNCHANGED <<at, met>>

Next == Meet \/ \E p \in CPUs : Step(p) \/ Deliver(p)

\* CPUs keep executing, and the local APIC delivers what is pending.
FairSpec ==
  /\ Init /\ [][Next]_vars
  /\ WF_vars(Meet)
  /\ \A p \in CPUs : WF_vars(Step(p)) /\ WF_vars(Deliver(p))

\* The barrier at the end of bench_mem() opens, as the caller expects, who goes on
\* to bench_rangestride() and then "all CPUs leaving the payload: go to sleep"
\* (main.c, line 307).
BenchmarkEnds == <>(\A p \in CPUs : at[p] = "bar")
=============================================================================
