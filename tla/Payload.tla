------------------------------ MODULE Payload ------------------------------
(***************************************************************************)
(* What all CPUs do together in main(): the choice between the default      *)
(* payload and the menus (main.c), menu() of menu.c, the benchmark menu and *)
(* the default payload of payload.c, and how both change the cache mode of  *)
(* the two benchmark buffers with heap_reconfig() and tlb_shootdown() of    *)
(* mm.c.                                                                   *)
(*                                                                         *)
(* One page stands for a buffer.  A benchmark is its accesses to the        *)
(* buffers; of bench_mem() it is also where it leaves each CPU for ever (the *)
(* module BenchMem shows how it gets there).  A barrier is the step that    *)
(* lets all CPUs go (the module Barrier shows it is one); they must then    *)
(* all have called it at the same place in the program, which is a property *)
(* here.                                                                   *)
(***************************************************************************)
EXTENDS Integers, Sequences, FiniteSets

CONSTANTS CPUs,      \* the CPUs that came up; 0 is the BSP
          None       \* no entry in the TLB

ASSUME CPUsAssumption == CPUs \subseteq Nat /\ IsFiniteSet(CPUs) /\ 0 \in CPUs

VARIABLES mode,       \* the static variable of main()
          result,     \* the static variable of menu()
          pc,         \* where each CPU is
          site,       \* the menu it is in
          flag,       \* the local flag of payload_benchmark_menu()
          todo,       \* the heap_reconfig() calls it is about to make
          round,      \* payload_benchmark(): the cache configurations left, or 0
          pt_mutex,   \* pt_mutex is locked
          pte,        \* the flags of each buffer in the page table
          tlb,        \* and in each CPU's TLB
          want        \* history: the configuration payload_benchmark() asked for last

menuVars == <<mode, result, site, flag>>
tableVars == <<pt_mutex, pte, tlb>>
vars == <<menuVars, pc, todo, round, tableVars, want>>

Buffers == {"p_buffer", "p_contender"}

\* Flags of a page table entry.
WriteBack == [pwt |-> FALSE, pcd |-> FALSE]
WriteThrough == [pwt |-> TRUE, pcd |-> FALSE]
CacheDisable == [pwt |-> FALSE, pcd |-> TRUE]
Flags == {WriteBack, WriteThrough, CacheDisable}

\* The entries of the menus that are modelled; those of reconfmenu[] have the
\* values of cachemode_t, 0 to 2.
Abort == 999
Values(s) ==
  CASE s = "Main menu"  -> {1, 3, Abort}
    [] s = "Benchmarks" -> {1, 2, 6, 7, Abort}
    [] OTHER            -> {0, 1, 2, Abort}

Sites == {"Main menu", "Benchmarks"} \cup Buffers
Barriers == {"b_238", "b_262", "b_61", "b_99", "b_197", "b_104", "b_515", "b_123", "b_130",
             "b_153", "b_652"}
Steps == {"ask", "mode", "select", "return", "lock", "pwt", "pcd", "invlpg", "unlock",
          "shoot", "bench", "next", "mem", "wakeup", "halted", "stop"}

\* The CPUs enter main(); the buffers are as init_buffers() will map them
\* (BENCH_WORK_FLAGS and BENCH_LOAD_FLAGS are 0 in config.h).
Init ==
  /\ mode = "default" /\ result = 0
  /\ pc = [p \in CPUs |-> "b_238"]
  /\ site = [p \in CPUs |-> "Main menu"]
  /\ flag = [p \in CPUs |-> WriteBack]
  /\ todo = [p \in CPUs |-> <<>>]
  /\ round = [p \in CPUs |-> 0]
  /\ pt_mutex = FALSE
  /\ pte = [b \in Buffers |-> WriteBack]
  /\ tlb = [p \in CPUs |-> [b \in Buffers |-> None]]
  /\ want = pte

Go(p, from, to) ==
  /\ pc[p] = from
  /\ pc' = [pc EXCEPT ![p] = to]

\* The barrier b lets all CPUs go, CPU 0 to one place and the others to another.
Released(b, first, others) ==
  /\ \A p \in CPUs : pc[p] = b
  /\ pc' = [p \in CPUs |-> IF p = 0 THEN first ELSE others]

\* Where CPU p goes from heap_reconfig() when all calls are made.
AfterReconf(p) == IF round[p] > 0 THEN "b_123" ELSE "b_61"

-----------------------------------------------------------------------------
(* Plausible defects, one definition each, for the mutation runs.          *)

NoSecondBarrier ==
  /\ Released("b_61", "select", "return")
  /\ UNCHANGED <<menuVars, todo, round, tableVars, want>>

ShootOne(p) ==
  /\ Go(p, "shoot", "b_130")
  /\ tlb' = [tlb EXCEPT ![p]["p_buffer"] = None]
  /\ UNCHANGED <<menuVars, todo, round, pt_mutex, pte, want>>

NotUnlocked(p) ==
  /\ Go(p, "unlock", IF Len(todo[p]) > 1 THEN "lock" ELSE AfterReconf(p))
  /\ todo' = [todo EXCEPT ![p] = Tail(@)]
  /\ UNCHANGED <<menuVars, round, tableVars, want>>

SecondForgotten(p) ==
  /\ Go(p, "unlock", AfterReconf(p))
  /\ pt_mutex' = FALSE
  /\ todo' = [todo EXCEPT ![p] = Tail(@)]
  /\ site' = [site EXCEPT ![p] = IF round[p] > 0 THEN @ ELSE "Benchmarks"]
  /\ UNCHANGED <<mode, result, flag, round, pte, tlb, want>>

-----------------------------------------------------------------------------
(* main()                                                                  *)

\* barrier(&global_barrier), line 238
MainBarrier ==
  /\ Released("b_238", "ask", "b_262")
  /\ UNCHANGED <<menuVars, todo, round, tableVars, want>>

\* CPU 0: with OFFER_MENU == 1 a key within five seconds gets the menu; the
\* other settings always take one of the two.
AskMode(p) ==
  /\ Go(p, "ask", "b_262")
  /\ mode' \in {"default", "menu"}
  /\ UNCHANGED <<result, site, flag, todo, round, tableVars, want>>

\* barrier(&global_barrier), line 262
ModeBarrier ==
  /\ Released("b_262", "mode", "mode")
  /\ UNCHANGED <<menuVars, todo, round, tableVars, want>>

\* if (mode == mode_menu): the main menu, or payload_benchmark().
TestMode(p) ==
  /\ Go(p, "mode", IF mode = "menu" THEN "b_61" ELSE "b_104")
  /\ round' = [round EXCEPT ![p] = IF mode = "menu" THEN 0 ELSE 3]
  /\ UNCHANGED <<menuVars, todo, tableVars, want>>

-----------------------------------------------------------------------------
(* menu(), and what its callers do with what it returns                    *)

\* barrier(&global_barrier), line 61
MenuBarrier ==
  /\ Released("b_61", "select", "b_99")
  /\ UNCHANGED <<menuVars, todo, round, tableVars, want>>

\* CPU 0: the user selects an entry.
Select(p) ==
  /\ Go(p, "select", "b_99")
  /\ result' \in Values(site[p])
  /\ UNCHANGED <<mode, site, flag, todo, round, tableVars, want>>

\* barrier(&global_barrier), line 99
ResultBarrier ==
  /\ Released("b_99", "return", "return")
  /\ UNCHANGED <<menuVars, todo, round, tableVars, want>>

\* return result, in main()
FromMainMenu(p) ==
  /\ site[p] = "Main menu"
  /\ Go(p, "return", CASE result = 1 -> "b_104" [] result = 3 -> "b_197" [] OTHER -> "stop")
  /\ round' = [round EXCEPT ![p] = IF result = 1 THEN 3 ELSE 0]
  /\ site' = [site EXCEPT ![p] = IF result = 3 THEN "Benchmarks" ELSE @]
  /\ UNCHANGED <<mode, result, flag, todo, tableVars, want>>

\* barrier(&global_barrier), line 197 of payload.c; flag is a new variable.
BenchMenuBarrier ==
  /\ Released("b_197", "b_61", "b_61")
  /\ flag' = [p \in CPUs |-> WriteBack]
  /\ UNCHANGED <<mode, result, site, todo, round, tableVars, want>>

\* return result, in the loop of payload_benchmark_menu()
FromBenchMenu(p) ==
  /\ site[p] = "Benchmarks"
  /\ Go(p, "return", CASE result = 6 -> "bench" [] result = 7 -> "mem" [] OTHER -> "b_61")
  /\ site' = [site EXCEPT ![p] = CASE result = 1 -> "p_buffer" [] result = 2 -> "p_contender"
                                   [] result = Abort -> "Main menu" [] OTHER -> @]
  /\ UNCHANGED <<mode, result, flag, todo, round, tableVars, want>>

\* switch (r): the flags of the cases 1, 2 and 3.
CaseFlag(v, default) ==
  CASE v = 1 -> CacheDisable [] v = 2 -> WriteThrough [] v = 3 -> WriteBack [] OTHER -> default

\* return result, in the cases 1 and 2 of that loop
FromReconfMenu(p) ==
  /\ site[p] \in Buffers
  /\ Go(p, "return", IF result = Abort THEN "b_61" ELSE "lock")
  /\ flag' = [flag EXCEPT ![p] = CaseFlag(result, @)]
  /\ todo' = [todo EXCEPT ![p] = IF result = Abort THEN <<>> ELSE <<<<site[p], flag'[p]>>>>]
  /\ site' = [site EXCEPT ![p] = IF result = Abort THEN "Benchmarks" ELSE @]
  /\ UNCHANGED <<mode, result, round, tableVars, want>>

-----------------------------------------------------------------------------
(* heap_reconfig(), tlb_shootdown()                                        *)

\* mutex_lock(&pt_mutex)
Lock(p) ==
  /\ Go(p, "lock", "pwt")
  /\ ~pt_mutex
  /\ pt_mutex' = TRUE
  /\ UNCHANGED <<menuVars, todo, round, pte, tlb, want>>

\* reconf_adr() writes one flag after the other ...
SetPwt(p) ==
  /\ Go(p, "pwt", "pcd")
  /\ pte' = [pte EXCEPT ![Head(todo[p])[1]].pwt = Head(todo[p])[2].pwt]
  /\ UNCHANGED <<menuVars, todo, round, pt_mutex, tlb, want>>

SetPcd(p) ==
  /\ Go(p, "pcd", "invlpg")
  /\ pte' = [pte EXCEPT ![Head(todo[p])[1]].pcd = Head(todo[p])[2].pcd]
  /\ UNCHANGED <<menuVars, todo, round, pt_mutex, tlb, want>>

\* ... and invalidates the entry of its own TLB.
Invlpg(p) ==
  /\ Go(p, "invlpg", "unlock")
  /\ tlb' = [tlb EXCEPT ![p][Head(todo[p])[1]] = None]
  /\ UNCHANGED <<menuVars, todo, round, pt_mutex, pte, want>>

\* mutex_unlock(&pt_mutex), and on to the next call or back to the caller.
Unlock(p) ==
  /\ Go(p, "unlock", IF Len(todo[p]) > 1 THEN "lock" ELSE AfterReconf(p))
  /\ pt_mutex' = FALSE
  /\ todo' = [todo EXCEPT ![p] = Tail(@)]
  /\ site' = [site EXCEPT ![p] = IF round[p] > 0 THEN @ ELSE "Benchmarks"]
  /\ UNCHANGED <<mode, result, flag, round, pte, tlb, want>>

\* tlb_shootdown() of both buffers, on the other CPUs
Shootdown(p) ==
  /\ Go(p, "shoot", "b_130")
  /\ tlb' = [tlb EXCEPT ![p] = [b \in Buffers |-> None]]
  /\ UNCHANGED <<menuVars, todo, round, pt_mutex, pte, want>>

\* A CPU may load an entry into its TLB, or drop it, at any time.
Load(p, b) ==
  /\ tlb[p][b] = None
  /\ tlb' = [tlb EXCEPT ![p][b] = pte[b]]
  /\ UNCHANGED <<menuVars, pc, todo, round, pt_mutex, pte, want>>

Evict(p, b) ==
  /\ tlb[p][b] # None
  /\ tlb' = [tlb EXCEPT ![p][b] = None]
  /\ UNCHANGED <<menuVars, pc, todo, round, pt_mutex, pte, want>>

-----------------------------------------------------------------------------
(* payload_benchmark()                                                     *)

\* barrier(&global_barrier), line 104: the buffers are there.
BuffersBarrier ==
  /\ Released("b_104", "bench", "bench")
  /\ UNCHANGED <<menuVars, todo, round, tableVars, want>>

\* The benchmarks: all of them, or the one of the menu.  The last thing
\* bench_worker_cut() does is barrier(&global_barrier), line 515 of benchmark.c.
Bench(p) ==
  /\ Go(p, "bench", "b_515")
  /\ UNCHANGED <<menuVars, todo, round, tableVars, want>>

BenchBarrier ==
  /\ Released("b_515", "next", "next")
  /\ UNCHANGED <<menuVars, todo, round, tableVars, want>>

\* From the benchmark menu's benchmark back to the menu.
BackToMenu(p) ==
  /\ round[p] = 0
  /\ Go(p, "next", "b_61")
  /\ UNCHANGED <<menuVars, todo, round, tableVars, want>>

\* After the last bench_worker_cut() to barrier(&global_barrier), line 153.
LastBench(p) ==
  /\ round[p] = 1
  /\ Go(p, "next", "b_153")
  /\ UNCHANGED <<menuVars, todo, round, tableVars, want>>

MemBarrier ==
  /\ Released("b_153", "mem", "mem")
  /\ UNCHANGED <<menuVars, todo, round, tableVars, want>>

\* Where bench_mem() leaves CPU p.  With more than one CPU it does not return (see
\* BenchMem): CPU 0 is in smp_wakeup(1) of line 621, CPU 1 at the barrier of line
\* 652, the others are in smp_halt() of line 624.  A lone CPU goes through it, and
\* in payload_benchmark() through bench_rangestride(), back to the menu or to stop().
AfterMem(p) ==
  CASE CPUs = {0} /\ mode = "menu" -> "b_61"
    [] CPUs = {0} /\ mode # "menu" -> "stop"
    [] CPUs # {0} /\ p = 0         -> "wakeup"
    [] p = 1                       -> "b_652"
    [] OTHER                       -> "halted"

\* bench_mem(), of the payload or of the menu
Mem(p) ==
  /\ Go(p, "mem", AfterMem(p))
  /\ round' = [round EXCEPT ![p] = IF CPUs = {0} THEN 0 ELSE @]
  /\ UNCHANGED <<menuVars, todo, tableVars, want>>

\* CPU 0 reconfigures the buffers, for the lines 121 and 122 or 138 and 139, the
\* others wait for it.
Reconfigure(p) ==
  /\ round[p] > 1
  /\ LET contender == IF round[p] = 3 THEN CacheDisable ELSE WriteThrough
     IN IF p = 0
        THEN /\ Go(p, "next", "lock")
             /\ todo' = [todo EXCEPT ![p] = <<<<"p_buffer", WriteBack>>, <<"p_contender", contender>>>>]
             /\ want' = [b \in Buffers |-> IF b = "p_buffer" THEN WriteBack ELSE contender]
        ELSE Go(p, "next", "b_123") /\ UNCHANGED <<todo, want>>
  /\ UNCHANGED <<menuVars, round, tableVars>>

\* barrier(&global_barrier), lines 123 and 126, or 140 and 143
ReconfBarrier ==
  /\ Released("b_123", "b_130", "shoot")
  /\ UNCHANGED <<menuVars, todo, round, tableVars, want>>

\* barrier(&global_barrier), line 130 or 147
ShootBarrier ==
  /\ Released("b_130", "bench", "bench")
  /\ round' = [p \in CPUs |-> round[p] - 1]
  /\ UNCHANGED <<menuVars, todo, tableVars, want>>

-----------------------------------------------------------------------------

CpuStep(p) ==
  \/ AskMode(p) \/ TestMode(p) \/ Select(p)
  \/ FromMainMenu(p) \/ FromBenchMenu(p) \/ FromReconfMenu(p)
  \/ Lock(p) \/ SetPwt(p) \/ SetPcd(p) \/ Invlpg(p) \/ Unlock(p) \/ Shootdown(p)
  \/ Bench(p) \/ BackToMenu(p) \/ LastBench(p) \/ Mem(p) \/ Reconfigure(p)

Barrier ==
  \/ MainBarrier \/ ModeBarrier \/ MenuBarrier \/ ResultBarrier
  \/ BenchMenuBarrier \/ BuffersBarrier \/ BenchBarrier \/ ReconfBarrier \/ ShootBarrier
  \/ MemBarrier

Next ==
  \/ \E p \in CPUs : CpuStep(p)
  \/ Barrier
  \/ \E p \in CPUs, b \in Buffers : Load(p, b) \/ Evict(p, b)

\* The CPUs keep executing, barriers open (see Barrier), and the user answers.
Spec == Init /\ [][Next]_vars /\ WF_vars(Barrier) /\ \A p \in CPUs : WF_vars(CpuStep(p))

-----------------------------------------------------------------------------
(* Correctness.                                                            *)

\* CPUs that wait at a barrier wait at the same one, in the same menu and the
\* same turn of the payload: the shared variables mode and result are read by
\* every CPU before CPU 0 writes them again.
SamePlace ==
  \A p, q \in CPUs : pc[p] \in Barriers /\ pc[q] \in Barriers /\ (\A s \in CPUs : pc[s] \in Barriers) =>
    pc[p] = pc[q] /\ site[p] = site[q] /\ round[p] = round[q]

\* In a benchmark no CPU has an entry in its TLB that differs from the page
\* table: each reconfiguration has reached all of them.
BenchFresh ==
  \A p \in CPUs, b \in Buffers : pc[p] \in {"bench", "mem"} => tlb[p][b] \in {None, pte[b]}

\* The benchmarks of payload_benchmark() run under the configuration that CPU 0
\* set for them, bench_mem() under that of the last turn.
ConfigHolds ==
  \A p \in CPUs : pc[p] \in {"bench", "mem"} /\ round[p] \in {1, 2} => pte = want

\* Every CPU gets out of every barrier of main(), menu() and payload.c, and of the
\* one that ends bench_worker_cut(): none is left there by others that wait
\* elsewhere, have stopped, or hang at the mutex.  The barrier of line 652, at the
\* end of bench_mem(), is not among them: bench_mem() hangs with two CPUs or more
\* and never leaves CPU 1 from there (BenchMem, BenchmarkEnds).  That the other
\* benchmarks end is so in 64 bit mode (RoundEnds of Collective, BenchmarkEnds of
\* BenchWorker).
BarriersOpen ==
  \A p \in CPUs : pc[p] \in Barriers \ {"b_652"} ~> pc[p] \notin Barriers \ {"b_652"}
=============================================================================
