---------------------------- MODULE PayloadProofs ----------------------------
(* What is proved of Payload, for every set of CPUs.                          *)
(*                                                                            *)
(* Between two barriers the program is in a phase: a stretch of main(), menu() *)
(* or the payload that every CPU runs through, at its own pace, to the next    *)
(* barrier.  The invariant says which phases there are, where a CPU can be in  *)
(* each, and what each leaves in the page table and in the TLBs.               *)
EXTENDS Payload, TLAPS

\* What an entry of the page table holds while it is rewritten, too.
Entries == [pwt : BOOLEAN, pcd : BOOLEAN]
Jobs == Buffers \X Flags
InReconf == {"lock", "pwt", "pcd", "invlpg", "unlock"}
Outside == (Steps \ InReconf) \cup Barriers

\* The types of the variables; a CPU has heap_reconfig() calls to make exactly
\* while it is in one.
TypeOK ==
  /\ mode \in {"default", "menu"} /\ result \in Nat
  /\ pc \in [CPUs -> InReconf \cup Outside]
  /\ site \in [CPUs -> Sites]
  /\ flag \in [CPUs -> Flags]
  /\ DOMAIN todo = CPUs /\ todo = [p \in CPUs |-> todo[p]]
  /\ \A p \in CPUs : pc[p] \in InReconf =>
       \/ \E x \in Jobs : todo[p] = <<x>>
       \/ \E x, y \in Jobs : todo[p] = <<x, y>>
  /\ \A p \in CPUs : pc[p] \notin InReconf => todo[p] = <<>>
  /\ round \in [CPUs -> Int]
  /\ pte \in [Buffers -> Entries] /\ want \in [Buffers -> Entries]
  /\ tlb \in [CPUs -> [Buffers -> Entries \cup {None}]]

\* CPU p is at l, in the menu s and the turn r of the payload.
At(p, l, s, r) == pc[p] = l /\ site[p] = s /\ round[p] = r

Fresh(p, b) == tlb[p][b] = None \/ tlb[p][b] = pte[b]

\* Nothing of the page table is changed; the local variables flag are equal.
Quiet ==
  /\ \A p \in CPUs, b \in Buffers : Fresh(p, b)
  /\ \A p, q \in CPUs : flag[p] = flag[q]

-----------------------------------------------------------------------------
(* The phases in which the page table does not change.                      *)

Starting == \A p \in CPUs : At(p, "b_238", "Main menu", 0)

\* From line 238 of main() to line 262.
Asking == \A p \in CPUs :
  At(p, "b_262", "Main menu", 0) \/ (p = 0 /\ At(p, "ask", "Main menu", 0))

\* From line 262 to the menu or the payload.
Choosing == \A p \in CPUs :
  \/ At(p, "mode", "Main menu", 0)
  \/ mode = "menu" /\ At(p, "b_61", "Main menu", 0)
  \/ mode # "menu" /\ At(p, "b_104", "Main menu", 3)

\* All have come to menu() ...
Entering(s) == \A p \in CPUs : At(p, "b_61", s, 0)

\* ... and are in it, from line 61 to line 99.
Selecting(s) == \A p \in CPUs :
  At(p, "b_99", s, 0) \/ (p = 0 /\ At(p, "select", s, 0))

\* menu() returns to main().
LeavingMain == \A p \in CPUs :
  \/ At(p, "return", "Main menu", 0)
  \/ result = 1 /\ At(p, "b_104", "Main menu", 3)
  \/ result = 3 /\ At(p, "b_197", "Benchmarks", 0)
  \/ result \notin {1, 3} /\ At(p, "stop", "Main menu", 0)

\* CPU p is in bench_mem(), where it stays, or through it when it is alone.
Left(r) == IF CPUs = {0} THEN 0 ELSE r
InMem(p, s, r) == At(p, "mem", s, r) \/ At(p, AfterMem(p), s, Left(r))

\* It returns to payload_benchmark_menu(), which calls it for the menu Named.
Named == CASE result = 1 -> "p_buffer" [] result = 2 -> "p_contender"
           [] result = Abort -> "Main menu" [] OTHER -> "Benchmarks"

LeavingBench == \A p \in CPUs :
  \/ At(p, "return", "Benchmarks", 0)
  \/ result = 6 /\ (At(p, "bench", "Benchmarks", 0) \/ At(p, "b_515", "Benchmarks", 0))
  \/ result = 7 /\ InMem(p, "Benchmarks", 0)
  \/ result \notin {6, 7} /\ At(p, "b_61", Named, 0)

\* It returns from the menu of a buffer, aborted.
Aborting(b) ==
  /\ result = Abort
  /\ \A p \in CPUs : At(p, "return", b, 0) \/ At(p, "b_61", "Benchmarks", 0)

\* A benchmark runs.
Working(s, r) == \A p \in CPUs : At(p, "bench", s, r) \/ At(p, "b_515", s, r)

\* The benchmark is over, and the last turn with it.
Finishing(s, r) == \A p \in CPUs :
  \/ At(p, "next", s, r)
  \/ r = 0 /\ At(p, "b_61", s, 0)
  \/ r = 1 /\ At(p, "b_153", s, 1)

\* bench_mem() at the end of the payload.
Measuring(s) == \A p \in CPUs : InMem(p, s, 1)

-----------------------------------------------------------------------------
(* The phases in which it does.                                             *)

\* After the menu of buffer b each CPU calls heap_reconfig() for it, with the
\* same flags v: an entry that one CPU has written is not changed by the others,
\* and a CPU that has been through has no older one in its TLB.
Rewrites(p, b, v) ==
  /\ \/ At(p, "return", b, 0) /\ v = CaseFlag(result, flag[p])
     \/ /\ pc[p] \in InReconf /\ site[p] = b /\ round[p] = 0
        /\ flag[p] = v /\ todo[p] = <<<<b, v>>>>
     \/ At(p, "b_61", "Benchmarks", 0) /\ flag[p] = v
  /\ pc[p] = "pcd" => pte[b].pwt = v.pwt
  /\ pc[p] \in {"invlpg", "unlock", "b_61"} => pte[b] = v
  /\ pc[p] \in {"unlock", "b_61"} => Fresh(p, b)
  /\ \A o \in Buffers : o # b => Fresh(p, o)

Rewriting(b, v) == result # Abort /\ \A p \in CPUs : Rewrites(p, b, v)

\* The flags of p_contender in the turn after r.
Contender(r) == IF r = 3 THEN CacheDisable ELSE WriteThrough

Calls(r) == <<<<"p_buffer", WriteBack>>, <<"p_contender", Contender(r)>>>>

\* CPU 0 calls heap_reconfig() for both buffers, the others wait.
Reconfiguring(s, r) ==
  /\ \A p \in CPUs :
       \/ At(p, "next", s, r) \/ At(p, "b_123", s, r)
       \/ p = 0 /\ pc[p] \in InReconf /\ site[p] = s /\ round[p] = r
  /\ \A p, q \in CPUs : flag[p] = flag[q]
  /\ pc[0] # "next" =>
       want = [b \in Buffers |-> IF b = "p_buffer" THEN WriteBack ELSE Contender(r)]
  /\ pc[0] \in InReconf =>
       \/ todo[0] = Calls(r)
       \/ todo[0] = Tail(Calls(r)) /\ pte["p_buffer"] = WriteBack
  /\ pc[0] = "pcd" => pte[Head(todo[0])[1]].pwt = Head(todo[0])[2].pwt
  /\ pc[0] \in {"invlpg", "unlock"} => pte[Head(todo[0])[1]] = Head(todo[0])[2]
  /\ pc[0] = "b_123" => pte = want
  /\ \A b \in Buffers :
       \/ Fresh(0, b)
       \/ pc[0] \in {"pcd", "invlpg"} /\ b = Head(todo[0])[1]

\* The others empty their TLBs of both buffers.
Shooting(s, r) ==
  /\ \A p \in CPUs : At(p, "b_130", s, r) \/ (p # 0 /\ At(p, "shoot", s, r))
  /\ \A p, q \in CPUs : flag[p] = flag[q]
  /\ pte = want
  /\ \A p \in CPUs, b \in Buffers : pc[p] = "b_130" => Fresh(p, b)

-----------------------------------------------------------------------------

Phase ==
  \/ Quiet /\ Starting
  \/ Quiet /\ Asking
  \/ Quiet /\ Choosing
  \/ Quiet /\ \E s \in Sites : Entering(s)
  \/ Quiet /\ \E s \in Sites : Selecting(s)
  \/ Quiet /\ LeavingMain
  \/ Quiet /\ LeavingBench
  \/ Quiet /\ \E b \in Buffers : Aborting(b)
  \/ \E b \in Buffers, v \in Flags : Rewriting(b, v)
  \/ Quiet /\ \E s \in Sites, r \in 0..3 : Working(s, r) /\ (r \in {1, 2} => pte = want)
  \/ Quiet /\ \E s \in Sites, r \in 0..1 : Finishing(s, r) /\ (r = 1 => pte = want)
  \/ Quiet /\ \E s \in Sites : Measuring(s) /\ pte = want
  \/ \E s \in Sites, r \in 2..3 : Reconfiguring(s, r)
  \/ \E s \in Sites, r \in 2..3 : Shooting(s, r)

IInv == TypeOK /\ Phase
-----------------------------------------------------------------------------
(* Types.                                                                   *)

LEMMA Labels ==
  /\ InReconf \cap Outside = {}
  /\ "b_61" \in Outside /\ "b_123" \in Outside /\ "lock" \in InReconf
  /\ Barriers \subseteq Outside
BY DEF InReconf, Outside, Steps, Barriers

LEMMA FlagTypes == Flags \subseteq Entries
BY DEF Flags, Entries, WriteBack, WriteThrough, CacheDisable

\* What a job is made of.
LEMMA JobParts ==
  ASSUME NEW x \in Jobs
  PROVE  x[1] \in Buffers /\ x[2] \in Flags /\ x[2] \in Entries /\ x = <<x[1], x[2]>>
BY FlagTypes DEF Jobs

LEMMA CaseFlagType ==
  ASSUME NEW v, NEW f \in Flags
  PROVE  CaseFlag(v, f) \in Flags
BY DEF CaseFlag, Flags

LEMMA InitType == Init => TypeOK
<1> SUFFICES ASSUME Init PROVE TypeOK
  OBVIOUS
<1>1. WriteBack \in Flags /\ WriteBack \in Entries
  BY FlagTypes DEF Flags
<1>2. "Main menu" \in Sites /\ "b_238" \in Outside /\ "b_238" \notin InReconf
  BY DEF Sites, Outside, Barriers, InReconf
<1>3. pte \in [Buffers -> Entries] /\ want \in [Buffers -> Entries]
  BY <1>1 DEF Init
<1>4. tlb \in [CPUs -> [Buffers -> Entries \cup {None}]]
  BY DEF Init
<1>5. \A p \in CPUs : pc[p] = "b_238" /\ todo[p] = <<>>
  BY DEF Init
<1>6. DOMAIN todo = CPUs /\ todo = [p \in CPUs |-> todo[p]]
  BY DEF Init
<1>7. /\ pc \in [CPUs -> InReconf \cup Outside] /\ site \in [CPUs -> Sites]
      /\ flag \in [CPUs -> Flags] /\ round \in [CPUs -> Int]
  <2>1. pc = [p \in CPUs |-> "b_238"] /\ site = [p \in CPUs |-> "Main menu"]
    BY DEF Init
  <2>2. flag = [p \in CPUs |-> WriteBack] /\ round = [p \in CPUs |-> 0]
    BY DEF Init
  <2>3. 0 \in Int
    OBVIOUS
  <2> QED BY <1>1, <1>2, <2>1, <2>2, <2>3, Zenon
<1>8. mode \in {"default", "menu"} /\ result \in Nat
  BY DEF Init
<1> QED BY <1>2, <1>3, <1>4, <1>5, <1>6, <1>7, <1>8 DEF TypeOK

\* The steps that only move a CPU between places outside heap_reconfig(), or a
\* barrier that moves all.
LEMMA MoveType ==
  ASSUME TypeOK, UNCHANGED <<todo, pte, tlb, want>>,
         pc' \in [CPUs -> InReconf \cup Outside],
         \A p \in CPUs : pc'[p] \in InReconf <=> pc[p] \in InReconf,
         mode' \in {"default", "menu"}, result' \in Nat,
         site' \in [CPUs -> Sites], flag' \in [CPUs -> Flags], round' \in [CPUs -> Int]
  PROVE  TypeOK'
BY DEF TypeOK
LEMMA GoOutside ==
  ASSUME TypeOK, NEW p \in CPUs, NEW from \in Outside, NEW to \in Outside, Go(p, from, to)
  PROVE  /\ pc' \in [CPUs -> InReconf \cup Outside]
         /\ \A q \in CPUs : pc'[q] \in InReconf <=> pc[q] \in InReconf
         /\ p \in CPUs /\ pc[p] = from /\ pc'[p] = to
         /\ \A q \in CPUs : q # p => pc'[q] = pc[q]
<1>1. pc \in [CPUs -> InReconf \cup Outside] /\ pc[p] = from /\ pc' = [pc EXCEPT ![p] = to]
  BY DEF Go, TypeOK
<1>2. pc' \in [CPUs -> InReconf \cup Outside]
  BY <1>1
<1>3. from \notin InReconf /\ to \notin InReconf
  BY Labels
<1> QED BY <1>1, <1>2, <1>3

LEMMA ReleasedOutside ==
  ASSUME TypeOK, NEW b \in Outside, NEW f \in Outside, NEW o \in Outside, Released(b, f, o)
  PROVE  /\ pc' \in [CPUs -> InReconf \cup Outside]
         /\ \A q \in CPUs : pc'[q] \in InReconf <=> pc[q] \in InReconf
         /\ \A q \in CPUs : pc[q] = b /\ pc'[q] = IF q = 0 THEN f ELSE o
<1>1. /\ \A q \in CPUs : pc[q] = b
      /\ pc' = [q \in CPUs |-> IF q = 0 THEN f ELSE o]
  BY DEF Released
<1>2. pc' \in [CPUs -> InReconf \cup Outside]
  BY <1>1
<1>3. b \notin InReconf /\ f \notin InReconf /\ o \notin InReconf
  BY Labels
<1> QED BY <1>1, <1>2, <1>3

LEMMA OutsideLabels ==
  \A l \in {"b_238", "b_262", "b_61", "b_99", "b_197", "b_104", "b_515", "b_123", "b_130",
            "b_153", "b_652", "ask", "mode", "select", "return", "shoot", "bench", "next",
            "mem", "wakeup", "halted", "stop"} : l \in Outside
BY DEF Outside, Steps, InReconf, Barriers

\* The places bench_mem() leads to.
LEMMA AfterMemCases ==
  ASSUME NEW p \in CPUs
  PROVE  /\ CPUs = {0} => AfterMem(p) \in {"b_61", "stop"}
         /\ CPUs # {0} => AfterMem(p) \in {"wakeup", "b_652", "halted"} /\ AfterMem(0) = "wakeup"
         /\ AfterMem(p) \in Outside
<1>1. CASE CPUs = {0}
  <2>1. p = 0 /\ p # 1
    BY <1>1
  <2>2. CASE mode = "menu"
    <3>1. AfterMem(p) = "b_61"
      BY <1>1, <2>1, <2>2, Zenon DEF AfterMem
    <3> QED BY <1>1, <3>1, OutsideLabels
  <2>3. CASE mode # "menu"
    <3>1. AfterMem(p) = "stop"
      BY <1>1, <2>1, <2>3, Zenon DEF AfterMem
    <3> QED BY <1>1, <3>1, OutsideLabels
  <2> QED BY <2>2, <2>3
<1>2. CASE CPUs # {0}
  <2>1. 0 # 1
    OBVIOUS
  <2>2. AfterMem(0) = "wakeup"
    BY <1>2, <2>1, Zenon DEF AfterMem
  <2>3. p = 1 => AfterMem(p) = "b_652"
    BY <1>2, <2>1, Zenon DEF AfterMem
  <2>4. p # 0 /\ p # 1 => AfterMem(p) = "halted"
    BY <1>2, Zenon DEF AfterMem
  <2> QED BY <1>2, <2>2, <2>3, <2>4, OutsideLabels
<1> QED BY <1>1, <1>2

LEMMA BarrierType == TypeOK /\ Barrier => TypeOK'
<1> SUFFICES ASSUME TypeOK, Barrier PROVE TypeOK'
  OBVIOUS
<1> USE DEF menuVars, tableVars
<1>0. /\ \A p \in CPUs : round[p] \in Int
      /\ \A p \in CPUs : site[p] \in Sites
      /\ mode \in {"default", "menu"} /\ result \in Nat
      /\ site \in [CPUs -> Sites] /\ flag \in [CPUs -> Flags] /\ round \in [CPUs -> Int]
  BY DEF TypeOK
<1>1. CASE MainBarrier
  BY <1>0, <1>1, ReleasedOutside, OutsideLabels, MoveType DEF MainBarrier
<1>2. CASE ModeBarrier
  BY <1>0, <1>2, ReleasedOutside, OutsideLabels, MoveType DEF ModeBarrier
<1>3. CASE MenuBarrier
  BY <1>0, <1>3, ReleasedOutside, OutsideLabels, MoveType DEF MenuBarrier
<1>4. CASE ResultBarrier
  BY <1>0, <1>4, ReleasedOutside, OutsideLabels, MoveType DEF ResultBarrier
<1>5. CASE BenchMenuBarrier
  <2>1. WriteBack \in Flags
    BY DEF Flags
  <2>2. flag' \in [CPUs -> Flags]
    BY <1>5, <2>1 DEF BenchMenuBarrier
  <2> QED BY <1>0, <1>5, <2>2, ReleasedOutside, OutsideLabels, MoveType DEF BenchMenuBarrier
<1>6. CASE BuffersBarrier
  BY <1>0, <1>6, ReleasedOutside, OutsideLabels, MoveType DEF BuffersBarrier
<1>7. CASE BenchBarrier
  BY <1>0, <1>7, ReleasedOutside, OutsideLabels, MoveType DEF BenchBarrier
<1>8. CASE ReconfBarrier
  BY <1>0, <1>8, ReleasedOutside, OutsideLabels, MoveType DEF ReconfBarrier
<1>9. CASE ShootBarrier
  <2>1. round' \in [CPUs -> Int]
    BY <1>0, <1>9 DEF ShootBarrier
  <2> QED BY <1>0, <1>9, <2>1, ReleasedOutside, OutsideLabels, MoveType DEF ShootBarrier
<1>10. CASE MemBarrier
  BY <1>0, <1>10, ReleasedOutside, OutsideLabels, MoveType DEF MemBarrier
<1> QED BY <1>1, <1>2, <1>3, <1>4, <1>5, <1>6, <1>7, <1>8, <1>9, <1>10 DEF Barrier
\* What a CPU that steps may be doing, by its place.
LEMMA StepOf ==
  ASSUME NEW p \in CPUs, CpuStep(p)
  PROVE  /\ pc[p] = "ask" => AskMode(p)
         /\ pc[p] = "mode" => TestMode(p)
         /\ pc[p] = "select" => Select(p)
         /\ pc[p] = "return" => FromMainMenu(p) \/ FromBenchMenu(p) \/ FromReconfMenu(p)
         /\ pc[p] = "lock" => Lock(p)
         /\ pc[p] = "pwt" => SetPwt(p)
         /\ pc[p] = "pcd" => SetPcd(p)
         /\ pc[p] = "invlpg" => Invlpg(p)
         /\ pc[p] = "unlock" => Unlock(p)
         /\ pc[p] = "shoot" => Shootdown(p)
         /\ pc[p] = "bench" => Bench(p)
         /\ pc[p] = "next" => BackToMenu(p) \/ LastBench(p) \/ Reconfigure(p)
         /\ pc[p] = "mem" => Mem(p)
         /\ pc[p] \in {"ask", "mode", "select", "return", "lock", "pwt", "pcd", "invlpg",
                       "unlock", "shoot", "bench", "next", "mem"}
<1> USE DEF Go
<1>1. CASE AskMode(p)
  BY <1>1 DEF AskMode
<1>2. CASE TestMode(p)
  BY <1>2 DEF TestMode
<1>3. CASE Select(p)
  BY <1>3 DEF Select
<1>4. CASE FromMainMenu(p) \/ FromBenchMenu(p) \/ FromReconfMenu(p)
  <2>1. pc[p] = "return"
    BY <1>4 DEF FromMainMenu, FromBenchMenu, FromReconfMenu
  <2> QED BY <1>4, <2>1
<1>5. CASE Lock(p)
  BY <1>5 DEF Lock
<1>6. CASE SetPwt(p)
  BY <1>6 DEF SetPwt
<1>7. CASE SetPcd(p)
  BY <1>7 DEF SetPcd
<1>8. CASE Invlpg(p)
  BY <1>8 DEF Invlpg
<1>9. CASE Unlock(p)
  BY <1>9 DEF Unlock
<1>10. CASE Shootdown(p)
  BY <1>10 DEF Shootdown
<1>11. CASE Bench(p)
  BY <1>11 DEF Bench
<1>12. CASE BackToMenu(p) \/ LastBench(p) \/ Reconfigure(p)
  <2>1. pc[p] = "next"
    BY <1>12 DEF BackToMenu, LastBench, Reconfigure
  <2> QED BY <1>12, <2>1
<1>13. CASE Mem(p)
  BY <1>13 DEF Mem
<1> QED BY <1>1, <1>2, <1>3, <1>4, <1>5, <1>6, <1>7, <1>8, <1>9, <1>10, <1>11, <1>12, <1>13
        DEF CpuStep

\* Which barrier opens, by the place of CPU 0.
LEMMA BarrierOf ==
  ASSUME Barrier
  PROVE  /\ pc[0] = "b_238" => MainBarrier
         /\ pc[0] = "b_262" => ModeBarrier
         /\ pc[0] = "b_61" => MenuBarrier
         /\ pc[0] = "b_99" => ResultBarrier
         /\ pc[0] = "b_197" => BenchMenuBarrier
         /\ pc[0] = "b_104" => BuffersBarrier
         /\ pc[0] = "b_515" => BenchBarrier
         /\ pc[0] = "b_123" => ReconfBarrier
         /\ pc[0] = "b_130" => ShootBarrier
         /\ pc[0] = "b_153" => MemBarrier
         /\ pc[0] \in Barriers
         /\ \A p \in CPUs : pc[p] = pc[0]
<1> USE CPUsAssumption DEF Released, Barriers
<1>1. CASE MainBarrier
  BY <1>1 DEF MainBarrier
<1>2. CASE ModeBarrier
  BY <1>2 DEF ModeBarrier
<1>3. CASE MenuBarrier
  BY <1>3 DEF MenuBarrier
<1>4. CASE ResultBarrier
  BY <1>4 DEF ResultBarrier
<1>5. CASE BenchMenuBarrier
  BY <1>5 DEF BenchMenuBarrier
<1>6. CASE BuffersBarrier
  BY <1>6 DEF BuffersBarrier
<1>7. CASE BenchBarrier
  BY <1>7 DEF BenchBarrier
<1>8. CASE ReconfBarrier
  BY <1>8 DEF ReconfBarrier
<1>9. CASE ShootBarrier
  BY <1>9 DEF ShootBarrier
<1>10. CASE MemBarrier
  BY <1>10 DEF MemBarrier
<1> QED BY <1>1, <1>2, <1>3, <1>4, <1>5, <1>6, <1>7, <1>8, <1>9, <1>10 DEF Barrier
\* The barrier that ends bench_mem() is none of them.
LEMMA BarrierNotEnd == Barrier => pc[0] # "b_652"
BY CPUsAssumption DEF Barrier, Released, MainBarrier, ModeBarrier, MenuBarrier, ResultBarrier,
   BenchMenuBarrier, BuffersBarrier, BenchBarrier, ReconfBarrier, ShootBarrier, MemBarrier

\* The jobs of a CPU that is in heap_reconfig().
LEMMA TodoType ==
  ASSUME TypeOK, NEW p \in CPUs, pc[p] \in InReconf
  PROVE  /\ Head(todo[p]) \in Jobs
         /\ Head(todo[p])[1] \in Buffers /\ Head(todo[p])[2] \in Flags
         /\ Len(todo[p]) > 1 => \E x \in Jobs : Tail(todo[p]) = <<x>>
         /\ ~(Len(todo[p]) > 1) => Tail(todo[p]) = <<>>
<1>1. CASE \E x \in Jobs : todo[p] = <<x>>
  <2>1. PICK x \in Jobs : todo[p] = <<x>>
    BY <1>1
  <2>2. Head(todo[p]) = x /\ Tail(todo[p]) = <<>> /\ Len(todo[p]) = 1
    BY <2>1
  <2> QED BY <2>2, JobParts
<1>2. CASE \E x, y \in Jobs : todo[p] = <<x, y>>
  <2>1. PICK x \in Jobs, y \in Jobs : todo[p] = <<x, y>>
    BY <1>2
  <2>2. Head(todo[p]) = x /\ Tail(todo[p]) = <<y>> /\ Len(todo[p]) = 2
    BY <2>1
  <2> QED BY <2>2, JobParts
<1> QED BY <1>1, <1>2 DEF TypeOK

\* A step inside heap_reconfig() that keeps the list of calls.
LEMMA InsideType ==
  ASSUME TypeOK, NEW p \in CPUs, NEW from \in InReconf, NEW to \in InReconf, Go(p, from, to),
         UNCHANGED <<mode, result, site, flag, todo, round, want>>,
         pte' \in [Buffers -> Entries],
         tlb' \in [CPUs -> [Buffers -> Entries \cup {None}]]
  PROVE  TypeOK'
<1>1. pc \in [CPUs -> InReconf \cup Outside] /\ pc[p] = from /\ pc' = [pc EXCEPT ![p] = to]
  BY DEF Go, TypeOK
<1>2. pc' \in [CPUs -> InReconf \cup Outside]
  BY <1>1
<1>3. \A q \in CPUs : pc'[q] \in InReconf <=> pc[q] \in InReconf
  BY <1>1
<1> QED BY <1>2, <1>3 DEF TypeOK

\* The list of calls is changed, for a CPU that enters or leaves a call.
LEMMA TodoStep ==
  ASSUME TypeOK, NEW p \in CPUs, NEW from, NEW to \in InReconf \cup Outside, Go(p, from, to),
         NEW t, todo' = [todo EXCEPT ![p] = t],
         \/ to \in InReconf /\ (\E x \in Jobs : t = <<x>>)
         \/ to \in InReconf /\ (\E x, y \in Jobs : t = <<x, y>>)
         \/ to \in Outside /\ t = <<>>,
         UNCHANGED <<mode, result, round, pte, tlb>>, want' \in [Buffers -> Entries],
         site' \in [CPUs -> Sites], flag' \in [CPUs -> Flags]
  PROVE  TypeOK'
<1>1. /\ pc \in [CPUs -> InReconf \cup Outside] /\ pc' = [pc EXCEPT ![p] = to]
      /\ DOMAIN todo = CPUs /\ todo = [q \in CPUs |-> todo[q]]
  BY DEF Go, TypeOK
<1>2. /\ pc' \in [CPUs -> InReconf \cup Outside]
      /\ pc'[p] = to /\ \A q \in CPUs : q # p => pc'[q] = pc[q]
  BY <1>1
<1>3. /\ todo' = [q \in CPUs |-> IF q = p THEN t ELSE todo[q]]
      /\ todo'[p] = t /\ \A q \in CPUs : q # p => todo'[q] = todo[q]
  BY <1>1
<1>4. DOMAIN todo' = CPUs /\ todo' = [q \in CPUs |-> todo'[q]]
  BY <1>3
<1>5. \A q \in CPUs : pc'[q] \in InReconf =>
       \/ \E x \in Jobs : todo'[q] = <<x>>
       \/ \E x, y \in Jobs : todo'[q] = <<x, y>>
  <2> SUFFICES ASSUME NEW q \in CPUs, pc'[q] \in InReconf
               PROVE  \/ \E x \in Jobs : todo'[q] = <<x>>
                      \/ \E x, y \in Jobs : todo'[q] = <<x, y>>
    OBVIOUS
  <2>1. CASE q = p
    <3>1. to \in InReconf /\ todo'[q] = t
      BY <2>1, <1>2, <1>3
    <3>2. to \notin Outside
      BY <3>1, Labels
    <3> QED BY <3>1, <3>2
  <2>2. CASE q # p
    <3>1. pc[q] \in InReconf /\ todo'[q] = todo[q]
      BY <2>2, <1>2, <1>3
    <3>2. \/ \E x \in Jobs : todo[q] = <<x>>
          \/ \E x, y \in Jobs : todo[q] = <<x, y>>
      BY <3>1 DEF TypeOK
    <3> QED BY <3>1, <3>2
  <2> QED BY <2>1, <2>2
<1>6. \A q \in CPUs : pc'[q] \notin InReconf => todo'[q] = <<>>
  BY <1>2, <1>3 DEF TypeOK
<1> QED BY <1>2, <1>4, <1>5, <1>6 DEF TypeOK
\* The multiway choices of the menus, case by case.
LEMMA ValuesType == \A s \in Sites : Values(s) \subseteq Nat
<1>1. {1, 3, Abort} \subseteq Nat /\ {1, 2, 6, 7, Abort} \subseteq Nat /\ {0, 1, 2, Abort} \subseteq Nat
  BY DEF Abort
<1>2. "Main menu" # "Benchmarks"
  OBVIOUS
<1> QED BY <1>1, <1>2, Zenon DEF Values

\* Where payload_benchmark_menu() goes on.
ToBench == CASE result = 6 -> "bench" [] result = 7 -> "mem" [] OTHER -> "b_61"

LEMMA ToBenchCases ==
  /\ result = 6 => ToBench = "bench"
  /\ result = 7 => ToBench = "mem"
  /\ result \notin {6, 7} => ToBench = "b_61"
<1>1. 6 # 7
  OBVIOUS
<1>2. result \notin {6, 7} <=> result # 6 /\ result # 7
  OBVIOUS
<1> QED BY <1>1, <1>2, Zenon DEF ToBench

LEMMA MainStep ==
  ASSUME NEW p \in CPUs, FromMainMenu(p)
  PROVE  /\ pc[p] = "return" /\ site[p] = "Main menu"
         /\ \/ /\ result = 1 /\ Go(p, "return", "b_104")
               /\ round' = [round EXCEPT ![p] = 3] /\ site' = [site EXCEPT ![p] = site[p]]
            \/ /\ result = 3 /\ Go(p, "return", "b_197")
               /\ round' = [round EXCEPT ![p] = 0] /\ site' = [site EXCEPT ![p] = "Benchmarks"]
            \/ /\ result # 1 /\ result # 3 /\ Go(p, "return", "stop")
               /\ round' = [round EXCEPT ![p] = 0] /\ site' = [site EXCEPT ![p] = site[p]]
<1>1. 1 # 3
  OBVIOUS
<1>2. CASE result = 1
  BY <1>1, <1>2, Zenon DEF FromMainMenu, Go
<1>3. CASE result = 3
  BY <1>1, <1>3, Zenon DEF FromMainMenu, Go
<1>4. CASE result # 1 /\ result # 3
  BY <1>4, Zenon DEF FromMainMenu, Go
<1> QED BY <1>2, <1>3, <1>4

LEMMA CpuStepType ==
  ASSUME TypeOK, NEW p \in CPUs, CpuStep(p)
  PROVE  TypeOK'
<1> USE DEF menuVars, tableVars
<1>0. /\ mode \in {"default", "menu"} /\ result \in Nat
      /\ site \in [CPUs -> Sites] /\ flag \in [CPUs -> Flags] /\ round \in [CPUs -> Int]
      /\ pte \in [Buffers -> Entries] /\ tlb \in [CPUs -> [Buffers -> Entries \cup {None}]]
  BY DEF TypeOK
<1>l. \A l \in InReconf : l \in InReconf \cup Outside
  OBVIOUS
<1>1. CASE AskMode(p)
  BY <1>0, <1>1, GoOutside, OutsideLabels, MoveType DEF AskMode
<1>2. CASE TestMode(p)
  <2>1. (IF mode = "menu" THEN "b_61" ELSE "b_104") \in Outside
    BY OutsideLabels
  <2>2. round' \in [CPUs -> Int]
    BY <1>0, <1>2 DEF TestMode
  <2> QED BY <1>0, <1>2, <2>1, <2>2, GoOutside, OutsideLabels, MoveType DEF TestMode
<1>3. CASE Select(p)
  <2>1. result' \in Nat
    BY <1>0, <1>3, ValuesType DEF Select
  <2> QED BY <1>0, <1>3, <2>1, GoOutside, OutsideLabels, MoveType DEF Select
<1>4. CASE FromMainMenu(p)
  <2>1. \E to \in Outside : Go(p, "return", to)
    BY <1>4, MainStep, OutsideLabels
  <2>2. \E x \in Int : round' = [round EXCEPT ![p] = x]
    <3>1. 0 \in Int /\ 3 \in Int
      OBVIOUS
    <3> QED BY <1>4, <3>1, MainStep, Zenon
  <2>3. \E x \in Sites : site' = [site EXCEPT ![p] = x]
    BY <1>0, <1>4, MainStep DEF Sites
  <2>4. round' \in [CPUs -> Int] /\ site' \in [CPUs -> Sites]
    BY <1>0, <2>2, <2>3
  <2>5. UNCHANGED <<mode, result, flag, todo, pte, tlb, want>>
    BY <1>4 DEF FromMainMenu
  <2> QED BY <1>0, <2>1, <2>4, <2>5, GoOutside, OutsideLabels, MoveType
<1>5. CASE FromBenchMenu(p)
  <2>1. ToBench \in Outside /\ Go(p, "return", ToBench)
    BY <1>5, ToBenchCases, OutsideLabels DEF FromBenchMenu, ToBench
  <2>2. site' \in [CPUs -> Sites]
    BY <1>0, <1>5 DEF FromBenchMenu, Sites, Buffers
  <2>3. UNCHANGED <<mode, result, flag, todo, round, pte, tlb, want>>
    BY <1>5 DEF FromBenchMenu
  <2> QED BY <1>0, <2>1, <2>2, <2>3, GoOutside, OutsideLabels, MoveType
<1>6. CASE FromReconfMenu(p)
  <2>1. flag' = [flag EXCEPT ![p] = CaseFlag(result, flag[p])] /\ flag' \in [CPUs -> Flags]
    BY <1>0, <1>6, CaseFlagType DEF FromReconfMenu
  <2>2. site' \in [CPUs -> Sites]
    BY <1>0, <1>6 DEF FromReconfMenu, Sites
  <2>u. UNCHANGED <<mode, result, round, pte, tlb>> /\ want' \in [Buffers -> Entries]
    BY <1>6 DEF FromReconfMenu, TypeOK
  <2>3. CASE result = Abort
    <3>1. Go(p, "return", "b_61") /\ todo' = [todo EXCEPT ![p] = <<>>]
      BY <1>6, <2>3 DEF FromReconfMenu
    <3> QED BY <2>1, <2>2, <2>u, <3>1, OutsideLabels, TodoStep
  <2>4. CASE result # Abort
    <3>1. /\ Go(p, "return", "lock")
          /\ todo' = [todo EXCEPT ![p] = <<<<site[p], flag'[p]>>>>]
      BY <1>6, <2>4 DEF FromReconfMenu
    <3>2. <<site[p], flag'[p]>> \in Jobs
      BY <2>1, <1>6 DEF FromReconfMenu, Jobs
    <3> QED BY <2>1, <2>2, <2>u, <3>1, <3>2, Labels, TodoStep
  <2> QED BY <2>3, <2>4
<1>7. CASE Lock(p)
  BY <1>0, <1>7, InsideType DEF Lock, InReconf
<1>8. CASE SetPwt(p)
  <2>1. pc[p] \in InReconf
    BY <1>8 DEF SetPwt, Go, InReconf
  <2>2. Head(todo[p])[1] \in Buffers /\ Head(todo[p])[2].pwt \in BOOLEAN
    BY <2>1, TodoType, FlagTypes DEF Entries
  <2>3. pte' \in [Buffers -> Entries]
    BY <1>0, <1>8, <2>2 DEF SetPwt, Entries
  <2> QED BY <1>0, <1>8, <2>3, InsideType DEF SetPwt, InReconf
<1>9. CASE SetPcd(p)
  <2>1. pc[p] \in InReconf
    BY <1>9 DEF SetPcd, Go, InReconf
  <2>2. Head(todo[p])[1] \in Buffers /\ Head(todo[p])[2].pcd \in BOOLEAN
    BY <2>1, TodoType, FlagTypes DEF Entries
  <2>3. pte' \in [Buffers -> Entries]
    BY <1>0, <1>9, <2>2 DEF SetPcd, Entries
  <2> QED BY <1>0, <1>9, <2>3, InsideType DEF SetPcd, InReconf
<1>10. CASE Invlpg(p)
  <2>1. tlb' \in [CPUs -> [Buffers -> Entries \cup {None}]]
    BY <1>0, <1>10 DEF Invlpg
  <2> QED BY <1>0, <1>10, <2>1, InsideType DEF Invlpg, InReconf
<1>11. CASE Unlock(p)
  <2>1. pc[p] \in InReconf /\ "unlock" \in InReconf
    BY <1>11 DEF Unlock, Go, InReconf
  <2>2. site' \in [CPUs -> Sites]
    BY <1>0, <1>11 DEF Unlock, Sites
  <2>3. todo' = [todo EXCEPT ![p] = Tail(todo[p])]
    BY <1>11 DEF Unlock
  <2>u. /\ UNCHANGED <<mode, result, round, pte, tlb>> /\ want' \in [Buffers -> Entries]
        /\ flag' \in [CPUs -> Flags]
    BY <1>11 DEF Unlock, TypeOK
  <2>4. CASE Len(todo[p]) > 1
    <3>1. Go(p, "unlock", "lock") /\ \E x \in Jobs : Tail(todo[p]) = <<x>>
      BY <1>11, <2>1, <2>4, TodoType DEF Unlock
    <3> QED BY <2>2, <2>3, <2>u, <3>1, Labels, TodoStep
  <2>5. CASE ~(Len(todo[p]) > 1)
    <3>1. Go(p, "unlock", AfterReconf(p)) /\ Tail(todo[p]) = <<>> /\ AfterReconf(p) \in Outside
      BY <1>11, <2>1, <2>5, TodoType, OutsideLabels DEF Unlock, AfterReconf
    <3> QED BY <2>2, <2>3, <2>u, <3>1, Labels, TodoStep
  <2> QED BY <2>4, <2>5
<1>12. CASE Shootdown(p)
  <2>1. tlb' \in [CPUs -> [Buffers -> Entries \cup {None}]]
    BY <1>0, <1>12 DEF Shootdown
  <2> QED BY <1>0, <1>12, <2>1, GoOutside, OutsideLabels DEF Shootdown, TypeOK
<1>13. CASE Bench(p)
  BY <1>0, <1>13, GoOutside, OutsideLabels, MoveType DEF Bench
<1>14. CASE BackToMenu(p)
  BY <1>0, <1>14, GoOutside, OutsideLabels, MoveType DEF BackToMenu
<1>15. CASE LastBench(p)
  BY <1>0, <1>15, GoOutside, OutsideLabels, MoveType DEF LastBench
<1>16. CASE Reconfigure(p)
  <2>1. CASE p = 0
    <3> DEFINE c == IF round[p] = 3 THEN CacheDisable ELSE WriteThrough
    <3>1. /\ Go(p, "next", "lock")
          /\ todo' = [todo EXCEPT ![p] = <<<<"p_buffer", WriteBack>>, <<"p_contender", c>>>>]
          /\ want' = [b \in Buffers |-> IF b = "p_buffer" THEN WriteBack ELSE c]
      BY <1>16, <2>1 DEF Reconfigure
    <3>2. c \in Flags /\ WriteBack \in Flags /\ "p_buffer" \in Buffers /\ "p_contender" \in Buffers
      BY DEF Flags, Buffers
    <3> HIDE DEF c
    <3>3. <<"p_buffer", WriteBack>> \in Jobs /\ <<"p_contender", c>> \in Jobs
      BY <3>2 DEF Jobs
    <3>4. want' \in [Buffers -> Entries]
      BY <3>1, <3>2, FlagTypes
    <3> QED BY <1>0, <1>16, <3>1, <3>3, <3>4, OutsideLabels, Labels, TodoStep DEF Reconfigure
  <2>2. CASE p # 0
    BY <1>0, <1>16, <2>2, GoOutside, OutsideLabels, MoveType DEF Reconfigure
  <2> QED BY <2>1, <2>2
<1>17. CASE Mem(p)
  <2>1. Go(p, "mem", AfterMem(p)) /\ AfterMem(p) \in Outside
    BY <1>17, AfterMemCases DEF Mem
  <2>2. round' \in [CPUs -> Int]
    BY <1>0, <1>17 DEF Mem
  <2> QED BY <1>0, <1>17, <2>1, <2>2, GoOutside, OutsideLabels, MoveType DEF Mem
<1> QED BY <1>1, <1>2, <1>3, <1>4, <1>5, <1>6, <1>7, <1>8, <1>9, <1>10, <1>11, <1>12, <1>13,
        <1>14, <1>15, <1>16, <1>17 DEF CpuStep

LEMMA TlbType ==
  ASSUME TypeOK, NEW p \in CPUs, NEW b \in Buffers, Load(p, b) \/ Evict(p, b)
  PROVE  TypeOK'
<1>1. tlb \in [CPUs -> [Buffers -> Entries \cup {None}]] /\ pte \in [Buffers -> Entries]
  BY DEF TypeOK
<1>2. \E x \in Entries \cup {None} : tlb' = [tlb EXCEPT ![p][b] = x]
  BY <1>1 DEF Load, Evict
<1>3. tlb' \in [CPUs -> [Buffers -> Entries \cup {None}]]
  BY <1>1, <1>2
<1>4. UNCHANGED <<mode, result, site, flag, pc, todo, round, pte, want>>
  BY DEF Load, Evict, menuVars
<1> QED BY <1>3, <1>4 DEF TypeOK
-----------------------------------------------------------------------------
(* The steps of a CPU: it stays in the phase.                               *)

LEMMA Moved ==
  ASSUME TypeOK, NEW p \in CPUs, NEW from, NEW to, Go(p, from, to)
  PROVE  pc[p] = from /\ pc'[p] = to /\ \A q \in CPUs : q # p => pc'[q] = pc[q]
BY DEF Go, TypeOK

\* The functions of the places, for a step that changes them at one CPU.
LEMMA PlaceTypes ==
  ASSUME TypeOK
  PROVE  /\ site \in [CPUs -> Sites] /\ round \in [CPUs -> Int] /\ flag \in [CPUs -> Flags]
         /\ mode \in {"default", "menu"} /\ result \in Nat
BY DEF TypeOK

LEMMA QuietKept == Quiet /\ UNCHANGED <<flag, pte, tlb>> => Quiet'
BY DEF Quiet, Fresh

LEMMA StartingStep ==
  ASSUME TypeOK, Quiet, Starting, NEW p \in CPUs, CpuStep(p)
  PROVE  FALSE
BY StepOf DEF Starting, At

LEMMA EnteringStep ==
  ASSUME TypeOK, Quiet, NEW s \in Sites, Entering(s), NEW p \in CPUs, CpuStep(p)
  PROVE  FALSE
BY StepOf DEF Entering, At

LEMMA AskingStep ==
  ASSUME TypeOK, Quiet, Asking, NEW p \in CPUs, CpuStep(p)
  PROVE  Quiet' /\ Asking'
<1>1. p = 0 /\ AskMode(p)
  BY StepOf DEF Asking, At
<1>2. Go(p, "ask", "b_262") /\ UNCHANGED <<flag, site, round, pte, tlb>>
  BY <1>1 DEF AskMode, tableVars
<1>3. Quiet'
  BY <1>2, QuietKept
<1> QED BY <1>1, <1>2, <1>3, Moved DEF Asking, At

LEMMA ChoosingStep ==
  ASSUME TypeOK, Quiet, Choosing, NEW p \in CPUs, CpuStep(p)
  PROVE  Quiet' /\ Choosing'
<1>1. pc[p] = "mode" /\ TestMode(p)
  BY StepOf DEF Choosing, At
<1>2. /\ Go(p, "mode", IF mode = "menu" THEN "b_61" ELSE "b_104")
      /\ round' = [round EXCEPT ![p] = IF mode = "menu" THEN 0 ELSE 3]
      /\ UNCHANGED <<mode, flag, site, pte, tlb>>
  BY <1>1 DEF TestMode, tableVars, menuVars
<1>3. Quiet'
  BY <1>2, QuietKept
<1>4. /\ pc'[p] = (IF mode = "menu" THEN "b_61" ELSE "b_104")
      /\ \A q \in CPUs : q # p => pc'[q] = pc[q]
  BY <1>2, Moved
<1>5. /\ round'[p] = (IF mode = "menu" THEN 0 ELSE 3)
      /\ \A q \in CPUs : q # p => round'[q] = round[q]
  BY <1>2, PlaceTypes
<1> QED BY <1>1, <1>2, <1>3, <1>4, <1>5 DEF Choosing, At

LEMMA SelectingStep ==
  ASSUME TypeOK, Quiet, NEW s \in Sites, Selecting(s), NEW p \in CPUs, CpuStep(p)
  PROVE  Quiet' /\ Selecting(s)'
<1>1. p = 0 /\ Select(p)
  BY StepOf DEF Selecting, At
<1>2. Go(p, "select", "b_99") /\ UNCHANGED <<flag, site, round, pte, tlb>>
  BY <1>1 DEF Select, tableVars
<1>3. Quiet'
  BY <1>2, QuietKept
<1> QED BY <1>1, <1>2, <1>3, Moved DEF Selecting, At

LEMMA LeavingMainStep ==
  ASSUME TypeOK, Quiet, LeavingMain, NEW p \in CPUs, CpuStep(p)
  PROVE  Quiet' /\ LeavingMain'
<1>1. pc[p] = "return" /\ site[p] = "Main menu"
  BY StepOf DEF LeavingMain, At
<1>2. FromMainMenu(p)
  BY <1>1, StepOf DEF FromBenchMenu, FromReconfMenu, Buffers
<1>3. UNCHANGED <<result, flag, pte, tlb>>
  BY <1>2 DEF FromMainMenu, tableVars
<1>4. Quiet'
  BY <1>3, QuietKept
<1>5. \/ /\ result = 1 /\ pc'[p] = "b_104" /\ round'[p] = 3 /\ site'[p] = "Main menu"
      \/ /\ result = 3 /\ pc'[p] = "b_197" /\ round'[p] = 0 /\ site'[p] = "Benchmarks"
      \/ /\ result # 1 /\ result # 3 /\ pc'[p] = "stop" /\ round'[p] = 0 /\ site'[p] = "Main menu"
  <2>1. CASE result = 1
    <3>1. /\ Go(p, "return", "b_104") /\ round' = [round EXCEPT ![p] = 3]
          /\ site' = [site EXCEPT ![p] = "Main menu"]
      <4>1. 1 # 3
        OBVIOUS
      <4> QED BY <1>1, <1>2, <2>1, <4>1, MainStep, Zenon
    <3> QED BY <2>1, <3>1, Moved, PlaceTypes
  <2>2. CASE result = 3
    <3>1. /\ Go(p, "return", "b_197") /\ round' = [round EXCEPT ![p] = 0]
          /\ site' = [site EXCEPT ![p] = "Benchmarks"]
      <4>1. 1 # 3
        OBVIOUS
      <4> QED BY <1>2, <2>2, <4>1, MainStep, Zenon
    <3> QED BY <2>2, <3>1, Moved, PlaceTypes
  <2>3. CASE result # 1 /\ result # 3
    <3>1. /\ Go(p, "return", "stop") /\ round' = [round EXCEPT ![p] = 0]
          /\ site' = [site EXCEPT ![p] = "Main menu"]
      BY <1>1, <1>2, <2>3, MainStep
    <3> QED BY <2>3, <3>1, Moved, PlaceTypes
  <2> QED BY <2>1, <2>2, <2>3
<1>6. \A q \in CPUs : q # p => pc'[q] = pc[q] /\ round'[q] = round[q] /\ site'[q] = site[q]
  <2>1. /\ \E to : Go(p, "return", to)
        /\ \E x : round' = [round EXCEPT ![p] = x]
        /\ \E x : site' = [site EXCEPT ![p] = x]
    BY <1>2, MainStep, Zenon
  <2> QED BY <2>1, Moved, PlaceTypes
<1>7. \A q \in CPUs : q # p =>
        \/ pc'[q] = "return" /\ site'[q] = "Main menu" /\ round'[q] = 0
        \/ result = 1 /\ pc'[q] = "b_104" /\ site'[q] = "Main menu" /\ round'[q] = 3
        \/ result = 3 /\ pc'[q] = "b_197" /\ site'[q] = "Benchmarks" /\ round'[q] = 0
        \/ result \notin {1, 3} /\ pc'[q] = "stop" /\ site'[q] = "Main menu" /\ round'[q] = 0
  BY <1>6 DEF LeavingMain, At
<1> QED BY <1>3, <1>4, <1>5, <1>7 DEF LeavingMain, At

\* The cases of the menu of payload_benchmark_menu().
LEMMA NamedCases ==
  /\ result = 1 => Named = "p_buffer"
  /\ result = 2 => Named = "p_contender"
  /\ result = Abort => Named = "Main menu"
  /\ result # 1 /\ result # 2 /\ result # Abort => Named = "Benchmarks"
<1>1. 1 # 2 /\ 1 # Abort /\ 2 # Abort
  BY DEF Abort
<1> QED BY <1>1, Zenon DEF Named

LEMMA NamedType == Named \in Sites /\ (result \in {6, 7} => Named = "Benchmarks")
<1>1. 6 # 1 /\ 6 # 2 /\ 6 # Abort /\ 7 # 1 /\ 7 # 2 /\ 7 # Abort
  BY DEF Abort
<1> QED BY <1>1, NamedCases DEF Sites, Buffers

LEMMA BenchStep ==
  ASSUME NEW p \in CPUs, FromBenchMenu(p)
  PROVE  /\ pc[p] = "return" /\ site[p] = "Benchmarks"
         /\ site' = [site EXCEPT ![p] = Named]
         /\ Go(p, "return", ToBench)
         /\ UNCHANGED <<mode, result, flag, round, pte, tlb>>
<1>1. 1 # 2 /\ 1 # Abort /\ 2 # Abort
  BY DEF Abort
<1>2. /\ pc[p] = "return" /\ site[p] = "Benchmarks"
      /\ Go(p, "return", ToBench)
  BY Zenon DEF FromBenchMenu, Go, ToBench
<1>3. UNCHANGED <<mode, result, flag, round, pte, tlb>>
  BY Zenon DEF FromBenchMenu, tableVars
<1>4. CASE result = 1
  <2>1. site' = [site EXCEPT ![p] = "p_buffer"]
    BY <1>1, <1>4, Zenon DEF FromBenchMenu
  <2> QED BY <1>2, <1>3, <1>4, <2>1, NamedCases, Zenon
<1>5. CASE result = 2
  <2>1. site' = [site EXCEPT ![p] = "p_contender"]
    BY <1>1, <1>5, Zenon DEF FromBenchMenu
  <2> QED BY <1>2, <1>3, <1>5, <2>1, NamedCases, Zenon
<1>6. CASE result = Abort
  <2>1. site' = [site EXCEPT ![p] = "Main menu"]
    BY <1>1, <1>6, Zenon DEF FromBenchMenu
  <2> QED BY <1>2, <1>3, <1>6, <2>1, NamedCases, Zenon
<1>7. CASE result # 1 /\ result # 2 /\ result # Abort
  <2>1. Named = site[p]
    BY <1>2, <1>7, NamedCases
  <2>2. site' = [site EXCEPT ![p] = site[p]]
    BY <1>7, Zenon DEF FromBenchMenu
  <2> QED BY <1>2, <1>3, <2>1, <2>2, Zenon
<1> QED BY <1>2, <1>3, <1>4, <1>5, <1>6, <1>7

\* The step of CPU p in bench_mem().
LEMMA MemStep ==
  ASSUME TypeOK, NEW p \in CPUs, NEW s, NEW r, At(p, "mem", s, r), CpuStep(p)
  PROVE  /\ UNCHANGED <<mode, result, flag, site, pte, tlb, want>>
         /\ InMem(p, s, r)'
         /\ \A q \in CPUs : q # p => pc'[q] = pc[q] /\ round'[q] = round[q]
         /\ \A q : AfterMem(q)' = AfterMem(q)
<1>1. Mem(p)
  BY StepOf DEF At
<1>2. /\ Go(p, "mem", AfterMem(p)) /\ UNCHANGED <<mode, result, flag, site, pte, tlb, want>>
      /\ round' = [round EXCEPT ![p] = IF CPUs = {0} THEN 0 ELSE round[p]]
  BY <1>1 DEF Mem, menuVars, tableVars
<1>3. \A q : AfterMem(q)' = AfterMem(q)
  BY <1>2 DEF AfterMem
<1>4. pc'[p] = AfterMem(p) /\ \A q \in CPUs : q # p => pc'[q] = pc[q]
  BY <1>2, Moved
<1>5. /\ round'[p] = IF CPUs = {0} THEN 0 ELSE round[p]
      /\ \A q \in CPUs : q # p => round'[q] = round[q]
  BY <1>2, PlaceTypes
<1>6. pc'[p] = AfterMem(p)' /\ site'[p] = s /\ round'[p] = Left(r)
  BY <1>2, <1>3, <1>4, <1>5 DEF At, Left
<1> QED BY <1>2, <1>3, <1>4, <1>5, <1>6 DEF InMem, At, Left

\* A CPU that is in bench_mem() and takes a step is at its beginning.
LEMMA InMemAt ==
  ASSUME NEW p \in CPUs, NEW s, NEW r, InMem(p, s, r)
  PROVE  /\ CpuStep(p) => At(p, "mem", s, r)
         /\ Barrier => CPUs = {0} /\ At(p, "b_61", s, 0)
<1>1. CASE At(p, "mem", s, r)
  BY <1>1, BarrierOf DEF At, Barriers
<1>2. CASE At(p, AfterMem(p), s, Left(r))
  <2>1. CpuStep(p) => FALSE
    BY <1>2, AfterMemCases, StepOf DEF At
  <2>2. Barrier => pc[p] \in Barriers /\ pc[p] = pc[0]
    BY BarrierOf
  <2>3. CASE CPUs = {0}
    BY <1>2, <2>1, <2>2, <2>3, AfterMemCases DEF At, Left, Barriers
  <2>4. CASE CPUs # {0}
    <3>1. Barrier => pc[p] = "b_652"
      BY <1>2, <2>2, <2>4, AfterMemCases DEF At, Barriers
    <3>2. Barrier => pc[0] # "b_652"
      BY BarrierNotEnd
    <3> QED BY <2>1, <2>2, <3>1, <3>2
  <2> QED BY <2>3, <2>4
<1> QED BY <1>1, <1>2 DEF InMem

LEMMA LeavingBenchStep ==
  ASSUME TypeOK, Quiet, LeavingBench, NEW p \in CPUs, CpuStep(p)
  PROVE  Quiet' /\ LeavingBench'
<1>1. CASE pc[p] = "bench"
  <2>1. Bench(p)
    BY <1>1, StepOf
  <2>2. Go(p, "bench", "b_515") /\ UNCHANGED <<result, flag, site, round, pte, tlb>>
    BY <2>1 DEF Bench, menuVars, tableVars
  <2>3. Quiet'
    BY <2>2, QuietKept
  <2>4. Named' = Named
    BY <2>2 DEF Named
  <2>5. \A q : AfterMem(q)' = AfterMem(q)
    BY <2>1 DEF Bench, menuVars, AfterMem
  <2>6. result = 6
    BY <1>1, AfterMemCases DEF LeavingBench, InMem, At
  <2> QED BY <1>1, <2>2, <2>3, <2>4, <2>5, <2>6, Moved DEF LeavingBench, At
<1>2. CASE pc[p] = "return"
  <2>1. site[p] = "Benchmarks" /\ round[p] = 0
    BY <1>2, AfterMemCases DEF LeavingBench, InMem, At
  <2>2. FromBenchMenu(p)
    BY <1>2, <2>1, StepOf DEF FromMainMenu, FromReconfMenu, Buffers
  <2>3. UNCHANGED <<mode, result, flag, round, pte, tlb>>
    BY <2>2, BenchStep
  <2>4. Quiet' /\ Named' = Named
    BY <2>3, QuietKept DEF Named
  <2>5. pc'[p] = ToBench /\ site'[p] = Named
    BY <2>2, BenchStep, Moved, PlaceTypes
  <2>6. \A q \in CPUs : q # p => pc'[q] = pc[q] /\ site'[q] = site[q]
    BY <2>2, BenchStep, Moved, PlaceTypes
  <2>7. \A q : AfterMem(q)' = AfterMem(q)
    BY <2>3 DEF AfterMem
  <2> QED BY <2>1, <2>3, <2>4, <2>5, <2>6, <2>7, NamedType, ToBenchCases
        DEF LeavingBench, InMem, At
<1>3. CASE pc[p] = "mem"
  <2>1. result = 7 /\ At(p, "mem", "Benchmarks", 0)
    BY <1>3, AfterMemCases DEF LeavingBench, InMem, At
  <2>2. /\ UNCHANGED <<mode, result, flag, site, pte, tlb>>
        /\ InMem(p, "Benchmarks", 0)'
        /\ \A q \in CPUs : q # p => pc'[q] = pc[q] /\ round'[q] = round[q]
        /\ \A q : AfterMem(q)' = AfterMem(q)
    BY <2>1, MemStep
  <2>3. Quiet'
    BY <2>2, QuietKept
  <2> QED BY <2>1, <2>2, <2>3 DEF LeavingBench, InMem, At
<1>4. pc[p] \in {"bench", "return", "mem"}
  BY StepOf, InMemAt DEF LeavingBench, At
<1> QED BY <1>1, <1>2, <1>3, <1>4

LEMMA AbortingStep ==
  ASSUME TypeOK, Quiet, NEW b \in Buffers, Aborting(b), NEW p \in CPUs, CpuStep(p)
  PROVE  Quiet' /\ Aborting(b)'
<1>1. pc[p] = "return" /\ site[p] = b /\ result = Abort /\ round[p] = 0
  BY StepOf DEF Aborting, At
<1>2. FromReconfMenu(p)
  BY <1>1, StepOf DEF FromMainMenu, FromBenchMenu, Buffers
<1>3. CaseFlag(result, flag[p]) = flag[p]
  <2>1. Abort # 1 /\ Abort # 2 /\ Abort # 3
    BY DEF Abort
  <2> QED BY <1>1, <2>1, Zenon DEF CaseFlag
<1>4. UNCHANGED <<result, flag, round, pte, tlb>>
  <2>1. flag' = [flag EXCEPT ![p] = flag[p]]
    BY <1>2, <1>3 DEF FromReconfMenu
  <2>2. flag' = flag
    BY <2>1, PlaceTypes
  <2> QED BY <1>2, <2>2 DEF FromReconfMenu, tableVars
<1>5. Quiet'
  BY <1>4, QuietKept
<1>6. Go(p, "return", "b_61") /\ site' = [site EXCEPT ![p] = "Benchmarks"]
  BY <1>1, <1>2 DEF FromReconfMenu
<1>7. /\ pc'[p] = "b_61" /\ site'[p] = "Benchmarks"
      /\ \A q \in CPUs : q # p => pc'[q] = pc[q] /\ site'[q] = site[q]
  BY <1>6, Moved, PlaceTypes
<1> QED BY <1>1, <1>4, <1>5, <1>7 DEF Aborting, At

LEMMA WorkingStep ==
  ASSUME TypeOK, Quiet, NEW s \in Sites, NEW r \in 0..3, Working(s, r),
         r \in {1, 2} => pte = want, NEW p \in CPUs, CpuStep(p)
  PROVE  Quiet' /\ Working(s, r)' /\ (r \in {1, 2} => pte' = want')
<1>1. pc[p] = "bench" /\ Bench(p)
  BY StepOf DEF Working, At
<1>2. Go(p, "bench", "b_515") /\ UNCHANGED <<flag, site, round, pte, tlb, want>>
  BY <1>1 DEF Bench, menuVars, tableVars
<1>3. Quiet'
  BY <1>2, QuietKept
<1> QED BY <1>1, <1>2, <1>3, Moved DEF Working, At

LEMMA FinishingStep ==
  ASSUME TypeOK, Quiet, NEW s \in Sites, NEW r \in 0..1, Finishing(s, r),
         r = 1 => pte = want, NEW p \in CPUs, CpuStep(p)
  PROVE  Quiet' /\ Finishing(s, r)' /\ (r = 1 => pte' = want')
<1>1. pc[p] = "next" /\ round[p] = r /\ site[p] = s
  BY StepOf DEF Finishing, At
<1>2. BackToMenu(p) \/ LastBench(p)
  BY <1>1, StepOf DEF Reconfigure
<1>3. UNCHANGED <<flag, site, round, pte, tlb, want>>
  BY <1>2 DEF BackToMenu, LastBench, menuVars, tableVars
<1>4. Quiet'
  BY <1>3, QuietKept
<1>5. CASE BackToMenu(p)
  <2>1. r = 0 /\ Go(p, "next", "b_61")
    BY <1>1, <1>5 DEF BackToMenu
  <2> QED BY <1>1, <1>3, <1>4, <2>1, Moved DEF Finishing, At
<1>6. CASE LastBench(p)
  <2>1. r = 1 /\ Go(p, "next", "b_153")
    BY <1>1, <1>6 DEF LastBench
  <2> QED BY <1>1, <1>3, <1>4, <2>1, Moved DEF Finishing, At
<1> QED BY <1>2, <1>5, <1>6

LEMMA MeasuringStep ==
  ASSUME TypeOK, Quiet, NEW s \in Sites, Measuring(s), pte = want, NEW p \in CPUs, CpuStep(p)
  PROVE  Quiet' /\ Measuring(s)' /\ pte' = want'
<1>1. At(p, "mem", s, 1)
  BY InMemAt DEF Measuring
<1>2. /\ UNCHANGED <<flag, site, pte, tlb, want>>
      /\ InMem(p, s, 1)'
      /\ \A q \in CPUs : q # p => pc'[q] = pc[q] /\ round'[q] = round[q]
      /\ \A q : AfterMem(q)' = AfterMem(q)
  BY <1>1, MemStep
<1>3. Quiet'
  BY <1>2, QuietKept
<1>4. ASSUME NEW q \in CPUs, q # p PROVE InMem(q, s, 1)'
  <2>1. InMem(q, s, 1)
    BY DEF Measuring
  <2> QED BY <1>2, <1>4, <2>1 DEF InMem, At
<1> QED BY <1>2, <1>3, <1>4 DEF Measuring

\* heap_reconfig() as FromReconfMenu() enters it, when an entry was selected.
LEMMA ReconfStep ==
  ASSUME TypeOK, NEW p \in CPUs, FromReconfMenu(p), result # Abort
  PROVE  /\ pc[p] = "return" /\ pc'[p] = "lock"
         /\ \A q \in CPUs : q # p =>
              pc'[q] = pc[q] /\ todo'[q] = todo[q] /\ flag'[q] = flag[q]
         /\ flag'[p] = CaseFlag(result, flag[p])
         /\ todo'[p] = <<<<site[p], flag'[p]>>>>
         /\ UNCHANGED <<result, site, round, pte, tlb>>
<1>1. /\ Go(p, "return", "lock") /\ flag' = [flag EXCEPT ![p] = CaseFlag(result, flag[p])]
      /\ todo' = [todo EXCEPT ![p] = <<<<site[p], flag'[p]>>>>]
      /\ site' = [site EXCEPT ![p] = site[p]]
      /\ UNCHANGED <<result, round, pte, tlb>>
  BY DEF FromReconfMenu, tableVars
<1>2. DOMAIN todo = CPUs
  BY DEF TypeOK
<1>3. site' = site
  BY <1>1, PlaceTypes
<1>4. flag'[p] = CaseFlag(result, flag[p]) /\ \A q \in CPUs : q # p => flag'[q] = flag[q]
  BY <1>1, PlaceTypes
<1>5. todo'[p] = <<<<site[p], flag'[p]>>>> /\ \A q \in CPUs : q # p => todo'[q] = todo[q]
  BY <1>1, <1>2
<1>6. pc[p] = "return" /\ pc'[p] = "lock" /\ \A q \in CPUs : q # p => pc'[q] = pc[q]
  BY <1>1, Moved
<1> QED BY <1>1, <1>3, <1>4, <1>5, <1>6

\* The writes of reconf_adr(), to the entry of b and the flags v.
LEMMA WriteParts ==
  ASSUME TypeOK, NEW b \in Buffers, NEW v \in Flags
  PROVE  /\ pte' = [pte EXCEPT ![b].pwt = v.pwt] =>
              /\ pte'[b].pwt = v.pwt
              /\ pte[b] = v => pte'[b] = v
              /\ \A o \in Buffers : o # b => pte'[o] = pte[o]
         /\ pte' = [pte EXCEPT ![b].pcd = v.pcd] =>
              /\ pte'[b].pwt = pte[b].pwt
              /\ pte[b].pwt = v.pwt => pte'[b] = v
              /\ \A o \in Buffers : o # b => pte'[o] = pte[o]
<1>1. pte \in [Buffers -> Entries] /\ v \in Entries
  BY FlagTypes DEF TypeOK
<1>2. PICK x \in BOOLEAN, y \in BOOLEAN : v = [pwt |-> x, pcd |-> y]
  BY <1>1 DEF Entries
<1>3. PICK w \in BOOLEAN, z \in BOOLEAN : pte[b] = [pwt |-> w, pcd |-> z]
  BY <1>1 DEF Entries
<1>4. v.pwt = x /\ v.pcd = y /\ pte[b].pwt = w /\ pte[b].pcd = z
  BY <1>2, <1>3
<1>5. ASSUME pte' = [pte EXCEPT ![b].pwt = v.pwt]
      PROVE  /\ pte'[b] = [pwt |-> x, pcd |-> z]
             /\ \A o \in Buffers : o # b => pte'[o] = pte[o]
  BY <1>1, <1>3, <1>4, <1>5
<1>6. ASSUME pte' = [pte EXCEPT ![b].pcd = v.pcd]
      PROVE  /\ pte'[b] = [pwt |-> w, pcd |-> y]
             /\ \A o \in Buffers : o # b => pte'[o] = pte[o]
  BY <1>1, <1>3, <1>4, <1>6
<1>7. [pwt |-> x, pcd |-> z].pwt = x /\ [pwt |-> w, pcd |-> y].pwt = w
  OBVIOUS
<1>8. pte[b] = v => z = y
  BY <1>4
<1> QED BY <1>2, <1>4, <1>5, <1>6, <1>7, <1>8
\* The step of another CPU leaves what is true of q, if it writes the same flags.
LEMMA OthersRewrite ==
  ASSUME NEW b \in Buffers, NEW v \in Flags, NEW q \in CPUs, Rewrites(q, b, v),
         result' = result, pc'[q] = pc[q], site'[q] = site[q], round'[q] = round[q],
         flag'[q] = flag[q], todo'[q] = todo[q], tlb'[q] = tlb[q],
         pte[b] = v => pte'[b] = v,
         pte[b].pwt = v.pwt => pte'[b].pwt = v.pwt,
         \A o \in Buffers : o # b => pte'[o] = pte[o]
  PROVE  Rewrites(q, b, v)'
<1>1. \/ pc'[q] = "return" /\ site'[q] = b /\ round'[q] = 0 /\ v = CaseFlag(result', flag'[q])
      \/ /\ pc'[q] \in InReconf /\ site'[q] = b /\ round'[q] = 0
         /\ flag'[q] = v /\ todo'[q] = <<<<b, v>>>>
      \/ pc'[q] = "b_61" /\ site'[q] = "Benchmarks" /\ round'[q] = 0 /\ flag'[q] = v
  BY DEF Rewrites, At
<1>2. /\ pc'[q] = "pcd" => pte'[b].pwt = v.pwt
      /\ pc'[q] \in {"invlpg", "unlock", "b_61"} => pte'[b] = v
  BY DEF Rewrites
<1>3. pc'[q] \in {"unlock", "b_61"} => tlb'[q][b] = None \/ tlb'[q][b] = pte'[b]
  BY DEF Rewrites, Fresh
<1>4. \A o \in Buffers : o # b => tlb'[q][o] = None \/ tlb'[q][o] = pte'[o]
  BY DEF Rewrites, Fresh
<1>5. CaseFlag(result, flag[q])' = CaseFlag(result', flag'[q])
  BY DEF CaseFlag
<1> QED BY <1>1, <1>2, <1>3, <1>4, <1>5 DEF Rewrites, Fresh, At

LEMMA RewritingStep ==
  ASSUME TypeOK, NEW b \in Buffers, NEW v \in Flags, Rewriting(b, v), NEW p \in CPUs, CpuStep(p)
  PROVE  Rewriting(b, v)'
<1> DEFINE Kept == /\ pte[b] = v => pte'[b] = v
                   /\ pte[b].pwt = v.pwt => pte'[b].pwt = v.pwt
                   /\ \A o \in Buffers : o # b => pte'[o] = pte[o]
           Others == \A q \in CPUs : q # p =>
                       /\ pc'[q] = pc[q] /\ site'[q] = site[q] /\ flag'[q] = flag[q]
                       /\ todo'[q] = todo[q] /\ tlb'[q] = tlb[q]
<1>0. /\ result # Abort /\ Rewrites(p, b, v)
      /\ \A q \in CPUs : Rewrites(q, b, v)
  BY DEF Rewriting
<1>s. SUFFICES Kept /\ Others /\ Rewrites(p, b, v)' /\ UNCHANGED <<result, round>>
  <2>1. \A q \in CPUs : q # p => Rewrites(q, b, v)'
    BY <1>0, <1>s, OthersRewrite
  <2> QED BY <1>0, <1>s, <2>1 DEF Rewriting
<1>1. CASE pc[p] = "return"
  <2>1. site[p] = b /\ round[p] = 0 /\ v = CaseFlag(result, flag[p])
    BY <1>0, <1>1 DEF Rewrites, At, InReconf
  <2>2. FromReconfMenu(p)
    BY <1>1, <2>1, StepOf DEF FromMainMenu, FromBenchMenu, Buffers
  <2>3. /\ pc'[p] = "lock" /\ flag'[p] = v /\ todo'[p] = <<<<b, v>>>>
        /\ UNCHANGED <<result, site, round, pte, tlb>>
    BY <1>0, <2>1, <2>2, ReconfStep
  <2>4. Others
    BY <1>0, <2>2, ReconfStep
  <2>5. \A o \in Buffers : o # b => tlb'[p][o] = None \/ tlb'[p][o] = pte'[o]
    BY <1>0, <2>3 DEF Rewrites, Fresh
  <2> QED BY <2>1, <2>3, <2>4, <2>5 DEF Rewrites, Fresh, InReconf
<1>2. ASSUME pc[p] \in InReconf PROVE Kept /\ Others /\ Rewrites(p, b, v)' /\ UNCHANGED <<result, round>>
  <2>1. /\ site[p] = b /\ round[p] = 0 /\ flag[p] = v /\ todo[p] = <<<<b, v>>>>
    BY <1>0, <1>2 DEF Rewrites, At, InReconf
  <2>2. /\ Head(todo[p]) = <<b, v>> /\ Head(todo[p])[1] = b /\ Head(todo[p])[2] = v
        /\ Len(todo[p]) = 1 /\ Tail(todo[p]) = <<>>
    BY <2>1
  <2>o. \A o \in Buffers : o # b => tlb[p][o] = None \/ tlb[p][o] = pte[o]
    BY <1>0 DEF Rewrites, Fresh
  <2>3. CASE pc[p] = "lock"
    <3>1. Lock(p)
      BY <2>3, StepOf
    <3>2. Go(p, "lock", "pwt") /\ UNCHANGED <<result, site, flag, todo, round, pte, tlb>>
      BY <3>1 DEF Lock, menuVars
    <3>3. pc'[p] = "pwt" /\ Others
      BY <3>2, Moved
    <3> QED BY <2>1, <2>o, <3>2, <3>3 DEF Rewrites, Fresh, InReconf
  <2>4. CASE pc[p] = "pwt"
    <3>1. SetPwt(p)
      BY <2>4, StepOf
    <3>2. /\ Go(p, "pwt", "pcd") /\ UNCHANGED <<result, site, flag, todo, round, tlb>>
          /\ pte' = [pte EXCEPT ![b].pwt = v.pwt]
      BY <2>2, <3>1 DEF SetPwt, menuVars
    <3>3. pc'[p] = "pcd" /\ Others
      BY <3>2, Moved
    <3>4. pte'[b].pwt = v.pwt /\ Kept
      BY <3>2, WriteParts
    <3> QED BY <2>1, <2>o, <3>2, <3>3, <3>4 DEF Rewrites, Fresh, InReconf
  <2>5. CASE pc[p] = "pcd"
    <3>1. SetPcd(p) /\ pte[b].pwt = v.pwt
      BY <1>0, <2>5, StepOf DEF Rewrites
    <3>2. /\ Go(p, "pcd", "invlpg") /\ UNCHANGED <<result, site, flag, todo, round, tlb>>
          /\ pte' = [pte EXCEPT ![b].pcd = v.pcd]
      BY <2>2, <3>1 DEF SetPcd, menuVars
    <3>3. pc'[p] = "invlpg" /\ Others
      BY <3>2, Moved
    <3>4. pte'[b] = v /\ Kept
      BY <3>1, <3>2, WriteParts
    <3> QED BY <2>1, <2>o, <3>2, <3>3, <3>4 DEF Rewrites, Fresh, InReconf
  <2>6. CASE pc[p] = "invlpg"
    <3>1. Invlpg(p) /\ pte[b] = v
      BY <1>0, <2>6, StepOf DEF Rewrites
    <3>2. /\ Go(p, "invlpg", "unlock") /\ UNCHANGED <<result, site, flag, todo, round, pte>>
          /\ tlb' = [tlb EXCEPT ![p][b] = None]
      BY <2>2, <3>1 DEF Invlpg, menuVars
    <3>3. /\ tlb'[p][b] = None /\ \A o \in Buffers : o # b => tlb'[p][o] = tlb[p][o]
          /\ \A q \in CPUs : q # p => tlb'[q] = tlb[q]
      BY <3>2 DEF TypeOK
    <3>4. pc'[p] = "unlock" /\ Others
      BY <3>2, <3>3, Moved
    <3> QED BY <2>1, <2>o, <3>1, <3>2, <3>3, <3>4 DEF Rewrites, Fresh, InReconf
  <2>7. CASE pc[p] = "unlock"
    <3>1. Unlock(p) /\ pte[b] = v /\ (tlb[p][b] = None \/ tlb[p][b] = pte[b])
      BY <1>0, <2>7, StepOf DEF Rewrites, Fresh
    <3>2. /\ Go(p, "unlock", "b_61") /\ UNCHANGED <<result, flag, round, pte, tlb>>
          /\ site' = [site EXCEPT ![p] = "Benchmarks"]
          /\ todo' = [todo EXCEPT ![p] = <<>>]
      BY <2>1, <2>2, <3>1 DEF Unlock, AfterReconf
    <3>3. DOMAIN todo = CPUs
      BY DEF TypeOK
    <3>4. pc'[p] = "b_61" /\ site'[p] = "Benchmarks" /\ Others
      BY <3>2, <3>3, Moved, PlaceTypes
    <3> QED BY <2>1, <2>o, <3>1, <3>2, <3>4 DEF Rewrites, Fresh, InReconf, At
  <2> QED BY <1>2, <2>3, <2>4, <2>5, <2>6, <2>7 DEF InReconf
<1>3. pc[p] # "b_61"
  BY StepOf
<1> QED BY <1>0, <1>1, <1>2, <1>3 DEF Rewrites, At
\* The two calls of CPU 0.
LEMMA CallParts ==
  ASSUME NEW r
  PROVE  /\ Contender(r) \in Flags /\ WriteBack \in Flags
         /\ Head(Calls(r)) = <<"p_buffer", WriteBack>> /\ Len(Calls(r)) = 2
         /\ Tail(Calls(r)) = <<<<"p_contender", Contender(r)>>>>
         /\ Head(Tail(Calls(r))) = <<"p_contender", Contender(r)>>
         /\ Len(Tail(Calls(r))) = 1 /\ Tail(Tail(Calls(r))) = <<>>
<1>1. Contender(r) \in Flags /\ WriteBack \in Flags
  BY DEF Contender, Flags
<1> QED BY <1>1 DEF Calls

LEMMA ReconfiguringStep ==
  ASSUME TypeOK, NEW s \in Sites, NEW r \in 2..3, Reconfiguring(s, r), NEW p \in CPUs, CpuStep(p)
  PROVE  Reconfiguring(s, r)'
<1> DEFINE Wanted == [b \in Buffers |-> IF b = "p_buffer" THEN WriteBack ELSE Contender(r)]
           Others == \A q \in CPUs : q # p => pc'[q] = pc[q]
<1>z. 0 \in CPUs
  BY CPUsAssumption
<1>0. /\ site[p] = s /\ round[p] = r /\ r > 1 /\ r \in Int
      /\ \A q \in CPUs : flag[q] = flag[p]
  BY DEF Reconfiguring, At
<1>1. CASE pc[p] = "next"
  <2>1. Reconfigure(p)
    BY <1>0, <1>1, StepOf DEF BackToMenu, LastBench
  <2>2. UNCHANGED <<flag, site, round, pte, tlb>>
    BY <2>1 DEF Reconfigure, menuVars, tableVars
  <2>3. CASE p = 0
    <3>1. /\ Go(p, "next", "lock") /\ want' = Wanted
          /\ todo' = [todo EXCEPT ![p] = Calls(r)]
      BY <1>0, <2>1, <2>3 DEF Reconfigure, Contender, Calls
    <3>2. pc'[p] = "lock" /\ Others /\ todo'[p] = Calls(r)
      BY <3>1, Moved DEF TypeOK
    <3>3. \A b \in Buffers : tlb[0][b] = None \/ tlb[0][b] = pte[b]
      BY <1>1, <2>3 DEF Reconfiguring, Fresh
    <3> QED BY <1>0, <1>1, <2>2, <2>3, <3>1, <3>2, <3>3 DEF Reconfiguring, Fresh, At, InReconf
  <2>4. CASE p # 0
    <3>1. Go(p, "next", "b_123") /\ UNCHANGED <<todo, want>>
      BY <2>1, <2>4 DEF Reconfigure
    <3>2. pc'[p] = "b_123" /\ Others
      BY <3>1, Moved
    <3> QED BY <1>z, <1>0, <1>1, <2>2, <2>4, <3>1, <3>2 DEF Reconfiguring, Fresh, At, InReconf
  <2> QED BY <2>3, <2>4
<1>2. ASSUME pc[p] \in InReconf PROVE Reconfiguring(s, r)'
  <2>1. /\ p = 0 /\ want = Wanted /\ pc[0] \in InReconf
        /\ \/ todo[0] = Calls(r)
           \/ todo[0] = Tail(Calls(r)) /\ pte["p_buffer"] = WriteBack
    BY <1>2 DEF Reconfiguring, At, InReconf
  <2>2. PICK b \in Buffers, v \in Flags :
          /\ Head(todo[0]) = <<b, v>> /\ Head(todo[0])[1] = b /\ Head(todo[0])[2] = v
          /\ b = "p_buffer" => v = WriteBack /\ todo[0] = Calls(r)
          /\ b # "p_buffer" => b = "p_contender" /\ v = Contender(r) /\ todo[0] = Tail(Calls(r))
                               /\ pte["p_buffer"] = WriteBack
    BY <2>1, CallParts DEF Buffers
  <2>f. \A o \in Buffers : o # b => tlb[0][o] = None \/ tlb[0][o] = pte[o]
    BY <2>2 DEF Reconfiguring, Fresh
  <2>g. pc[0] \in {"lock", "pwt", "unlock"} => tlb[0][b] = None \/ tlb[0][b] = pte[b]
    BY <2>2 DEF Reconfiguring, Fresh
  <2>h. \A q \in CPUs : q # 0 => pc[q] = "next" \/ pc[q] = "b_123"
    BY DEF Reconfiguring, At
  <2>i. \A q \in CPUs : site[q] = s /\ round[q] = r
    BY DEF Reconfiguring, At
  <2>j. \A c, d \in CPUs : flag[c] = flag[d]
    BY <1>0
  <2>3. CASE pc[p] = "lock"
    <3>1. Lock(p)
      BY <2>3, StepOf
    <3>2. Go(p, "lock", "pwt") /\ UNCHANGED <<site, flag, todo, round, pte, tlb, want>>
      BY <3>1 DEF Lock, menuVars
    <3>3. pc'[p] = "pwt" /\ Others
      BY <3>2, Moved
    <3> QED BY <2>1, <2>f, <2>g, <2>h, <2>i, <2>j, <2>2, <2>3, <3>2, <3>3
          DEF Reconfiguring, Fresh, InReconf, At
  <2>4. CASE pc[p] = "pwt"
    <3>1. SetPwt(p)
      BY <2>4, StepOf
    <3>2. /\ Go(p, "pwt", "pcd") /\ UNCHANGED <<site, flag, todo, round, tlb, want>>
          /\ pte' = [pte EXCEPT ![b].pwt = v.pwt]
      BY <2>1, <2>2, <3>1 DEF SetPwt, menuVars
    <3>3. pc'[p] = "pcd" /\ Others
      BY <3>2, Moved
    <3>4. pte'[b].pwt = v.pwt /\ \A o \in Buffers : o # b => pte'[o] = pte[o]
      BY <3>2, WriteParts
    <3>5. todo'[0] = Calls(r) \/ (todo'[0] = Tail(Calls(r)) /\ pte'["p_buffer"] = WriteBack)
      BY <2>2, <3>2, <3>4 DEF Buffers
    <3> QED BY <2>1, <2>f, <2>h, <2>i, <2>j, <2>2, <3>2, <3>3, <3>4, <3>5
          DEF Reconfiguring, Fresh, InReconf, At
  <2>5. CASE pc[p] = "pcd"
    <3>1. SetPcd(p) /\ pte[b].pwt = v.pwt
      BY <2>1, <2>2, <2>5, StepOf DEF Reconfiguring
    <3>2. /\ Go(p, "pcd", "invlpg") /\ UNCHANGED <<site, flag, todo, round, tlb, want>>
          /\ pte' = [pte EXCEPT ![b].pcd = v.pcd]
      BY <2>1, <2>2, <3>1 DEF SetPcd, menuVars
    <3>3. pc'[p] = "invlpg" /\ Others
      BY <3>2, Moved
    <3>4. pte'[b] = v /\ \A o \in Buffers : o # b => pte'[o] = pte[o]
      BY <3>1, <3>2, WriteParts
    <3>5. todo'[0] = Calls(r) \/ (todo'[0] = Tail(Calls(r)) /\ pte'["p_buffer"] = WriteBack)
      BY <2>2, <3>2, <3>4 DEF Buffers
    <3> QED BY <2>1, <2>f, <2>h, <2>i, <2>j, <2>2, <3>2, <3>3, <3>4, <3>5
          DEF Reconfiguring, Fresh, InReconf, At
  <2>6. CASE pc[p] = "invlpg"
    <3>1. Invlpg(p) /\ pte[b] = v
      BY <2>1, <2>2, <2>6, StepOf DEF Reconfiguring
    <3>2. /\ Go(p, "invlpg", "unlock") /\ UNCHANGED <<site, flag, todo, round, pte, want>>
          /\ tlb' = [tlb EXCEPT ![p][b] = None]
      BY <2>1, <2>2, <3>1 DEF Invlpg, menuVars
    <3>3. tlb'[p][b] = None /\ \A o \in Buffers : o # b => tlb'[p][o] = tlb[p][o]
      BY <3>2 DEF TypeOK
    <3>4. pc'[p] = "unlock" /\ Others
      BY <3>2, Moved
    <3> QED BY <2>1, <2>f, <2>h, <2>i, <2>j, <2>2, <3>1, <3>2, <3>3, <3>4
          DEF Reconfiguring, Fresh, InReconf, At
  <2>7. CASE pc[p] = "unlock"
    <3>1. Unlock(p) /\ pte[b] = v
      BY <2>1, <2>2, <2>7, StepOf DEF Reconfiguring
    <3>2. /\ UNCHANGED <<flag, round, pte, tlb, want>>
          /\ site' = [site EXCEPT ![p] = site[p]]
          /\ todo' = [todo EXCEPT ![p] = Tail(todo[p])]
          /\ Go(p, "unlock", IF Len(todo[p]) > 1 THEN "lock" ELSE AfterReconf(p))
      <4>1. round[p] > 0
        BY <1>0
      <4> QED BY <3>1, <4>1, Zenon DEF Unlock
    <3>3. site' = site /\ todo'[p] = Tail(todo[p])
      BY <3>2, PlaceTypes DEF TypeOK
    <3>4. CASE todo[0] = Calls(r)
      <4>1. b = "p_buffer" /\ v = WriteBack
        BY <3>4, <2>2, CallParts
      <4>2. Go(p, "unlock", "lock")
        BY <3>2, <3>4, <2>1, CallParts
      <4>3. pc'[p] = "lock" /\ Others
        BY <4>2, Moved
      <4> QED BY <2>1, <2>f, <2>g, <2>h, <2>i, <2>j, <2>7, <3>1, <3>2, <3>3, <3>4, <4>1, <4>3
            DEF Reconfiguring, Fresh, InReconf, At
    <3>5. CASE todo[0] # Calls(r)
      <4>1. b = "p_contender" /\ v = Contender(r) /\ pte["p_buffer"] = WriteBack
        BY <3>5, <2>2
      <4>2. Go(p, "unlock", "b_123")
        BY <1>0, <2>1, <3>2, <3>5, CallParts DEF AfterReconf
      <4>3. pc'[p] = "b_123" /\ Others
        BY <4>2, Moved
      <4>4. pte = want
        <5>1. pte \in [Buffers -> Entries]
          BY DEF TypeOK
        <5>2. \A o \in Buffers : pte[o] = Wanted[o]
          BY <3>1, <4>1 DEF Buffers
        <5> QED BY <2>1, <5>1, <5>2
      <4>5. \A o \in Buffers : tlb'[0][o] = None \/ tlb'[0][o] = pte'[o]
        BY <2>1, <2>f, <2>g, <2>7, <3>2
      <4>6. \A q \in CPUs : site'[q] = s /\ round'[q] = r /\ pc'[q] \in {"next", "b_123"}
        BY <2>1, <2>h, <2>i, <3>2, <3>3, <4>3
      <4>7. pte' = want' /\ want' = Wanted /\ \A c, d \in CPUs : flag'[c] = flag'[d]
        BY <2>1, <2>j, <3>2, <4>4
      <4> QED BY <2>1, <4>3, <4>5, <4>6, <4>7 DEF Reconfiguring, Fresh, InReconf, At
    <3> QED BY <3>4, <3>5
  <2> QED BY <1>2, <2>3, <2>4, <2>5, <2>6, <2>7 DEF InReconf
<1> QED BY <1>1, <1>2, StepOf DEF Reconfiguring, At

LEMMA ShootingStep ==
  ASSUME TypeOK, NEW s \in Sites, NEW r \in 2..3, Shooting(s, r), NEW p \in CPUs, CpuStep(p)
  PROVE  Shooting(s, r)'
<1>1. pc[p] = "shoot" /\ p # 0 /\ Shootdown(p)
  BY StepOf DEF Shooting, At
<1>2. /\ Go(p, "shoot", "b_130") /\ UNCHANGED <<flag, site, round, pte, want>>
      /\ tlb' = [tlb EXCEPT ![p] = [b \in Buffers |-> None]]
  BY <1>1 DEF Shootdown, menuVars
<1>3. /\ pc'[p] = "b_130" /\ \A b \in Buffers : tlb'[p][b] = None
      /\ \A q \in CPUs : q # p => pc'[q] = pc[q] /\ tlb'[q] = tlb[q]
  BY <1>2, Moved DEF TypeOK
<1>4. \A q \in CPUs, b \in Buffers : pc'[q] = "b_130" => tlb'[q][b] = None \/ tlb'[q][b] = pte'[b]
  BY <1>2, <1>3 DEF Shooting, Fresh
<1> QED BY <1>1, <1>2, <1>3, <1>4 DEF Shooting, Fresh, At
-----------------------------------------------------------------------------
(* The barriers: all go on to the next phase.                               *)

LEMMA Opened ==
  ASSUME NEW b, NEW f, NEW o, Released(b, f, o)
  PROVE  \A q \in CPUs : pc[q] = b /\ pc'[q] = IF q = 0 THEN f ELSE o
BY DEF Released

LEMMA StartingOpens ==
  ASSUME Quiet, Starting, Barrier
  PROVE  Quiet' /\ Asking'
<1>1. MainBarrier
  BY CPUsAssumption, BarrierOf DEF Starting, At
<1>2. Released("b_238", "ask", "b_262") /\ UNCHANGED <<flag, site, round, pte, tlb>>
  BY <1>1 DEF MainBarrier, menuVars, tableVars
<1>3. \A q \in CPUs : pc'[q] = IF q = 0 THEN "ask" ELSE "b_262"
  BY <1>2, Opened
<1> QED BY <1>2, <1>3, QuietKept DEF Starting, Asking, At

LEMMA AskingOpens ==
  ASSUME Quiet, Asking, Barrier
  PROVE  Quiet' /\ Choosing'
<1>1. ModeBarrier
  <2>1. pc[0] = "b_262" \/ pc[0] = "ask"
    BY CPUsAssumption DEF Asking, At
  <2> QED BY <2>1, BarrierOf DEF Barriers
<1>2. Released("b_262", "mode", "mode") /\ UNCHANGED <<flag, site, round, pte, tlb>>
  BY <1>1 DEF ModeBarrier, menuVars, tableVars
<1>3. \A q \in CPUs : pc[q] = "b_262" /\ pc'[q] = "mode"
  BY <1>2, Opened
<1> QED BY <1>2, <1>3, QuietKept DEF Asking, Choosing, At

\* The barrier of line 61 of menu(), from wherever it is called.
LEMMA MenuOpens ==
  ASSUME Quiet, NEW s \in Sites, \A p \in CPUs : At(p, "b_61", s, 0), Barrier
  PROVE  Quiet' /\ Selecting(s)'
<1>1. MenuBarrier
  BY CPUsAssumption, BarrierOf DEF At
<1>2. Released("b_61", "select", "b_99") /\ UNCHANGED <<flag, site, round, pte, tlb>>
  BY <1>1 DEF MenuBarrier, menuVars, tableVars
<1> QED BY <1>2, Opened, QuietKept DEF Selecting, At

\* The barrier of line 104: the payload begins.
LEMMA BuffersOpen ==
  ASSUME Quiet, \A p \in CPUs : At(p, "b_104", "Main menu", 3), Barrier
  PROVE  Quiet' /\ Working("Main menu", 3)'
<1>1. BuffersBarrier
  BY CPUsAssumption, BarrierOf DEF At
<1>2. Released("b_104", "bench", "bench") /\ UNCHANGED <<flag, site, round, pte, tlb>>
  BY <1>1 DEF BuffersBarrier, menuVars, tableVars
<1>3. \A q \in CPUs : pc'[q] = "bench"
  BY <1>2, Opened
<1> QED BY <1>2, <1>3, QuietKept DEF Working, At

LEMMA ChoosingOpens ==
  ASSUME Quiet, Choosing, Barrier
  PROVE  Quiet' /\ (Selecting("Main menu")' \/ Working("Main menu", 3)')
<1>1. \A p \in CPUs : pc[p] # "mode"
  BY BarrierOf DEF Barriers
<1>2. CASE mode = "menu"
  <2>1. \A p \in CPUs : At(p, "b_61", "Main menu", 0)
    BY <1>1, <1>2 DEF Choosing, At
  <2> QED BY <2>1, MenuOpens DEF Sites
<1>3. CASE mode # "menu"
  <2>1. \A p \in CPUs : At(p, "b_104", "Main menu", 3)
    BY <1>1, <1>3 DEF Choosing, At
  <2> QED BY <2>1, BuffersOpen
<1> QED BY <1>2, <1>3

LEMMA SelectingOpens ==
  ASSUME TypeOK, Quiet, NEW s \in Sites, Selecting(s), Barrier
  PROVE  \/ Quiet' /\ LeavingMain'
         \/ Quiet' /\ LeavingBench'
         \/ s \in Buffers /\ Quiet' /\ Aborting(s)'
         \/ s \in Buffers /\ \E v \in Flags : Rewriting(s, v)'
<1>1. ResultBarrier
  <2>1. pc[0] = "b_99" \/ pc[0] = "select"
    BY CPUsAssumption DEF Selecting, At
  <2> QED BY <2>1, BarrierOf DEF Barriers
<1>2. Released("b_99", "return", "return") /\ UNCHANGED <<result, flag, site, round, pte, tlb>>
  BY <1>1 DEF ResultBarrier, menuVars, tableVars
<1>3. Quiet' /\ \A p \in CPUs : pc'[p] = "return" /\ site'[p] = s /\ round'[p] = 0
  BY <1>2, Opened, QuietKept DEF Selecting, At
<1>4. CASE s = "Main menu"
  BY <1>3, <1>4 DEF LeavingMain, At
<1>5. CASE s = "Benchmarks"
  BY <1>3, <1>5 DEF LeavingBench, At
<1>6. CASE s \in Buffers /\ result = Abort
  BY <1>2, <1>3, <1>6 DEF Aborting, At
<1>7. CASE s \in Buffers /\ result # Abort
  <2>1. CaseFlag(result, flag[0]) \in Flags
    BY CPUsAssumption, CaseFlagType, PlaceTypes
  <2>2. \A p \in CPUs : flag[p] = flag[0]
    BY CPUsAssumption DEF Quiet
  <2>3. PICK v \in Flags : \A p \in CPUs : v = CaseFlag(result, flag[p])
    BY <2>1, <2>2
  <2>4. \A p \in CPUs : v = CaseFlag(result', flag'[p])
    BY <1>2, <2>3
  <2>5. \A p \in CPUs, o \in Buffers : tlb'[p][o] = None \/ tlb'[p][o] = pte'[o]
    BY <1>3 DEF Quiet, Fresh
  <2>6. ASSUME NEW p \in CPUs PROVE Rewrites(p, s, v)'
    BY <1>3, <2>4, <2>5 DEF Rewrites, Fresh, At
  <2>7. Rewriting(s, v)'
    BY <1>2, <1>7, <2>6 DEF Rewriting
  <2> QED BY <1>7, <2>7
<1> QED BY <1>4, <1>5, <1>6, <1>7 DEF Sites

LEMMA LeavingMainOpens ==
  ASSUME Quiet, LeavingMain, Barrier
  PROVE  Quiet' /\ (Working("Main menu", 3)' \/ Entering("Benchmarks")')
<1>1. \A p \in CPUs : pc[p] = pc[0] /\ pc[p] # "return" /\ pc[p] # "stop"
  BY BarrierOf DEF Barriers
<1>2. CASE result = 1
  <2>1. \A p \in CPUs : At(p, "b_104", "Main menu", 3)
    <3>1. result # 3
      BY <1>2
    <3> QED BY <1>1, <1>2, <3>1 DEF LeavingMain, At
  <2> QED BY <2>1, BuffersOpen
<1>3. CASE result # 1
  <2>1. \A p \in CPUs : At(p, "b_197", "Benchmarks", 0)
    BY <1>1, <1>3 DEF LeavingMain, At
  <2>2. BenchMenuBarrier
    BY <2>1, CPUsAssumption, BarrierOf DEF At
  <2>3. /\ Released("b_197", "b_61", "b_61") /\ UNCHANGED <<site, round, pte, tlb>>
        /\ flag' = [p \in CPUs |-> WriteBack]
    BY <2>2 DEF BenchMenuBarrier, tableVars
  <2>4. Quiet'
    BY <2>3 DEF Quiet, Fresh
  <2>5. \A q \in CPUs : pc'[q] = "b_61"
    BY <2>3, Opened
  <2> QED BY <2>1, <2>3, <2>4, <2>5 DEF Entering, At
<1> QED BY <1>2, <1>3

LEMMA LeavingBenchOpens ==
  ASSUME Quiet, LeavingBench, Barrier
  PROVE  Quiet' /\ (Finishing("Benchmarks", 0)' \/ \E s \in Sites : Selecting(s)')
<1>1. \A p \in CPUs : pc[p] = pc[0] /\ pc[p] # "return" /\ pc[p] # "bench"
  BY BarrierOf DEF Barriers
<1>2. CASE result = 6
  <2>1. \A p \in CPUs : At(p, "b_515", "Benchmarks", 0)
    BY <1>1, <1>2 DEF LeavingBench, At
  <2>2. BenchBarrier
    BY <2>1, CPUsAssumption, BarrierOf DEF At
  <2>3. Released("b_515", "next", "next") /\ UNCHANGED <<flag, site, round, pte, tlb>>
    BY <2>2 DEF BenchBarrier, menuVars, tableVars
  <2> QED BY <2>1, <2>3, Opened, QuietKept DEF Finishing, At
<1>3. CASE result \notin {6, 7}
  <2>1. \A p \in CPUs : At(p, "b_61", Named, 0)
    BY <1>1, <1>3 DEF LeavingBench, At
  <2>2. MenuBarrier
    BY <2>1, CPUsAssumption, BarrierOf DEF At
  <2>3. Released("b_61", "select", "b_99") /\ UNCHANGED <<result, flag, site, round, pte, tlb>>
    BY <2>2 DEF MenuBarrier, menuVars, tableVars
  <2>4. PICK s \in Sites : s = Named
    BY NamedType
  <2>5. \A p \in CPUs : /\ site'[p] = s /\ round'[p] = 0
                        /\ (pc'[p] = "b_99" \/ (p = 0 /\ pc'[p] = "select"))
    BY <2>1, <2>3, <2>4, Opened DEF At
  <2> QED BY <2>3, <2>5, QuietKept DEF Selecting, At
<1>4. CASE result = 7
  <2>1. \A p \in CPUs : InMem(p, "Benchmarks", 0)
    BY <1>1, <1>4 DEF LeavingBench, At
  <2>2. \A p \in CPUs : At(p, "b_61", "Benchmarks", 0)
    BY <2>1, InMemAt
  <2>3. PICK s \in Sites : s = "Benchmarks"
    BY DEF Sites
  <2>4. Quiet' /\ Selecting(s)'
    BY <2>2, <2>3, MenuOpens
  <2> QED BY <2>4
<1> QED BY <1>2, <1>3, <1>4

LEMMA AbortingOpens ==
  ASSUME Quiet, NEW b \in Buffers, Aborting(b), Barrier
  PROVE  Quiet' /\ Selecting("Benchmarks")'
<1>1. \A p \in CPUs : At(p, "b_61", "Benchmarks", 0)
  BY BarrierOf DEF Barriers, Aborting, At
<1> QED BY <1>1, MenuOpens DEF Sites

LEMMA RewritingOpens ==
  ASSUME NEW b \in Buffers, NEW v \in Flags, Rewriting(b, v), Barrier
  PROVE  Quiet' /\ Selecting("Benchmarks")'
<1>1. \A p \in CPUs : pc[p] \in Barriers
  BY BarrierOf
<1>2. \A p \in CPUs : At(p, "b_61", "Benchmarks", 0) /\ flag[p] = v
  BY <1>1 DEF Barriers, Rewriting, Rewrites, InReconf, At
<1>3. Quiet
  BY <1>2 DEF Quiet, Rewriting, Rewrites, At
<1> QED BY <1>2, <1>3, MenuOpens DEF Sites

LEMMA WorkingOpens ==
  ASSUME Quiet, NEW s \in Sites, NEW r \in 0..3, Working(s, r), r \in {1, 2} => pte = want,
         Barrier
  PROVE  \/ r \in 0..1 /\ Quiet' /\ Finishing(s, r)' /\ (r = 1 => pte' = want')
         \/ r \in 2..3 /\ Reconfiguring(s, r)'
<1>1. \A p \in CPUs : At(p, "b_515", s, r)
  BY BarrierOf DEF Working, At, Barriers
<1>2. BenchBarrier
  BY <1>1, CPUsAssumption, BarrierOf DEF At
<1>3. Released("b_515", "next", "next") /\ UNCHANGED <<flag, site, round, pte, tlb, want>>
  BY <1>2 DEF BenchBarrier, menuVars, tableVars
<1>4. Quiet' /\ \A p \in CPUs : pc'[p] = "next" /\ site'[p] = s /\ round'[p] = r
  BY <1>1, <1>3, Opened, QuietKept DEF At
<1>5. CASE r \in 0..1
  BY <1>3, <1>4, <1>5 DEF Finishing, At
<1>6. CASE r \in 2..3
  BY <1>4, <1>6, CPUsAssumption DEF Quiet, Reconfiguring, At, InReconf
<1> QED BY <1>5, <1>6

LEMMA FinishingOpens ==
  ASSUME Quiet, NEW s \in Sites, NEW r \in 0..1, Finishing(s, r), r = 1 => pte = want, Barrier
  PROVE  Quiet' /\ (Selecting(s)' \/ (Measuring(s)' /\ pte' = want'))
<1>1. CASE r = 0
  <2>1. \A p \in CPUs : At(p, "b_61", s, 0)
    BY <1>1, BarrierOf DEF Barriers, Finishing, At
  <2> QED BY <2>1, MenuOpens
<1>2. CASE r = 1
  <2>1. \A p \in CPUs : At(p, "b_153", s, 1)
    BY <1>2, BarrierOf DEF Barriers, Finishing, At
  <2>2. MemBarrier
    BY <2>1, CPUsAssumption, BarrierOf DEF At
  <2>3. Released("b_153", "mem", "mem") /\ UNCHANGED <<flag, site, round, pte, tlb, want>>
    BY <2>2 DEF MemBarrier, menuVars, tableVars
  <2>4. \A q \in CPUs : pc'[q] = "mem"
    BY <2>3, Opened
  <2> QED BY <1>2, <2>1, <2>3, <2>4, QuietKept DEF Measuring, InMem, At
<1> QED BY <1>1, <1>2

LEMMA MeasuringOpens ==
  ASSUME Quiet, NEW s \in Sites, Measuring(s), Barrier
  PROVE  Quiet' /\ Selecting(s)'
<1>1. \A p \in CPUs : At(p, "b_61", s, 0)
  BY InMemAt DEF Measuring
<1> QED BY <1>1, MenuOpens

LEMMA ReconfiguringOpens ==
  ASSUME NEW s \in Sites, NEW r \in 2..3, Reconfiguring(s, r), Barrier
  PROVE  Shooting(s, r)'
<1>1. \A p \in CPUs : At(p, "b_123", s, r)
  BY BarrierOf DEF Barriers, Reconfiguring, At, InReconf
<1>2. ReconfBarrier
  BY <1>1, CPUsAssumption, BarrierOf DEF At
<1>3. Released("b_123", "b_130", "shoot") /\ UNCHANGED <<flag, site, round, pte, tlb, want>>
  BY <1>2 DEF ReconfBarrier, menuVars, tableVars
<1>4. \A q \in CPUs : pc'[q] = IF q = 0 THEN "b_130" ELSE "shoot"
  BY <1>3, Opened
<1>5. pte = want /\ \A b \in Buffers : Fresh(0, b)
  BY <1>1, CPUsAssumption DEF Reconfiguring, At
<1>6. \A c, d \in CPUs : flag[c] = flag[d]
  BY DEF Reconfiguring
<1> QED BY <1>1, <1>3, <1>4, <1>5, <1>6 DEF Shooting, Fresh, At

LEMMA ShootingOpens ==
  ASSUME NEW s \in Sites, NEW r \in 2..3, Shooting(s, r), Barrier
  PROVE  Quiet' /\ Working(s, r - 1)' /\ pte' = want'
<1>1. \A p \in CPUs : At(p, "b_130", s, r)
  BY BarrierOf DEF Barriers, Shooting, At
<1>2. ShootBarrier
  BY <1>1, CPUsAssumption, BarrierOf DEF At
<1>3. /\ Released("b_130", "bench", "bench") /\ UNCHANGED <<flag, site, pte, tlb, want>>
      /\ round' = [p \in CPUs |-> round[p] - 1]
  BY <1>2 DEF ShootBarrier, menuVars, tableVars
<1>4. Quiet /\ pte = want
  BY <1>1 DEF Quiet, Shooting, At
<1>5. Quiet'
  BY <1>3, <1>4, QuietKept
<1> QED BY <1>1, <1>3, <1>4, <1>5, Opened DEF Working, At
-----------------------------------------------------------------------------
(* The invariant is inductive.                                              *)

\* A TLB that loads or drops an entry has not become stale by it.
LEMMA TlbKeeps ==
  ASSUME TypeOK, NEW p \in CPUs, NEW b \in Buffers, Load(p, b) \/ Evict(p, b)
  PROVE  /\ \A q \in CPUs, o \in Buffers : Fresh(q, o) => Fresh(q, o)'
         /\ UNCHANGED <<mode, result, site, flag, pc, todo, round, pte, want>>
<1>1. \/ tlb' = [tlb EXCEPT ![p][b] = pte[b]]
      \/ tlb' = [tlb EXCEPT ![p][b] = None]
  BY DEF Load, Evict
<1>2. UNCHANGED <<mode, result, site, flag, pc, todo, round, pte, want>>
  BY DEF Load, Evict, menuVars
<1>3. ASSUME NEW q \in CPUs, NEW o \in Buffers
      PROVE  tlb'[q][o] = tlb[q][o] \/ tlb'[q][o] = pte[o] \/ tlb'[q][o] = None
  <2>1. tlb \in [CPUs -> [Buffers -> Entries \cup {None}]]
    BY DEF TypeOK
  <2>2. CASE q = p /\ o = b
    BY <1>1, <2>1, <2>2
  <2>3. CASE q # p \/ o # b
    BY <1>1, <2>1, <2>3
  <2> QED BY <2>2, <2>3
<1> QED BY <1>2, <1>3 DEF Fresh

LEMMA WorkingPhase ==
  ASSUME NEW s \in Sites, NEW r \in 0..3, Quiet', Working(s, r)', r \in {1, 2} => pte' = want'
  PROVE  Phase'
BY DEF Phase

\* A phase lasts while nothing changes but TLBs that do not become stale.
LEMMA PhaseKept ==
  ASSUME Phase, \A q \in CPUs, o \in Buffers : Fresh(q, o) => Fresh(q, o)',
         UNCHANGED <<mode, result, site, flag, pc, todo, round, pte, want>>
  PROVE  Phase'
<1>0. /\ \A q \in CPUs, o \in Buffers : Fresh(q, o) => Fresh(q, o)'
      /\ UNCHANGED <<mode, result, site, flag, pc, todo, round, pte, want>>
  OBVIOUS
<1>z. 0 \in CPUs
  BY CPUsAssumption
<1>q. Quiet => Quiet'
  BY <1>0 DEF Quiet
<1>1. /\ Starting => Starting'
      /\ Asking => Asking'
      /\ Choosing => Choosing'
      /\ LeavingMain => LeavingMain'
  BY <1>0 DEF Starting, Asking, Choosing, LeavingMain, At
<1>m. \A q \in CPUs : \A s, r : InMem(q, s, r) => InMem(q, s, r)'
  <2>1. \A q : AfterMem(q)' = AfterMem(q)
    BY <1>0 DEF AfterMem
  <2> QED BY <1>0, <2>1 DEF InMem, At
<1>2. LeavingBench => LeavingBench'
  <2>1. Named' = Named
    BY <1>0 DEF Named
  <2> QED BY <1>0, <1>m, <2>1 DEF LeavingBench, At
<1>3. \A s \in Sites : (Entering(s) => Entering(s)') /\ (Selecting(s) => Selecting(s)')
  BY <1>0 DEF Entering, Selecting, At
<1>4. \A o \in Buffers : Aborting(o) => Aborting(o)'
  BY <1>0 DEF Aborting, At
<1>5. \A s \in Sites, r \in 0..3 :
        (Working(s, r) => Working(s, r)') /\ (Finishing(s, r) => Finishing(s, r)')
  BY <1>0 DEF Working, Finishing, At
<1>n. \A s \in Sites : Measuring(s) => Measuring(s)'
  BY <1>m DEF Measuring
<1>6. ASSUME NEW o \in Buffers, NEW v \in Flags, Rewriting(o, v) PROVE Rewriting(o, v)'
  <2>1. \A q \in CPUs : CaseFlag(result, flag[q])' = CaseFlag(result, flag[q])
    BY <1>0 DEF CaseFlag
  <2>2. ASSUME NEW q \in CPUs PROVE Rewrites(q, o, v)'
    <3>1. Rewrites(q, o, v)
      BY <1>6 DEF Rewriting
    <3> QED BY <1>0, <2>1, <3>1 DEF Rewrites, At
  <2> QED BY <1>0, <1>6, <2>2 DEF Rewriting
<1>7. \A s \in Sites, r \in 2..3 : Reconfiguring(s, r) => Reconfiguring(s, r)'
  BY <1>0, <1>z DEF Reconfiguring, At
<1>8. \A s \in Sites, r \in 2..3 : Shooting(s, r) => Shooting(s, r)'
  BY <1>0 DEF Shooting, At
<1>w. pte = want => pte' = want'
  BY <1>0
<1>a. CASE Quiet /\ (Starting \/ Asking \/ Choosing \/ LeavingMain \/ LeavingBench)
  BY <1>a, <1>q, <1>1, <1>2 DEF Phase
<1>b. CASE Quiet /\ \E s \in Sites : Entering(s) \/ Selecting(s)
  BY <1>b, <1>q, <1>3 DEF Phase
<1>c. CASE Quiet /\ \E o \in Buffers : Aborting(o)
  BY <1>c, <1>q, <1>4 DEF Phase
<1>d. ASSUME Quiet, NEW s \in Sites, NEW r \in 0..3, Working(s, r), r \in {1, 2} => pte = want
      PROVE  Phase'
  BY <1>d, <1>q, <1>w, <1>5, WorkingPhase
<1>e. ASSUME Quiet, NEW s \in Sites, NEW r \in 0..1, Finishing(s, r), r = 1 => pte = want
      PROVE  Phase'
  <2>1. r \in 0..3
    OBVIOUS
  <2>2. Quiet' /\ Finishing(s, r)' /\ (r = 1 => pte' = want')
    BY <1>e, <1>q, <1>w, <1>5, <2>1
  <2> QED BY <2>2 DEF Phase
<1>h. ASSUME Quiet, NEW s \in Sites, Measuring(s), pte = want PROVE Phase'
  BY <1>h, <1>q, <1>w, <1>n DEF Phase
<1>f. CASE \E o \in Buffers, v \in Flags : Rewriting(o, v)
  BY <1>f, <1>6 DEF Phase
<1>g. CASE \E s \in Sites, r \in 2..3 : Reconfiguring(s, r) \/ Shooting(s, r)
  BY <1>g, <1>7, <1>8 DEF Phase
<1> QED BY <1>a, <1>b, <1>c, <1>d, <1>e, <1>f, <1>g, <1>h DEF Phase

LEMMA CpuPhase ==
  ASSUME TypeOK, Phase, NEW p \in CPUs, CpuStep(p)
  PROVE  Phase'
<1>1. CASE Quiet /\ Starting
  BY <1>1, StartingStep
<1>2. CASE Quiet /\ Asking
  BY <1>2, AskingStep DEF Phase
<1>3. CASE Quiet /\ Choosing
  BY <1>3, ChoosingStep DEF Phase
<1>4. ASSUME Quiet, NEW s \in Sites, Entering(s) PROVE Phase'
  BY <1>4, EnteringStep
<1>5. ASSUME Quiet, NEW s \in Sites, Selecting(s) PROVE Phase'
  BY <1>5, SelectingStep DEF Phase
<1>6. CASE Quiet /\ LeavingMain
  BY <1>6, LeavingMainStep DEF Phase
<1>7. CASE Quiet /\ LeavingBench
  BY <1>7, LeavingBenchStep DEF Phase
<1>8. ASSUME Quiet, NEW b \in Buffers, Aborting(b) PROVE Phase'
  BY <1>8, AbortingStep DEF Phase
<1>9. ASSUME NEW b \in Buffers, NEW v \in Flags, Rewriting(b, v) PROVE Phase'
  BY <1>9, RewritingStep DEF Phase
<1>10. ASSUME Quiet, NEW s \in Sites, NEW r \in 0..3, Working(s, r), r \in {1, 2} => pte = want
       PROVE  Phase'
  <2>1. Quiet' /\ Working(s, r)' /\ (r \in {1, 2} => pte' = want')
    BY <1>10, WorkingStep
  <2> QED BY <2>1 DEF Phase
<1>11. ASSUME Quiet, NEW s \in Sites, NEW r \in 0..1, Finishing(s, r), r = 1 => pte = want
       PROVE  Phase'
  BY <1>11, FinishingStep DEF Phase
<1>14. ASSUME Quiet, NEW s \in Sites, Measuring(s), pte = want PROVE Phase'
  BY <1>14, MeasuringStep DEF Phase
<1>12. ASSUME NEW s \in Sites, NEW r \in 2..3, Reconfiguring(s, r) PROVE Phase'
  BY <1>12, ReconfiguringStep DEF Phase
<1>13. ASSUME NEW s \in Sites, NEW r \in 2..3, Shooting(s, r) PROVE Phase'
  BY <1>13, ShootingStep DEF Phase
<1> QED BY <1>1, <1>2, <1>3, <1>4, <1>5, <1>6, <1>7, <1>8, <1>9, <1>10, <1>11, <1>12, <1>13,
        <1>14 DEF Phase

LEMMA Turns == \E r \in 0..3 : r = 3 /\ r \notin {1, 2}
<1>1. 3 \in 0..3 /\ 3 \notin {1, 2}
  OBVIOUS
<1> QED BY <1>1, Zenon

LEMMA FirstTurn ==
  ASSUME Quiet', Working("Main menu", 3)'
  PROVE  Phase'
<1>1. PICK s \in Sites : s = "Main menu"
  BY DEF Sites
<1>2. PICK r \in 0..3 : r = 3 /\ r \notin {1, 2}
  BY Turns, Zenon
<1>3. Working(s, r)'
  BY <1>1, <1>2 DEF Working, At
<1> QED BY <1>2, <1>3, WorkingPhase, Zenon

LEMMA BarrierPhase ==
  ASSUME TypeOK, Phase, Barrier
  PROVE  Phase'
<1>s. "Main menu" \in Sites /\ "Benchmarks" \in Sites
  BY DEF Sites
<1>1. CASE Quiet /\ Starting
  BY <1>1, StartingOpens DEF Phase
<1>2. CASE Quiet /\ Asking
  BY <1>2, AskingOpens DEF Phase
<1>3. CASE Quiet /\ Choosing
  <2>1. Quiet' /\ (Selecting("Main menu")' \/ Working("Main menu", 3)')
    BY <1>3, ChoosingOpens
  <2>2. CASE Selecting("Main menu")'
    BY <1>s, <2>1, <2>2 DEF Phase
  <2> QED BY <2>1, <2>2, FirstTurn
<1>4. ASSUME Quiet, NEW s \in Sites, Entering(s) PROVE Phase'
  <2>1. Quiet' /\ Selecting(s)'
    BY <1>4, MenuOpens DEF Entering
  <2> QED BY <2>1 DEF Phase
<1>5. ASSUME Quiet, NEW s \in Sites, Selecting(s) PROVE Phase'
  <2>1. \/ Quiet' /\ LeavingMain'
        \/ Quiet' /\ LeavingBench'
        \/ s \in Buffers /\ Quiet' /\ Aborting(s)'
        \/ s \in Buffers /\ \E v \in Flags : Rewriting(s, v)'
    BY <1>5, SelectingOpens
  <2> QED BY <2>1 DEF Phase
<1>6. CASE Quiet /\ LeavingMain
  <2>1. Quiet' /\ (Working("Main menu", 3)' \/ Entering("Benchmarks")')
    BY <1>6, LeavingMainOpens
  <2>2. CASE Entering("Benchmarks")'
    BY <1>s, <2>1, <2>2 DEF Phase
  <2> QED BY <2>1, <2>2, FirstTurn
<1>7. CASE Quiet /\ LeavingBench
  <2>1. Quiet' /\ (Finishing("Benchmarks", 0)' \/ \E s \in Sites : Selecting(s)')
    BY <1>7, LeavingBenchOpens
  <2>2. CASE Finishing("Benchmarks", 0)'
    <3>1. PICK s \in Sites : s = "Benchmarks"
      BY <1>s
    <3>2. PICK r \in 0..1 : r = 0 /\ r # 1
      OBVIOUS
    <3>3. Finishing(s, r)' /\ (r = 1 => pte' = want')
      BY <2>2, <3>1, <3>2 DEF Finishing, At
    <3> QED BY <2>1, <3>3 DEF Phase
  <2> QED BY <2>1, <2>2 DEF Phase
<1>8. ASSUME Quiet, NEW b \in Buffers, Aborting(b) PROVE Phase'
  <2>1. Quiet' /\ Selecting("Benchmarks")'
    BY <1>8, AbortingOpens
  <2> QED BY <1>s, <2>1 DEF Phase
<1>9. ASSUME NEW b \in Buffers, NEW v \in Flags, Rewriting(b, v) PROVE Phase'
  <2>1. Quiet' /\ Selecting("Benchmarks")'
    BY <1>9, RewritingOpens
  <2> QED BY <1>s, <2>1 DEF Phase
<1>10. ASSUME Quiet, NEW s \in Sites, NEW r \in 0..3, Working(s, r), r \in {1, 2} => pte = want
       PROVE  Phase'
  <2>1. \/ r \in 0..1 /\ Quiet' /\ Finishing(s, r)' /\ (r = 1 => pte' = want')
        \/ r \in 2..3 /\ Reconfiguring(s, r)'
    BY <1>10, WorkingOpens
  <2> QED BY <2>1 DEF Phase
<1>11. ASSUME Quiet, NEW s \in Sites, NEW r \in 0..1, Finishing(s, r), r = 1 => pte = want
       PROVE  Phase'
  <2>1. Quiet' /\ (Selecting(s)' \/ (Measuring(s)' /\ pte' = want'))
    BY <1>11, FinishingOpens
  <2> QED BY <2>1 DEF Phase
<1>14. ASSUME Quiet, NEW s \in Sites, Measuring(s) PROVE Phase'
  <2>1. Quiet' /\ Selecting(s)'
    BY <1>14, MeasuringOpens
  <2> QED BY <2>1 DEF Phase
<1>12. ASSUME NEW s \in Sites, NEW r \in 2..3, Reconfiguring(s, r) PROVE Phase'
  BY <1>12, ReconfiguringOpens DEF Phase
<1>13. ASSUME NEW s \in Sites, NEW r \in 2..3, Shooting(s, r) PROVE Phase'
  <2>1. Quiet' /\ Working(s, r - 1)' /\ pte' = want' /\ r - 1 \in 0..3
    BY <1>13, ShootingOpens
  <2> QED BY <2>1 DEF Phase
<1> QED BY <1>1, <1>2, <1>3, <1>4, <1>5, <1>6, <1>7, <1>8, <1>9, <1>10, <1>11, <1>12, <1>13,
        <1>14 DEF Phase

LEMMA InitIInv == Init => IInv
<1> SUFFICES ASSUME Init PROVE IInv
  OBVIOUS
<1>1. Quiet /\ Starting
  BY DEF Init, Quiet, Fresh, Starting, At
<1> QED BY <1>1, InitType DEF IInv, Phase

LEMMA StepIInv == IInv /\ [Next]_vars => IInv'
<1> SUFFICES ASSUME TypeOK, Phase, [Next]_vars PROVE TypeOK' /\ Phase'
  BY DEF IInv
<1>1. ASSUME NEW p \in CPUs, CpuStep(p) PROVE TypeOK' /\ Phase'
  BY <1>1, CpuStepType, CpuPhase
<1>2. CASE Barrier
  BY <1>2, BarrierType, BarrierPhase
<1>3. ASSUME NEW p \in CPUs, NEW b \in Buffers, Load(p, b) \/ Evict(p, b)
      PROVE  TypeOK' /\ Phase'
  BY <1>3, TlbType, TlbKeeps, PhaseKept
<1>4. CASE UNCHANGED vars
  <2>1. UNCHANGED <<mode, result, site, flag, pc, todo, round, pte, tlb, want>>
    BY <1>4 DEF vars, menuVars, tableVars
  <2>2. TypeOK'
    BY <2>1 DEF TypeOK
  <2>3. \A q \in CPUs, o \in Buffers : Fresh(q, o) => Fresh(q, o)'
    BY <2>1 DEF Fresh
  <2>4. Phase'
    BY <2>1, <2>3, PhaseKept
  <2> QED BY <2>2, <2>4
<1> QED BY <1>1, <1>2, <1>3, <1>4 DEF Next

-----------------------------------------------------------------------------
(* What follows.                                                            *)

LEMMA PhasePlaces == IInv => SamePlace
<1> SUFFICES ASSUME TypeOK, Phase, NEW p \in CPUs, NEW q \in CPUs,
                    \A s \in CPUs : pc[s] \in Barriers
             PROVE  pc[p] = pc[q] /\ site[p] = site[q] /\ round[p] = round[q]
  BY DEF IInv, SamePlace
<1> DEFINE Same == pc[p] = pc[q] /\ site[p] = site[q] /\ round[p] = round[q]
<1>l. \A c \in CPUs : pc[c] \notin {"ask", "mode", "select", "return", "stop", "bench", "next",
                                    "shoot"} \cup InReconf
  BY DEF Barriers, InReconf
<1> USE DEF At
<1>1. CASE Starting \/ Asking \/ Choosing
  BY <1>1, <1>l DEF Starting, Asking, Choosing
<1>2. ASSUME NEW s \in Sites, Entering(s) \/ Selecting(s) PROVE Same
  BY <1>2, <1>l DEF Entering, Selecting
<1>3. CASE LeavingMain
  <2>1. CASE result = 1
    <3>1. result # 3
      BY <2>1
    <3> QED BY <1>3, <1>l, <2>1, <3>1 DEF LeavingMain
  <2>2. CASE result # 1
    BY <1>3, <1>l, <2>2 DEF LeavingMain
  <2> QED BY <2>1, <2>2
<1>m. ASSUME NEW s \in Sites, NEW r \in 0..1, \A c \in CPUs : InMem(c, s, r) PROVE Same
  <2>1. pc[0] \in Barriers /\ InMem(0, s, r)
    BY <1>m, CPUsAssumption
  <2>2. CPUs = {0}
    BY <2>1, CPUsAssumption, AfterMemCases DEF InMem, Barriers
  <2> QED BY <2>2
<1>4. CASE LeavingBench
  <2>1. CASE result = 7
    <3>1. \A c \in CPUs : InMem(c, "Benchmarks", 0)
      BY <1>4, <1>l, <2>1 DEF LeavingBench
    <3>2. PICK s \in Sites : s = "Benchmarks"
      BY DEF Sites
    <3>3. PICK r \in 0..1 : r = 0
      OBVIOUS
    <3> QED BY <1>m, <3>1, <3>2, <3>3
  <2>2. CASE result # 7
    BY <1>4, <1>l, <2>2 DEF LeavingBench
  <2> QED BY <2>1, <2>2
<1>5. ASSUME NEW b \in Buffers, Aborting(b) PROVE Same
  BY <1>5, <1>l DEF Aborting
<1>6. ASSUME NEW b \in Buffers, NEW v \in Flags, Rewriting(b, v) PROVE Same
  BY <1>6, <1>l DEF Rewriting, Rewrites
<1>7. ASSUME NEW s \in Sites, NEW r \in 0..3, Working(s, r) PROVE Same
  BY <1>7, <1>l DEF Working
<1>8. ASSUME NEW s \in Sites, NEW r \in 0..1, Finishing(s, r) PROVE Same
  BY <1>8, <1>l DEF Finishing
<1>9. ASSUME NEW s \in Sites, NEW r \in 2..3, Reconfiguring(s, r) \/ Shooting(s, r) PROVE Same
  BY <1>9, <1>l DEF Reconfiguring, Shooting
<1>10. ASSUME NEW s \in Sites, Measuring(s) PROVE Same
  BY <1>10, <1>m DEF Measuring
<1> QED BY <1>1, <1>2, <1>3, <1>4, <1>5, <1>6, <1>7, <1>8, <1>9, <1>10 DEF Phase

\* A benchmark runs only in a phase that leaves the page table alone.
LEMMA BenchPhase ==
  ASSUME IInv, NEW p \in CPUs, pc[p] \in {"bench", "mem"}
  PROVE  Quiet /\ (round[p] \in {1, 2} => pte = want)
<1> USE DEF At
<1>1. ~Starting /\ ~Asking /\ ~Choosing /\ ~LeavingMain
  BY DEF Starting, Asking, Choosing, LeavingMain
<1>2. \A s \in Sites : ~Entering(s) /\ ~Selecting(s)
  BY DEF Entering, Selecting
<1>3. \A b \in Buffers : ~Aborting(b) /\ \A v \in Flags : ~Rewriting(b, v)
  BY DEF Aborting, Rewriting, Rewrites, InReconf
<1>4. \A s \in Sites, r \in 0..1 : ~Finishing(s, r)
  BY DEF Finishing
<1>5. \A s \in Sites, r \in 2..3 : ~Reconfiguring(s, r) /\ ~Shooting(s, r)
  BY DEF Reconfiguring, Shooting, InReconf
<1>6. LeavingBench => round[p] = 0
  BY AfterMemCases DEF LeavingBench, InMem, Left
<1>7. \A s \in Sites, r \in 0..3 : Working(s, r) => round[p] = r
  BY DEF Working
<1>8. 0 \notin {1, 2}
  OBVIOUS
<1> QED BY <1>1, <1>2, <1>3, <1>4, <1>5, <1>6, <1>7, <1>8, Zenon DEF IInv, Phase

\* All CPUs always come to the same barrier, in the same menu and the same turn
\* of the payload, although each of them reads mode and result for itself.
THEOREM PlacesAgree == Spec => []SamePlace
BY InitIInv, StepIInv, PhasePlaces, PTL DEF Spec

\* When a benchmark or bench_mem() runs, no TLB has an entry that a reconfiguration has made
\* old: the menus reconfigure on every CPU, payload_benchmark() on CPU 0 and with
\* a shootdown on the others.
THEOREM NoStaleEntry == Spec => []BenchFresh
<1>1. IInv => BenchFresh
  BY BenchPhase DEF BenchFresh, Quiet, Fresh
<1> QED BY InitIInv, StepIInv, <1>1, PTL DEF Spec

\* The turns of payload_benchmark() run under the configuration made for them.
THEOREM TurnsConfigured == Spec => []ConfigHolds
<1>1. IInv => ConfigHolds
  BY BenchPhase DEF ConfigHolds
<1> QED BY InitIInv, StepIInv, <1>1, PTL DEF Spec
=============================================================================
