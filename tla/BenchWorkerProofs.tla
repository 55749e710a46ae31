--------------------------- MODULE BenchWorkerProofs ---------------------------
(* What is proved of bench_worker(), with the smp_halt() and smp_wakeup() it   *)
(* calls: for every number of CPUs, every list of load numbers, every number   *)
(* of load ranges and wherever the epoch of barr_dyn wraps around.             *)
EXTENDS BenchWorker, FiniteSetTheorems, TLAPS

TypeOK ==
  /\ DOMAIN flags = CPUs /\ flags = [p \in CPUs |-> flags[p]]
  /\ DOMAIN old = CPUs /\ old = [p \in CPUs |-> old[p]]
  /\ pc \in [CPUs -> {"run"} \cup InHalt \cup InWakeup]
  /\ tgt \in [CPUs -> Nat]
  /\ at \in [CPUs -> Places]
  /\ k \in [CPUs -> Nat] /\ r \in [CPUs -> Nat]
  /\ e \in [CPUs -> Nat]
  /\ dyn \in [cnt : Nat, epoch : 0..(EpochMod - 1), max : Nat]
  /\ flag \in [CPUs -> [flag : Nat, next : Nat]]

-----------------------------------------------------------------------------
(* One CPU: where it is in smp_halt() or smp_wakeup(), and its flags.        *)

InLoop == {"h_test", "h_hlt", "h_asleep"}

\* smp_halt() begins and ends with both bits clear, whoever clears them.
Local(p) ==
  /\ at[p] = "halt" => pc[p] \in {"run"} \cup InHalt
  /\ at[p] = "waking" => pc[p] \in {"run"} \cup InWakeup
  /\ at[p] \notin {"halt", "waking"} => pc[p] = "run"
  /\ pc[p] \in {"run", "h_load", "h_store"} \cup InWakeup => flags[p] = {}
  /\ pc[p] = "h_store" => old[p] = {}
  /\ pc[p] \in InLoop => flags[p] \in {Bits, {"HALTED"}}
  /\ pc[p] \in {"h_cload", "h_cstore"} => flags[p] = {"HALTED"}
  /\ pc[p] = "h_cstore" => old[p] = {"HALTED"}

Locals == \A p \in CPUs : Local(p)

\* It is not in the loop yet, or its HALT bit is still set ...
Unwoken(p) ==
  \/ at[p] = "go"
  \/ at[p] = "halt" /\ pc[p] \in {"h_load", "h_store"}
  \/ at[p] = "halt" /\ pc[p] \in InLoop /\ flags[p] = Bits

\* ... or somebody has cleared that and it is on its way out, or it is out.
Going(p) == at[p] = "halt" /\ pc[p] \in InLoop \cup {"h_cload", "h_cstore"} /\ flags[p] = {"HALTED"}
Awake(p) == at[p] \in {"pick", "bar1", "final"} \/ (at[p] = "halt" /\ pc[p] = "run")

\* w wakes up the CPUs of S, in the order of their ids.
Wakes(w, S) ==
  /\ tgt[w] <= cpu_online
  /\ at[w] = "waking" => tgt[w] \in S
  /\ pc[w] = "w_store" => old[w] = Bits
  /\ \A p \in S :
       /\ p > tgt[w] => Unwoken(p)
       /\ p < tgt[w] => Awake(p)
       /\ p = tgt[w] =>
            /\ at[w] # "waking" \/ pc[w] = "w_wait" => Unwoken(p)
            /\ pc[w] \in {"w_load", "w_store"} => Unwoken(p) /\ flags[p] = Bits
            /\ pc[w] \in {"w_test", "w_send"} => Going(p) \/ Awake(p)
            /\ at[w] = "waking" /\ pc[w] = "run" => Awake(p)

-----------------------------------------------------------------------------
(* bench_worker(), from one global barrier to the next.                     *)

\* Position c of load_nbrs is measured, and in how many load ranges.
Taken(c) == c <= Len(LoadNbrs) /\ LoadNbrs[c] < cpu_online
Final(c) == IF LoadNbrs[c] = 0 THEN 1 ELSE Ranges

\* p goes on to position c, where all meet.
Onto(p, c) == k[p] = c /\ at[p] \in {"pick", IF Taken(c) THEN "bar1" ELSE "final"}

Beginning ==
  /\ dyn.cnt = 0
  /\ \A p \in CPUs : at[p] = "init" \/ (Onto(p, 1) /\ flag = [q \in CPUs |-> NoFlag])

Setting(c) ==
  /\ Taken(c) /\ dyn.cnt = 0
  /\ \A p \in CPUs : at[p] \in {"max", "bar2"} /\ k[p] = c /\ flag[p].flag = flag[p].next
  /\ at[0] = "bar2" => dyn.max = LoadNbrs[c] + 1

\* p waits at barr_dyn for the others.
Waits(p) == at[p] = "spin" /\ e[p] = dyn.epoch
Waiters == {p \in CPUs : Waits(p)}
Done(p) == at[p] = "dyn" \/ Waits(p)

\* Where a CPU is that takes part, when the x-th meeting at barr_dyn comes next.
Member(p, c, x) ==
  \/ k[p] = c /\ at[p] = "go" /\ x = 1
  \/ k[p] = c /\ r[p] = x /\ x <= Final(c) /\ (at[p] = "load" \/ Done(p))
  \/ k[p] = c /\ r[p] + 1 = x /\ x > 1 /\ (at[p] = "next" \/ (at[p] = "spin" /\ e[p] # dyn.epoch))
  \/ x = Final(c) + 1 /\ (Onto(p, c + 1) \/ (p = 0 /\ k[p] = c /\ at[p] \in {"wake", "waking"}))

Sleeper(p, c) == (k[p] = c /\ at[p] \in {"go", "halt"}) \/ Onto(p, c + 1)

\* The flag of a load CPU is signalled once, until it is through load_until_flag().
Signalled(c) ==
  /\ \A p \in CPUs : flag[p].flag = flag[p].next + IF p \in 1..LoadNbrs[c] /\ Done(0) /\ ~Done(p) THEN 1 ELSE 0
  /\ \A p \in CPUs : Done(p) => Done(0)

Above(c) == {p \in CPUs : p > LoadNbrs[c]}

\* CPU 0 has not measured to the end, wakes the others up, or has done so.
Waking(c) ==
  \/ at[0] \notin {"wake", "waking"} /\ k[0] = c /\ \A p \in Above(c) : Unwoken(p)
  \/ at[0] \in {"wake", "waking"} /\ Wakes(0, Above(c)) /\ tgt[0] > LoadNbrs[c]
  \/ k[0] = c + 1 /\ \A p \in Above(c) : Awake(p)

Running(c, x) ==
  /\ Taken(c) /\ x <= Final(c) + 1
  /\ dyn.max = LoadNbrs[c] + 1 /\ dyn.cnt = Cardinality(Waiters) /\ dyn.cnt < dyn.max
  /\ \A p \in CPUs : IF p <= LoadNbrs[c] THEN Member(p, c, x) ELSE Sleeper(p, c)
  /\ Signalled(c)
  /\ Waking(c)

Phase ==
  \/ Beginning
  \/ \E c \in Nat \ {0} : Setting(c)
  \/ \E c, x \in Nat \ {0} : Running(c, x)

IInv == TypeOK /\ Locals /\ Phase

-----------------------------------------------------------------------------
(* The CPUs.                                                                *)

LEMMA CpuFacts ==
  /\ cpu_online \in Nat /\ cpu_online > 1 /\ Ids = CPUs /\ CPUs \subseteq Nat
  /\ 0 \in CPUs /\ IsFiniteSet(CPUs) /\ \A p \in CPUs : p < cpu_online
  /\ \A u \in Nat : u < cpu_online => u \in CPUs
<1>1. cpu_online \in Nat
  BY CPUsAssumption, FS_CardinalityType DEF cpu_online
<1>2. CPUs = 0..(cpu_online - 1) /\ cpu_online > 1
  BY BenchAssumption
<1>3. 0 \in CPUs /\ CPUs \subseteq Nat /\ IsFiniteSet(CPUs)
  BY CPUsAssumption
<1> HIDE DEF cpu_online
<1> QED BY <1>1, <1>2, <1>3 DEF Ids

-----------------------------------------------------------------------------
(* smp_halt() and smp_wakeup().                                             *)

LEMMA BitFacts ==
  /\ Bits # {"HALTED"} /\ Bits # {} /\ "HALT" \in Bits /\ "HALTED" \in Bits
  /\ {} \cup Bits = Bits /\ Bits \ {"HALT"} = {"HALTED"} /\ {"HALTED"} \ {"HALTED"} = {}
  /\ {"HALTED"} # {} /\ "HALT" \notin {"HALTED"} /\ "HALTED" \in {"HALTED"}
BY DEF Bits

LEMMA PcOf ==
  ASSUME TypeOK, NEW p \in CPUs, Local(p)
  PROVE  /\ pc[p] \in InHalt => at[p] = "halt"
         /\ pc[p] \in InWakeup => at[p] = "waking"
<1>2. pc[p] \in InHalt => pc[p] \notin InWakeup /\ pc[p] # "run"
  BY DEF InHalt, InWakeup
<1>3. pc[p] \in InWakeup => pc[p] # "run"
  BY DEF InWakeup
<1> QED BY <1>2, <1>3 DEF Local

\* What holds of a CPU depends on what is its own.
LEMMA Untouched ==
  ASSUME NEW q \in CPUs, at'[q] = at[q], pc'[q] = pc[q], flags'[q] = flags[q]
  PROVE  /\ Unwoken(q)' <=> Unwoken(q)
         /\ Going(q)' <=> Going(q)
         /\ Awake(q)' <=> Awake(q)
         /\ old'[q] = old[q] /\ Local(q) => Local(q)'
BY DEF Unwoken, Going, Awake, Local

LEMMA SmpGo ==
  ASSUME TypeOK, NEW p \in CPUs, NEW from, NEW to \in {"run"} \cup InHalt \cup InWakeup,
         Go(p, from, to)
  PROVE  /\ pc[p] = from /\ pc'[p] = to /\ \A q \in CPUs : q # p => pc'[q] = pc[q]
         /\ pc' \in [CPUs -> {"run"} \cup InHalt \cup InWakeup]
BY DEF TypeOK, Go

\* flags[] and the registers are functions on the CPUs.
Tables == /\ DOMAIN flags = CPUs /\ flags = [p \in CPUs |-> flags[p]]
          /\ DOMAIN old = CPUs /\ old = [p \in CPUs |-> old[p]]

LEMMA OldSet ==
  ASSUME Tables, NEW p \in CPUs, NEW x, old' = [old EXCEPT ![p] = x], flags' = flags
  PROVE  Tables' /\ old'[p] = x /\ \A q \in CPUs : q # p => old'[q] = old[q]
BY DEF Tables

LEMMA FlagsSet ==
  ASSUME Tables, NEW p \in CPUs, NEW t \in CPUs, NEW x, NEW y,
         old' = [old EXCEPT ![p] = y], flags' = [flags EXCEPT ![t] = x]
  PROVE  /\ Tables' /\ old'[p] = y /\ flags'[t] = x
         /\ \A q \in CPUs : q # p => old'[q] = old[q]
         /\ \A q \in CPUs : q # t => flags'[q] = flags[q]
BY DEF Tables

\* The others keep their places, their flags and their registers.
Alone(p) == \A q \in CPUs : q # p =>
  at'[q] = at[q] /\ pc'[q] = pc[q] /\ flags'[q] = flags[q] /\ old'[q] = old[q]

LEMMA Frame ==
  ASSUME NEW p \in CPUs, Alone(p)
  PROVE  \A q \in CPUs : q # p =>
           /\ Unwoken(q)' <=> Unwoken(q)
           /\ Going(q)' <=> Going(q)
           /\ Awake(q)' <=> Awake(q)
           /\ Local(q) => Local(q)'
BY Untouched DEF Alone

\* What a step of smp_halt() or an interrupt in it does to the CPU: one that is
\* not woken up yet stays so, and one that is goes on or out.
Halting(p) ==
  /\ Local(p)' /\ at[p] = "halt" /\ pc[p] \in InHalt
  /\ Unwoken(p) => Unwoken(p)'
  /\ Going(p) => Going(p)' \/ Awake(p)'
  /\ Unwoken(p) \/ Going(p)
  /\ flags[p] = Bits => flags'[p] = Bits
  /\ \A q \in CPUs : q # p => flags'[q] = flags[q] /\ pc'[q] = pc[q] /\ old'[q] = old[q]
  /\ tgt' = tgt

\* A step of smp_halt() changes the CPU's own flags and sets both bits before
\* the loop; it leaves the loop only when somebody cleared HALT.
LEMMA HaltLocal ==
  ASSUME TypeOK, NEW p \in CPUs, Local(p), HaltStep(p), at'[p] = at[p]
  PROVE  Halting(p)
<1>t. Tables
  BY DEF TypeOK, Tables
<1>h. pc[p] \in InHalt => at[p] = "halt" /\ at[p] # "go" /\ at[p] \notin {"pick", "bar1", "final"}
  BY PcOf
<1> DEFINE PCs == {"run"} \cup InHalt \cup InWakeup
<1>1. CASE HaltLoad(p)
  <2>1. /\ Go(p, "h_load", "h_store") /\ old' = [old EXCEPT ![p] = flags[p]]
        /\ UNCHANGED <<flags, tgt>> /\ "h_store" \in PCs
    BY <1>1 DEF HaltLoad, InHalt
  <2>2. pc[p] = "h_load" /\ pc'[p] = "h_store" /\ pc' \in [CPUs -> PCs]
        /\ \A q \in CPUs : q # p => pc'[q] = pc[q]
    BY <2>1, SmpGo
  <2>3. Tables' /\ old'[p] = flags[p] /\ \A q \in CPUs : q # p => old'[q] = old[q]
    BY <1>t, <2>1, OldSet
  <2>4. flags[p] = {} /\ at[p] = "halt"
    BY <1>h, <2>2 DEF Local, InHalt
  <2> QED BY <1>h, <2>1, <2>2, <2>3, <2>4, BitFacts DEF Halting, Local, Unwoken, Going, InHalt, InLoop, InWakeup
<1>2. CASE HaltStore(p)
  <2>1. /\ Go(p, "h_store", "h_test") /\ old' = [old EXCEPT ![p] = {}]
        /\ flags' = [flags EXCEPT ![p] = old[p] \cup Bits] /\ tgt' = tgt /\ "h_test" \in PCs
    BY <1>2 DEF HaltStore, InHalt, Forget
  <2>2. pc[p] = "h_store" /\ pc'[p] = "h_test" /\ pc' \in [CPUs -> PCs]
        /\ \A q \in CPUs : q # p => pc'[q] = pc[q]
    BY <2>1, SmpGo
  <2>3. /\ Tables' /\ flags'[p] = old[p] \cup Bits
        /\ \A q \in CPUs : q # p => old'[q] = old[q] /\ flags'[q] = flags[q]
    BY <1>t, <2>1 DEF Tables
  <2>4. flags[p] = {} /\ at[p] = "halt" /\ flags'[p] = Bits
    BY <1>h, <2>2, <2>3, BitFacts DEF Local, InHalt
  <2> QED BY <1>h, <2>1, <2>2, <2>3, <2>4, BitFacts DEF Halting, Local, Unwoken, Going, InHalt, InLoop, InWakeup
<1>3. CASE HaltTest(p)
  <2>1. /\ \/ "HALT" \in flags[p] /\ Go(p, "h_test", "h_hlt")
           \/ "HALT" \notin flags[p] /\ Go(p, "h_test", "h_cload")
        /\ UNCHANGED <<flags, old, tgt>> /\ "h_hlt" \in PCs /\ "h_cload" \in PCs
    BY <1>3 DEF HaltTest, InHalt
  <2>2. /\ pc[p] = "h_test" /\ pc' \in [CPUs -> PCs] /\ \A q \in CPUs : q # p => pc'[q] = pc[q]
        /\ \/ "HALT" \in flags[p] /\ pc'[p] = "h_hlt"
           \/ "HALT" \notin flags[p] /\ pc'[p] = "h_cload"
    BY <2>1, SmpGo
  <2>3. at[p] = "halt" /\ pc[p] \in InHalt /\ (flags[p] = Bits \/ flags[p] = {"HALTED"})
    BY <1>h, <2>2 DEF Local, InHalt, InLoop
  <2>4. CASE flags[p] = Bits
    <3>1. pc'[p] = "h_hlt"
      BY <2>2, <2>4, BitFacts
    <3> QED BY <1>t, <2>1, <2>2, <2>3, <2>4, <3>1, BitFacts
          DEF Halting, Tables, Local, Unwoken, Going, InHalt, InLoop, InWakeup
  <2>5. CASE flags[p] = {"HALTED"}
    <3>1. pc'[p] = "h_cload"
      BY <2>2, <2>5, BitFacts
    <3>2. ~Unwoken(p)
      BY <1>h, <2>2, <2>3, <2>5, BitFacts DEF Unwoken
    <3> QED BY <1>t, <2>1, <2>2, <2>3, <2>5, <3>1, <3>2, BitFacts
          DEF Halting, Tables, Local, Going, InHalt, InLoop, InWakeup
  <2> QED BY <2>3, <2>4, <2>5
<1>4. CASE Sleep(p)
  <2>1. /\ Go(p, "h_hlt", "h_asleep") /\ UNCHANGED <<flags, old, tgt>> /\ "h_asleep" \in PCs
    BY <1>4 DEF Sleep, InHalt
  <2>2. /\ pc[p] = "h_hlt" /\ pc'[p] = "h_asleep" /\ pc' \in [CPUs -> PCs]
        /\ \A q \in CPUs : q # p => pc'[q] = pc[q]
    BY <2>1, SmpGo
  <2>3. at[p] = "halt" /\ pc[p] \in InHalt /\ (flags[p] = Bits \/ flags[p] = {"HALTED"})
    BY <1>h, <2>2 DEF Local, InHalt, InLoop
  <2> QED BY <1>t, <2>1, <2>2, <2>3, BitFacts
          DEF Halting, Tables, Local, Unwoken, Going, InHalt, InLoop, InWakeup
<1>5. CASE ClearLoad(p)
  <2>1. /\ Go(p, "h_cload", "h_cstore") /\ old' = [old EXCEPT ![p] = flags[p]]
        /\ UNCHANGED <<flags, tgt>> /\ "h_cstore" \in PCs
    BY <1>5 DEF ClearLoad, InHalt
  <2>2. pc[p] = "h_cload" /\ pc'[p] = "h_cstore" /\ pc' \in [CPUs -> PCs]
        /\ \A q \in CPUs : q # p => pc'[q] = pc[q]
    BY <2>1, SmpGo
  <2>3. Tables' /\ old'[p] = flags[p] /\ \A q \in CPUs : q # p => old'[q] = old[q]
    BY <1>t, <2>1, OldSet
  <2>4. flags[p] = {"HALTED"} /\ at[p] = "halt"
    BY <1>h, <2>2 DEF Local, InHalt
  <2> QED BY <1>h, <2>1, <2>2, <2>3, <2>4, BitFacts DEF Halting, Local, Unwoken, Going, InHalt, InLoop, InWakeup
<1>6. CASE ClearStore(p)
  <2>1. /\ Go(p, "h_cstore", "run") /\ old' = [old EXCEPT ![p] = {}]
        /\ flags' = [flags EXCEPT ![p] = old[p] \ {"HALTED"}] /\ tgt' = tgt /\ "run" \in PCs
    BY <1>6 DEF ClearStore, InHalt, Forget
  <2>2. pc[p] = "h_cstore" /\ pc'[p] = "run" /\ pc' \in [CPUs -> PCs]
        /\ \A q \in CPUs : q # p => pc'[q] = pc[q]
    BY <2>1, SmpGo
  <2>3. /\ Tables' /\ flags'[p] = old[p] \ {"HALTED"}
        /\ \A q \in CPUs : q # p => old'[q] = old[q] /\ flags'[q] = flags[q]
    BY <1>t, <2>1 DEF Tables
  <2>4. flags[p] = {"HALTED"} /\ at[p] = "halt" /\ flags'[p] = {}
    BY <1>h, <2>2, <2>3, BitFacts DEF Local, InHalt
  <2> QED BY <1>h, <2>1, <2>2, <2>3, <2>4, BitFacts
          DEF Halting, Local, Unwoken, Going, Awake, InHalt, InLoop, InWakeup
<1> QED BY <1>1, <1>2, <1>3, <1>4, <1>5, <1>6 DEF HaltStep

\* An interrupt in smp_halt() ends the hlt, and changes nothing else.
LEMMA InterruptLocal ==
  ASSUME TypeOK, NEW p \in CPUs, Local(p), Interrupt(p), at'[p] = at[p]
  PROVE  Halting(p)
<1> DEFINE PCs == {"run"} \cup InHalt \cup InWakeup
<1>h. pc[p] \in InHalt => at[p] = "halt" /\ at[p] # "go" /\ at[p] \notin {"pick", "bar1", "final"}
  BY PcOf
<1>1. /\ \/ Go(p, "h_asleep", "h_test")
         \/ pc[p] \in {"h_test", "h_hlt", "h_cload", "h_cstore"} /\ pc' = pc
      /\ flags' = flags /\ old' = old /\ tgt' = tgt /\ "h_test" \in PCs
  BY DEF Interrupt, InHalt
<1>2. /\ \A q \in CPUs : q # p => pc'[q] = pc[q]
      /\ \/ pc[p] = "h_asleep" /\ pc'[p] = "h_test"
         \/ pc[p] \in {"h_test", "h_hlt", "h_cload", "h_cstore"} /\ pc'[p] = pc[p]
  BY <1>1, SmpGo
<1>3. at[p] = "halt" /\ pc[p] \in InHalt
  BY <1>h, <1>2 DEF InHalt
<1>4. CASE pc[p] \in InLoop
  <2>1. (flags[p] = Bits \/ flags[p] = {"HALTED"}) /\ pc'[p] \in InLoop /\ pc'[p] # "run"
    BY <1>2, <1>3, <1>4 DEF Local, InLoop
  <2> QED BY <1>1, <1>2, <1>3, <1>4, <2>1, BitFacts
        DEF Halting, Local, Unwoken, Going, InHalt, InLoop, InWakeup
<1>5. CASE pc[p] \in {"h_cload", "h_cstore"}
  <2>1. flags[p] = {"HALTED"} /\ pc'[p] = pc[p]
    BY <1>2, <1>3, <1>5 DEF Local
  <2> QED BY <1>1, <1>2, <1>3, <1>5, <2>1, BitFacts
        DEF Halting, Local, Unwoken, Going, InHalt, InLoop, InWakeup
<1> QED BY <1>2, <1>4, <1>5 DEF InLoop

\* The waker's place in its loop is kept by what the CPUs it wakes up do, ...
LEMMA WakesBy ==
  ASSUME NEW w \in CPUs, NEW S \in SUBSET CPUs, Wakes(w, S), NEW p \in CPUs, p # w,
         Alone(p), tgt'[w] = tgt[w],
         p \in S /\ Unwoken(p) => Unwoken(p)',
         p \in S /\ Unwoken(p) /\ flags[p] = Bits => flags'[p] = Bits,
         p \in S /\ Going(p) => Going(p)' \/ Awake(p)',
         p \in S /\ Awake(p) => Awake(p)'
  PROVE  Wakes(w, S)'
<1> HIDE DEF cpu_online
<1>1. at'[w] = at[w] /\ pc'[w] = pc[w] /\ old'[w] = old[w]
  BY DEF Alone
<1>2. \A q \in S :
        /\ Unwoken(q) => Unwoken(q)'
        /\ Unwoken(q) /\ flags[q] = Bits => flags'[q] = Bits
        /\ Going(q) => Going(q)' \/ Awake(q)'
        /\ Awake(q) => Awake(q)'
  BY Frame DEF Alone
<1> QED BY <1>1, <1>2 DEF Wakes

\* ... by their smp_halt() above all, ...
LEMMA WakesHalting ==
  ASSUME NEW w \in CPUs, NEW S \in SUBSET CPUs, Wakes(w, S), NEW p \in CPUs, p # w,
         Halting(p), at' = at
  PROVE  Wakes(w, S)'
<1>1. Alone(p) /\ tgt'[w] = tgt[w]
  BY DEF Halting, Alone
<1>2. ~Awake(p)
  BY DEF Halting, Awake, InHalt
<1> QED BY <1>1, <1>2, WakesBy DEF Halting

\* ... and by its own smp_wakeup(): the read and the write of the flags are not
\* atomic, but nobody else writes them in between, as both bits are set and the
\* other stays in its loop.
LEMMA WakesSmp ==
  ASSUME TypeOK, Locals, NEW w \in CPUs, NEW S \in SUBSET CPUs, w \notin S, Wakes(w, S),
         WakeStep(w), at' = at
  PROVE  Wakes(w, S)' /\ Locals' /\ tgt' = tgt
<1> HIDE DEF cpu_online
<1> DEFINE t == tgt[w]
           PCs == {"run"} \cup InHalt \cup InWakeup
<1>t. Tables
  BY DEF TypeOK, Tables
<1>0. /\ pc[w] \in InWakeup /\ at[w] = "waking" /\ at[w] # "halt"
      /\ t \in S /\ t \in CPUs /\ t # w /\ tgt' = tgt
      /\ flags[w] = {}
  <2>1. pc[w] \in InWakeup /\ tgt' = tgt
    BY DEF WakeStep, WakeWait, WakeLoad, WakeStore, WakeTest, SendIpi, Go, InWakeup
  <2>2. at[w] = "waking" /\ at[w] # "halt"
    BY <2>1, PcOf DEF Locals
  <2> QED BY <2>1, <2>2 DEF Wakes, Locals, Local
<1>1. /\ Unwoken(t) => flags[t] = Bits \/ flags[t] = {}
      /\ Unwoken(t) /\ flags[t] = Bits => at[t] = "halt" /\ pc[t] \in InLoop
      /\ Going(t) => flags[t] = {"HALTED"}
      /\ Awake(t) => flags[t] = {}
  BY <1>0, BitFacts DEF Locals, Local, Unwoken, Going, Awake
<1>2. CASE WakeWait(w)
  <2>1. /\ Go(w, "w_wait", "w_load") /\ "HALTED" \in flags[t]
        /\ UNCHANGED <<flags, old, tgt>> /\ "w_load" \in PCs
    BY <1>2 DEF WakeWait, InWakeup
  <2>2. pc[w] = "w_wait" /\ pc'[w] = "w_load" /\ \A q \in CPUs : q # w => pc'[q] = pc[q]
    BY <2>1, SmpGo
  <2>3. Unwoken(t) /\ flags[t] = Bits
    BY <1>0, <1>1, <2>1, <2>2, BitFacts DEF Wakes
  <2>4. Alone(w)
    BY <2>1, <2>2 DEF Alone
  <2>5. Local(w)'
    BY <1>0, <2>1, <2>2 DEF Local, InHalt, InWakeup, InLoop
  <2> QED BY <1>0, <2>1, <2>2, <2>3, <2>4, <2>5, Frame DEF Wakes, Locals
<1>3. CASE WakeLoad(w)
  <2>1. /\ Go(w, "w_load", "w_store") /\ old' = [old EXCEPT ![w] = flags[t]]
        /\ UNCHANGED <<flags, tgt>> /\ "w_store" \in PCs
    BY <1>3 DEF WakeLoad, InWakeup
  <2>2. pc[w] = "w_load" /\ pc'[w] = "w_store" /\ \A q \in CPUs : q # w => pc'[q] = pc[q]
    BY <2>1, SmpGo
  <2>3. Unwoken(t) /\ flags[t] = Bits
    BY <1>0, <2>2 DEF Wakes
  <2>4. old'[w] = Bits /\ Alone(w)
    BY <1>t, <2>1, <2>2, <2>3, OldSet DEF Alone
  <2>5. Local(w)'
    BY <1>0, <2>1, <2>2 DEF Local, InHalt, InWakeup, InLoop
  <2> QED BY <1>0, <2>1, <2>2, <2>3, <2>4, <2>5, Frame DEF Wakes, Locals
<1>4. CASE WakeStore(w)
  <2>1. /\ Go(w, "w_store", "w_test") /\ old' = [old EXCEPT ![w] = {}]
        /\ flags' = [flags EXCEPT ![t] = old[w] \ {"HALT"}] /\ tgt' = tgt /\ "w_test" \in PCs
    BY <1>4 DEF WakeStore, InWakeup, Forget
  <2>2. pc[w] = "w_store" /\ pc'[w] = "w_test" /\ \A q \in CPUs : q # w => pc'[q] = pc[q]
    BY <2>1, SmpGo
  <2>3. Unwoken(t) /\ flags[t] = Bits /\ old[w] = Bits
    BY <1>0, <2>2 DEF Wakes
  <2>4. /\ flags'[t] = {"HALTED"}
        /\ \A q \in CPUs : q # w => old'[q] = old[q]
        /\ \A q \in CPUs : q # t => flags'[q] = flags[q]
    BY <1>t, <1>0, <2>1, <2>3, BitFacts DEF Tables
  <2>u. PICK u \in CPUs : u = t
    BY <1>0
  <2>5. \A q \in CPUs : q # w /\ q # u =>
          /\ Unwoken(q)' <=> Unwoken(q)
          /\ Awake(q)' <=> Awake(q)
          /\ Local(q) => Local(q)'
    BY <2>u, <2>2, <2>4, Untouched
  <2>6. \A q \in CPUs : q = u => Going(q)'
    BY <2>u, <1>0, <1>1, <2>2, <2>3, <2>4 DEF Going
  <2>7. Local(u)' /\ Local(w)'
    BY <2>u, <1>0, <1>1, <2>2, <2>3, <2>4 DEF Locals, Local, InHalt, InWakeup, InLoop
  <2>8. Locals'
    BY <2>5, <2>7 DEF Locals
  <2>9. \A q \in S : (q > u => Unwoken(q)') /\ (q < u => Awake(q)') /\ (q = u => Going(q)')
    BY <2>u, <1>0, <2>5, <2>6, CPUsAssumption DEF Wakes
  <2>10. tgt'[w] = u /\ at'[w] = "waking" /\ pc'[w] = "w_test" /\ u \in S /\ u <= cpu_online
    BY <2>u, <1>0, <2>2 DEF Wakes
  <2>11. Wakes(w, S)'
    BY <2>9, <2>10 DEF Wakes
  <2> QED BY <1>0, <2>8, <2>11
<1>5. CASE WakeTest(w)
  <2>1. /\ \/ "HALTED" \in flags[t] /\ Go(w, "w_test", "w_send")
           \/ "HALTED" \notin flags[t] /\ Go(w, "w_test", "run")
        /\ UNCHANGED <<flags, old, tgt>> /\ "w_send" \in PCs /\ "run" \in PCs
    BY <1>5 DEF WakeTest, InWakeup
  <2>2. /\ pc[w] = "w_test" /\ \A q \in CPUs : q # w => pc'[q] = pc[q]
        /\ \/ pc'[w] = "w_send"
           \/ "HALTED" \notin flags[t] /\ pc'[w] = "run"
    BY <2>1, SmpGo
  <2>3. (Going(t) \/ Awake(t)) /\ (pc'[w] = "run" => Awake(t))
    BY <1>0, <1>1, <2>2, BitFacts DEF Wakes
  <2>4. Alone(w)
    BY <2>1, <2>2 DEF Alone
  <2>5. Local(w)'
    BY <1>0, <2>1, <2>2 DEF Local, InHalt, InWakeup, InLoop
  <2> QED BY <1>0, <2>1, <2>2, <2>3, <2>4, <2>5, Frame DEF Wakes, Locals
<1>6. CASE SendIpi(w)
  <2>1. Go(w, "w_send", "w_test") /\ UNCHANGED <<flags, old, tgt>> /\ "w_test" \in PCs
    BY <1>6 DEF SendIpi, InWakeup
  <2>2. pc[w] = "w_send" /\ pc'[w] = "w_test" /\ \A q \in CPUs : q # w => pc'[q] = pc[q]
    BY <2>1, SmpGo
  <2>3. Going(t) \/ Awake(t)
    BY <1>0, <2>2 DEF Wakes
  <2>4. Alone(w)
    BY <2>1, <2>2 DEF Alone
  <2>5. Local(w)'
    BY <1>0, <2>1, <2>2 DEF Local, InHalt, InWakeup, InLoop
  <2> QED BY <1>0, <2>1, <2>2, <2>3, <2>4, <2>5, Frame DEF Wakes, Locals
<1> QED BY <1>2, <1>3, <1>4, <1>5, <1>6 DEF WakeStep
-----------------------------------------------------------------------------
(* The type invariant.                                                      *)

PcType == pc \in [CPUs -> {"run"} \cup InHalt \cup InWakeup]
AtType == at \in [CPUs -> Places]
BenchType ==
  /\ k \in [CPUs -> Nat] /\ r \in [CPUs -> Nat] /\ e \in [CPUs -> Nat]
  /\ dyn \in [cnt : Nat, epoch : 0..(EpochMod - 1), max : Nat]
  /\ flag \in [CPUs -> [flag : Nat, next : Nat]]

LEMMA TypeParts == TypeOK <=> Tables /\ PcType /\ tgt \in [CPUs -> Nat] /\ AtType /\ BenchType
BY DEF TypeOK, Tables, PcType, AtType, BenchType

LEMMA TypeWhole ==
  ASSUME Tables', PcType', tgt' \in [CPUs -> Nat], AtType', BenchType'
  PROVE  TypeOK'
BY DEF TypeOK, Tables, PcType, AtType, BenchType

LEMMA MoveTo ==
  ASSUME TypeOK, NEW p \in CPUs, NEW from, NEW to \in Places, Move(p, from, to)
  PROVE  /\ pc[p] = "run" /\ at[p] = from /\ at'[p] = to /\ AtType'
         /\ \A q \in CPUs : q # p => at'[q] = at[q]
BY DEF TypeOK, Move, AtType

\* The epoch wraps around, and changes every time.
LEMMA NextEpoch ==
  ASSUME NEW x \in 0..(EpochMod - 1)
  PROVE  (x + 1) % EpochMod \in 0..(EpochMod - 1) /\ (x + 1) % EpochMod # x
<1>1. CASE x + 1 < EpochMod
  <2>1. (x + 1) % EpochMod = x + 1
    BY <1>1, BenchAssumption
  <2> QED BY <1>1, <2>1, BenchAssumption
<1>2. CASE ~(x + 1 < EpochMod)
  <2>1. x + 1 = EpochMod
    BY <1>2, BenchAssumption
  <2>2. EpochMod % EpochMod = 0
    BY BenchAssumption
  <2> QED BY <1>2, <2>1, <2>2, BenchAssumption
<1> QED BY <1>1, <1>2

LEMMA SmpType ==
  ASSUME TypeOK, NEW p \in CPUs, SmpStep(p) \/ Interrupt(p), UNCHANGED benchVars
  PROVE  TypeOK'
<1> DEFINE PCs == {"run"} \cup InHalt \cup InWakeup
<1>l. /\ "h_load" \in PCs /\ "h_store" \in PCs /\ "h_test" \in PCs /\ "h_hlt" \in PCs
      /\ "h_asleep" \in PCs /\ "h_cload" \in PCs /\ "h_cstore" \in PCs /\ "run" \in PCs
      /\ "w_wait" \in PCs /\ "w_load" \in PCs /\ "w_store" \in PCs /\ "w_test" \in PCs
      /\ "w_send" \in PCs
  BY DEF InHalt, InWakeup
<1>g. \A from : \A to \in PCs : Go(p, from, to) => PcType'
  BY DEF TypeOK, Go, PcType
<1>1. PcType'
  <2> HIDE DEF PCs
  <2>1. pc' = pc => PcType'
    BY DEF TypeOK, PcType
  <2> QED BY <1>l, <1>g, <2>1 DEF SmpStep, HaltStep, HaltLoad, HaltStore, HaltTest, Sleep, ClearLoad,
            ClearStore, WakeStep, WakeWait, WakeLoad, WakeStore, WakeTest, SendIpi, Interrupt
<1>2. /\ tgt' = tgt
      /\ old' = old \/ \E x : old' = [old EXCEPT ![p] = x]
      /\ flags' = flags \/ \E u, x : flags' = [flags EXCEPT ![u] = x]
  BY DEF SmpStep, HaltStep, HaltLoad, HaltStore, HaltTest, Sleep, ClearLoad, ClearStore, WakeStep,
         WakeWait, WakeLoad, WakeStore, WakeTest, SendIpi, Interrupt, Forget
<1>3. Tables'
  BY <1>2 DEF TypeOK, Tables
<1> QED BY <1>1, <1>2, <1>3, TypeParts, TypeWhole DEF AtType, BenchType, benchVars

\* The steps of bench_worker() itself.
BenchStep(p) ==
  \/ InitFlags(p) \/ Pick(p) \/ SetMax(p) \/ Start(p) \/ Woken(p) \/ Measure(p)
  \/ LoadDone(p) \/ DynArrive(p) \/ DynLeave(p) \/ NextRange(p) \/ WakeNext(p) \/ WakeDone(p)

LEMMA BenchStepType ==
  ASSUME TypeOK, NEW p \in CPUs, BenchStep(p), LoadNbrs[k[p]] \in Nat \/ InitFlags(p) \/ Pick(p)
  PROVE  TypeOK'
<1> HIDE DEF cpu_online
<1>m. \A from : \A to \in Places : Move(p, from, to) => AtType'
  BY MoveTo
<1>l. {"init", "pick", "max", "go", "halt", "load", "dyn", "spin", "next", "wake", "waking", "bar1", "bar2",
       "final"} \subseteq Places
  BY DEF Places, Sites
<1>t. Tables /\ PcType /\ tgt \in [CPUs -> Nat] /\ AtType /\ BenchType
  BY TypeParts
<1>1. AtType'
  BY <1>m, <1>l DEF BenchStep, InitFlags, Pick, SetMax, Start, Woken, Measure, LoadDone, DynArrive, DynLeave,
     NextRange, WakeNext, WakeDone
<1>2. PcType'
  <2>1. pc' = pc \/ pc' = [pc EXCEPT ![p] = "h_load"] \/ pc' = [pc EXCEPT ![p] = "w_wait"]
    BY DEF BenchStep, InitFlags, Pick, SetMax, Start, Woken, Measure, LoadDone, DynArrive, DynLeave,
       NextRange, WakeNext, WakeDone, smpVars
  <2> QED BY <1>t, <2>1 DEF PcType, InHalt, InWakeup
<1>3. Tables'
  <2>1. flags' = flags /\ old' = old
    BY DEF BenchStep, InitFlags, Pick, SetMax, Start, Woken, Measure, LoadDone, DynArrive, DynLeave,
       NextRange, WakeNext, WakeDone, smpVars
  <2> QED BY <1>t, <2>1 DEF Tables
<1>4. CASE NextRange(p)
  <2>1. /\ tgt' = tgt \/ tgt' = [tgt EXCEPT ![p] = LoadNbrs[k[p]] + 1]
        /\ k' = k \/ k' = [k EXCEPT ![p] = @ + 1]
        /\ r' = r \/ r' = [r EXCEPT ![p] = @ + 1]
        /\ UNCHANGED <<dyn, e, flag>>
    BY <1>4 DEF NextRange, Load
  <2>2. LoadNbrs[k[p]] \in Nat
    BY <1>4 DEF NextRange, InitFlags, Pick, Move
  <2>3. k' \in [CPUs -> Nat] /\ r' \in [CPUs -> Nat]
    BY <1>t, <2>1 DEF BenchType
  <2>4. tgt' \in [CPUs -> Nat]
    BY <1>t, <2>1, <2>2
  <2> QED BY <1>t, <1>1, <1>2, <1>3, <2>1, <2>3, <2>4, TypeWhole DEF BenchType
<1>5. CASE DynArrive(p)
  <2>1. /\ tgt' = tgt /\ k' = k /\ r' = r /\ flag' = flag /\ e' = [e EXCEPT ![p] = dyn.epoch]
        /\ \/ dyn' = [dyn EXCEPT !.cnt = 0, !.epoch = (dyn.epoch + 1) % EpochMod]
           \/ dyn' = [dyn EXCEPT !.cnt = dyn.cnt + 1]
    BY <1>5 DEF DynArrive, smpVars
  <2>2. dyn.epoch \in 0..(EpochMod - 1) /\ dyn.epoch \in Nat /\ dyn.cnt \in Nat
    BY <1>t, BenchAssumption DEF BenchType
  <2>3. dyn' \in [cnt : Nat, epoch : 0..(EpochMod - 1), max : Nat]
    <3>1. (dyn.epoch + 1) % EpochMod \in 0..(EpochMod - 1)
      BY <2>2, NextEpoch
    <3>2. dyn \in [cnt : Nat, epoch : 0..(EpochMod - 1), max : Nat] /\ dyn.cnt + 1 \in Nat
      BY <1>t, <2>2 DEF BenchType
    <3> DEFINE en == (dyn.epoch + 1) % EpochMod
    <3>3. en \in 0..(EpochMod - 1)
      BY <3>1
    <3> HIDE DEF en
    <3>4. /\ [dyn EXCEPT !.cnt = 0, !.epoch = en] \in [cnt : Nat, epoch : 0..(EpochMod - 1), max : Nat]
          /\ [dyn EXCEPT !.cnt = dyn.cnt + 1] \in [cnt : Nat, epoch : 0..(EpochMod - 1), max : Nat]
      BY <3>2, <3>3
    <3> QED BY <2>1, <3>4 DEF en
  <2> QED BY <1>t, <1>1, <1>2, <1>3, <2>1, <2>2, <2>3, TypeWhole DEF BenchType
<1>6. CASE SetMax(p)
  <2>1. UNCHANGED <<tgt, k, r, e, flag>> /\ (dyn' = dyn \/ dyn' = [dyn EXCEPT !.max = LoadNbrs[k[p]] + 1])
    BY <1>6 DEF SetMax, Load, smpVars
  <2>2. LoadNbrs[k[p]] \in Nat
    BY <1>6 DEF SetMax, InitFlags, Pick, Move
  <2> QED BY <1>t, <1>1, <1>2, <1>3, <2>1, <2>2, TypeWhole DEF BenchType
<1>7. CASE InitFlags(p) \/ Pick(p) \/ Start(p) \/ Woken(p) \/ DynLeave(p)
  <2>1. /\ UNCHANGED <<tgt, dyn, e>>
        /\ k' = k \/ k' = [k EXCEPT ![p] = 1] \/ k' = [k EXCEPT ![p] = @ + 1]
        /\ r' = r \/ r' = [r EXCEPT ![p] = 1]
        /\ flag' = flag \/ flag' = [u \in CPUs |-> NoFlag]
    BY <1>7 DEF InitFlags, Pick, Start, Woken, DynLeave, smpVars
  <2>2. flag' \in [CPUs -> [flag : Nat, next : Nat]]
    BY <1>t, <2>1 DEF BenchType, NoFlag
  <2>3. k' \in [CPUs -> Nat]
    BY <1>t, <2>1 DEF BenchType
  <2>4. r' \in [CPUs -> Nat]
    BY <1>t, <2>1 DEF BenchType
  <2> QED BY <1>t, <1>1, <1>2, <1>3, <2>1, <2>2, <2>3, <2>4, TypeWhole DEF BenchType
<1>8. CASE Measure(p) \/ LoadDone(p)
  <2>1. /\ UNCHANGED <<tgt, dyn, e, k, r>>
        /\ \/ flag' = [u \in CPUs |-> IF u \in 1..Load(p) THEN [flag[u] EXCEPT !.flag = @ + 1] ELSE flag[u]]
           \/ flag' = [flag EXCEPT ![p].next = @ + 1]
    BY <1>8 DEF Measure, LoadDone, smpVars
  <2>2. flag' \in [CPUs -> [flag : Nat, next : Nat]]
    <3>1. \A u \in CPUs : flag[u] \in [flag : Nat, next : Nat]
      BY <1>t DEF BenchType
    <3>2. \A u \in CPUs : [flag[u] EXCEPT !.flag = @ + 1] \in [flag : Nat, next : Nat]
      BY <3>1
    <3>3. [flag[p] EXCEPT !.next = @ + 1] \in [flag : Nat, next : Nat]
      BY <3>1
    <3>4. CASE flag' = [u \in CPUs |-> IF u \in 1..Load(p) THEN [flag[u] EXCEPT !.flag = @ + 1] ELSE flag[u]]
      BY <3>1, <3>2, <3>4
    <3>5. CASE flag' = [flag EXCEPT ![p].next = @ + 1]
      <4>1. flag' = [flag EXCEPT ![p] = [flag[p] EXCEPT !.next = @ + 1]]
        BY <3>5
      <4> QED BY <1>t, <3>3, <4>1 DEF BenchType
    <3> QED BY <2>1, <3>4, <3>5
  <2> QED BY <1>t, <1>1, <1>2, <1>3, <2>1, <2>2, TypeWhole DEF BenchType
<1>9. CASE WakeNext(p) \/ WakeDone(p)
  <2>1. /\ UNCHANGED <<dyn, e, r, flag>>
        /\ k' = k \/ k' = [k EXCEPT ![p] = @ + 1]
        /\ tgt' = tgt \/ tgt' = [tgt EXCEPT ![p] = @ + 1]
    BY <1>9 DEF WakeNext, WakeDone
  <2>2. k' \in [CPUs -> Nat]
    BY <1>t, <2>1 DEF BenchType
  <2>3. tgt' \in [CPUs -> Nat]
    BY <1>t, <2>1
  <2> QED BY <1>t, <1>1, <1>2, <1>3, <2>1, <2>2, <2>3, TypeWhole DEF BenchType
<1> QED BY <1>4, <1>5, <1>6, <1>7, <1>8, <1>9 DEF BenchStep
-----------------------------------------------------------------------------
(* The phases.                                                              *)

LEMMA LoadFacts ==
  ASSUME NEW c \in Nat \ {0}, Taken(c)
  PROVE  /\ LoadNbrs[c] \in Nat /\ LoadNbrs[c] < cpu_online /\ Final(c) \in Nat \ {0}
         /\ Above(c) \subseteq CPUs /\ 0 \notin Above(c)
         /\ \A p \in CPUs : p \notin Above(c) <=> p <= LoadNbrs[c]
<1> HIDE DEF cpu_online
<1>1. LoadNbrs[c] \in Nat /\ LoadNbrs[c] < cpu_online
  BY BenchAssumption DEF Taken
<1>2. Final(c) \in Nat \ {0}
  BY BenchAssumption DEF Final
<1>3. CPUs \subseteq Nat
  BY CpuFacts
<1> QED BY <1>1, <1>2, <1>3 DEF Above

\* The others keep their positions in the loops.
MineOnly(p) == \A q \in CPUs : q # p => k'[q] = k[q] /\ r'[q] = r[q] /\ e'[q] = e[q]

LEMMA Neighbours ==
  ASSUME NEW p \in CPUs, NEW c, NEW x, Alone(p), MineOnly(p), dyn'.epoch = dyn.epoch
  PROVE  \A q \in CPUs : q # p =>
           /\ Member(q, c, x)' <=> Member(q, c, x)
           /\ Sleeper(q, c)' <=> Sleeper(q, c)
           /\ Waits(q)' <=> Waits(q)
           /\ Done(q)' <=> Done(q)
<1> HIDE DEF cpu_online
<1> SUFFICES ASSUME NEW q \in CPUs, q # p
             PROVE  /\ Member(q, c, x)' <=> Member(q, c, x)
                    /\ Sleeper(q, c)' <=> Sleeper(q, c)
                    /\ Waits(q)' <=> Waits(q)
                    /\ Done(q)' <=> Done(q)
  OBVIOUS
<1>1. at'[q] = at[q] /\ k'[q] = k[q] /\ r'[q] = r[q] /\ e'[q] = e[q] /\ dyn'.epoch = dyn.epoch
  BY DEF Alone, MineOnly
<1>2. Waits(q)' <=> Waits(q)
  BY <1>1 DEF Waits
<1>3. Done(q)' <=> Done(q)
  BY <1>1, <1>2 DEF Done
<1>4. \A d : Onto(q, d)' <=> Onto(q, d)
  BY <1>1 DEF Onto, Taken
<1>5. Member(q, c, x)' <=> Member(q, c, x)
  BY <1>1, <1>3, <1>4 DEF Member
<1>6. Sleeper(q, c)' <=> Sleeper(q, c)
  BY <1>1, <1>4 DEF Sleeper
<1> QED BY <1>2, <1>3, <1>5, <1>6

\* A step that is not about barr_dyn and the flags keeps Running when the CPU keeps to
\* its part.
LEMMA RunKeep ==
  ASSUME NEW c \in Nat \ {0}, NEW x \in Nat \ {0}, Running(c, x), NEW p \in CPUs,
         Alone(p), MineOnly(p), dyn' = dyn, flag' = flag, ~Done(p), ~Done(p)',
         p <= LoadNbrs[c] => Member(p, c, x)', ~(p <= LoadNbrs[c]) => Sleeper(p, c)', Waking(c)'
  PROVE  Running(c, x)'
<1> HIDE DEF cpu_online
<1>1. \A q \in CPUs : q # p =>
        /\ Member(q, c, x)' <=> Member(q, c, x)
        /\ Sleeper(q, c)' <=> Sleeper(q, c)
        /\ Waits(q)' <=> Waits(q)
        /\ Done(q)' <=> Done(q)
  BY Neighbours
<1>2. \A q \in CPUs : (Done(q)' <=> Done(q)) /\ (Waits(q)' <=> Waits(q))
  BY <1>1 DEF Done
<1>3. Waiters' = Waiters
  BY <1>2 DEF Waiters
<1>4. \A q \in CPUs : IF q <= LoadNbrs[c] THEN Member(q, c, x)' ELSE Sleeper(q, c)'
  BY <1>1 DEF Running
<1>5. Signalled(c)'
  <2>1. Done(0)' <=> Done(0)
    BY <1>2, CpuFacts
  <2> QED BY <1>2, <2>1 DEF Running, Signalled
<1> QED BY <1>3, <1>4, <1>5 DEF Running, Taken, Final

\* A step of another CPU than 0 keeps the waking up in order.
LEMMA WakingBy ==
  ASSUME NEW c \in Nat \ {0}, Taken(c), Waking(c), NEW p \in CPUs, p # 0,
         Alone(p), tgt'[0] = tgt[0], k'[0] = k[0],
         p \in Above(c) /\ Unwoken(p) => Unwoken(p)',
         p \in Above(c) /\ Unwoken(p) /\ flags[p] = Bits => flags'[p] = Bits,
         p \in Above(c) /\ Going(p) => Going(p)' \/ Awake(p)',
         p \in Above(c) /\ Awake(p) => Awake(p)'
  PROVE  Waking(c)'
<1> HIDE DEF cpu_online
<1>0. 0 \in CPUs /\ Above(c) \in SUBSET CPUs
  BY CpuFacts, LoadFacts
<1>1. at'[0] = at[0] /\ Above(c)' = Above(c)
  BY <1>0 DEF Alone, Above
<1>2. \A q \in Above(c) : (Unwoken(q) => Unwoken(q)') /\ (Awake(q) => Awake(q)')
  BY <1>0, Frame
<1>3. CASE at[0] \notin {"wake", "waking"} /\ k[0] = c /\ \A q \in Above(c) : Unwoken(q)
  BY <1>1, <1>2, <1>3 DEF Waking
<1>4. CASE at[0] \in {"wake", "waking"} /\ Wakes(0, Above(c)) /\ tgt[0] > LoadNbrs[c]
  <2>1. PICK S \in SUBSET CPUs : S = Above(c)
    BY <1>0
  <2>2. Wakes(0, S)'
    BY <1>0, <1>4, <2>1, WakesBy
  <2>3. Wakes(0, Above(c))'
    BY <1>1, <2>1, <2>2 DEF Wakes
  <2> QED BY <1>1, <1>4, <2>3 DEF Waking
<1>5. CASE k[0] = c + 1 /\ \A q \in Above(c) : Awake(q)
  BY <1>1, <1>2, <1>5 DEF Waking
<1> QED BY <1>3, <1>4, <1>5 DEF Waking

\* A CPU whose number is not above load_nbr is not waited for.
LEMMA WakingMember ==
  ASSUME NEW c \in Nat \ {0}, Taken(c), Waking(c), NEW p \in CPUs, p # 0, p <= LoadNbrs[c],
         Alone(p), tgt'[0] = tgt[0], k'[0] = k[0]
  PROVE  Waking(c)'
<1>1. p \notin Above(c)
  BY LoadFacts
<1> QED BY <1>1, WakingBy

\* A step of CPU 0 while the others sleep.
LEMMA WakingFirst ==
  ASSUME NEW c \in Nat \ {0}, Taken(c), Waking(c), Alone(0), at[0] \notin {"wake", "waking"}, k[0] = c,
         at'[0] \notin {"wake", "waking"}, k'[0] = c
  PROVE  Waking(c)'
<1> HIDE DEF cpu_online
<1>1. 0 \in CPUs /\ 0 \notin Above(c) /\ Above(c) \subseteq CPUs
  BY CpuFacts, LoadFacts
<1>2. \A q \in Above(c) : Unwoken(q)
  BY DEF Waking
<1>3. \A q \in Above(c) : Unwoken(q)'
  BY <1>1, <1>2, Frame
<1>4. Above(c)' = Above(c)
  BY DEF Above
<1> QED BY <1>3, <1>4 DEF Waking

\* What a step of the program text leaves alone.
Running1(p) ==
  /\ pc[p] = "run" /\ flags' = flags /\ old' = old
  /\ \A q \in CPUs : q # p => at'[q] = at[q] /\ pc'[q] = pc[q] /\ k'[q] = k[q] /\ r'[q] = r[q] /\ e'[q] = e[q]
                              /\ tgt'[q] = tgt[q]

LEMMA BenchFrame ==
  ASSUME TypeOK, NEW p \in CPUs, BenchStep(p)
  PROVE  Running1(p) /\ Alone(p) /\ MineOnly(p)
<1> HIDE DEF cpu_online
<1>t. pc \in [CPUs -> {"run"} \cup InHalt \cup InWakeup] /\ at \in [CPUs -> Places] /\ tgt \in [CPUs -> Nat]
      /\ k \in [CPUs -> Nat] /\ r \in [CPUs -> Nat] /\ e \in [CPUs -> Nat]
  BY DEF TypeOK
<1>1. pc[p] = "run" /\ \E y : at' = [at EXCEPT ![p] = y]
  BY DEF BenchStep, InitFlags, Pick, SetMax, Start, Woken, Measure, LoadDone, DynArrive, DynLeave,
     NextRange, WakeNext, WakeDone, Move
<1>2. flags' = flags /\ old' = old /\ (pc' = pc \/ \E y : pc' = [pc EXCEPT ![p] = y])
  BY DEF BenchStep, InitFlags, Pick, SetMax, Start, Woken, Measure, LoadDone, DynArrive, DynLeave,
     NextRange, WakeNext, WakeDone, smpVars
<1>3. /\ k' = k \/ \E y : k' = [k EXCEPT ![p] = y]
      /\ r' = r \/ \E y : r' = [r EXCEPT ![p] = y]
      /\ e' = e \/ \E y : e' = [e EXCEPT ![p] = y]
      /\ tgt' = tgt \/ \E y : tgt' = [tgt EXCEPT ![p] = y]
  BY DEF BenchStep, InitFlags, Pick, SetMax, Start, Woken, Measure, LoadDone, DynArrive, DynLeave,
     NextRange, WakeNext, WakeDone, smpVars
<1>4. \A q \in CPUs : q # p => at'[q] = at[q] /\ pc'[q] = pc[q]
  BY <1>t, <1>1, <1>2
<1>5. \A q \in CPUs : q # p => k'[q] = k[q] /\ r'[q] = r[q] /\ e'[q] = e[q] /\ tgt'[q] = tgt[q]
  BY <1>t, <1>3
<1> QED BY <1>1, <1>2, <1>4, <1>5 DEF Running1, Alone, MineOnly

\* A step of the program text keeps Local(), unless it enters one of the two functions
\* at a wrong label.
LEMMA BenchLocals ==
  ASSUME TypeOK, Locals, NEW p \in CPUs, BenchStep(p),
         \/ at'[p] \notin {"halt", "waking"} /\ pc'[p] = "run"
         \/ at'[p] = "halt" /\ pc'[p] = "h_load"
         \/ at'[p] = "waking" /\ pc'[p] = "w_wait"
  PROVE  Locals'
<1>1. Alone(p) /\ pc[p] = "run" /\ flags' = flags
  BY BenchFrame DEF Running1
<1>2. flags[p] = {}
  BY <1>1 DEF Locals, Local
<1>3. Local(p)'
  BY <1>1, <1>2 DEF Local, InHalt, InWakeup, InLoop
<1> QED BY <1>1, <1>3, Frame DEF Locals

\* What the place of a CPU says about the rest.
LEMMA PlaceOf ==
  ASSUME NEW c \in Nat \ {0}, NEW x \in Nat \ {0}, Running(c, x), NEW p \in CPUs
  PROVE  /\ at[p] \in {"pick", "bar1", "final"} =>
              Onto(p, c + 1) /\ (p <= LoadNbrs[c] => x = Final(c) + 1)
         /\ at[p] = "go" => k[p] = c /\ (p <= LoadNbrs[c] => x = 1)
         /\ at[p] = "halt" => k[p] = c /\ ~(p <= LoadNbrs[c])
         /\ at[p] \in {"load", "dyn"} \/ Waits(p) => p <= LoadNbrs[c] /\ k[p] = c /\ r[p] = x /\ x <= Final(c)
         /\ at[p] = "next" \/ (at[p] = "spin" /\ e[p] # dyn.epoch) =>
              p <= LoadNbrs[c] /\ k[p] = c /\ r[p] + 1 = x /\ x > 1
         /\ at[p] \in {"wake", "waking"} => p <= LoadNbrs[c] /\ p = 0 /\ k[p] = c /\ x = Final(c) + 1
         /\ at[p] \notin {"init", "max", "bar2"}
<1> HIDE DEF cpu_online
<1>1. IF p <= LoadNbrs[c] THEN Member(p, c, x) ELSE Sleeper(p, c)
  BY DEF Running
<1>2. CASE p <= LoadNbrs[c]
  <2>1. Member(p, c, x)
    BY <1>1, <1>2
  <2>2. CASE k[p] = c /\ at[p] = "go" /\ x = 1
    BY <1>2, <2>2 DEF Waits
  <2>3. CASE k[p] = c /\ r[p] = x /\ x <= Final(c) /\ (at[p] = "load" \/ Done(p))
    BY <1>2, <2>3 DEF Waits, Done
  <2>4. CASE k[p] = c /\ r[p] + 1 = x /\ x > 1 /\ (at[p] = "next" \/ (at[p] = "spin" /\ e[p] # dyn.epoch))
    BY <1>2, <2>4 DEF Waits
  <2>5. CASE x = Final(c) + 1 /\ Onto(p, c + 1)
    <3>1. at[p] \in {"pick", "bar1", "final"}
      BY <2>5 DEF Onto
    <3> QED BY <1>2, <2>5, <3>1 DEF Waits
  <2>6. CASE x = Final(c) + 1 /\ p = 0 /\ k[p] = c /\ at[p] \in {"wake", "waking"}
    BY <1>2, <2>6 DEF Waits
  <2> QED BY <2>1, <2>2, <2>3, <2>4, <2>5, <2>6 DEF Member
<1>3. CASE ~(p <= LoadNbrs[c])
  <2>1. CASE Onto(p, c + 1)
    <3>1. at[p] \in {"pick", "bar1", "final"}
      BY <2>1 DEF Onto
    <3> QED BY <1>3, <2>1, <3>1 DEF Waits
  <2>2. CASE k[p] = c /\ at[p] \in {"go", "halt"}
    BY <1>3, <2>2 DEF Waits
  <2> QED BY <1>1, <1>3, <2>1, <2>2 DEF Sleeper
<1> QED BY <1>2, <1>3

LEMMA RunPick ==
  ASSUME TypeOK, NEW c \in Nat \ {0}, NEW x \in Nat \ {0}, Running(c, x), NEW p \in CPUs, Pick(p)
  PROVE  Running(c, x)'
<1> HIDE DEF cpu_online
<1>0. BenchStep(p) /\ Taken(c) /\ Waking(c)
  BY DEF BenchStep, Running
<1>1. Alone(p) /\ MineOnly(p) /\ k' = k /\ flags' = flags /\ dyn' = dyn /\ flag' = flag /\ tgt' = tgt
  BY <1>0, BenchFrame DEF Pick, smpVars
<1>2. at[p] = "pick" /\ at'[p] = IF Taken(k[p]) THEN "bar1" ELSE "final"
  <2>1. Move(p, "pick", IF Taken(k[p]) THEN "bar1" ELSE "final")
    BY DEF Pick, Taken, Load
  <2> QED BY <2>1, MoveTo DEF Places, Sites
<1>3. Onto(p, c + 1) /\ k[p] = c + 1 /\ (p <= LoadNbrs[c] => x = Final(c) + 1)
  BY <1>2, PlaceOf DEF Onto
<1>4. Onto(p, c + 1)'
  BY <1>1, <1>2, <1>3 DEF Onto, Taken
<1>5. ~Done(p) /\ ~Done(p)' /\ Awake(p)' /\ ~Unwoken(p) /\ ~Going(p)
  BY <1>2 DEF Done, Waits, Awake, Unwoken, Going
<1>6. Waking(c)'
  <2>1. CASE p = 0
    <3>1. k[0] = c + 1 /\ \A q \in Above(c) : Awake(q)
      BY <1>0, <1>2, <1>3, <2>1 DEF Waking
    <3>2. \A q \in Above(c) : Awake(q)'
      BY <1>0, <1>1, <2>1, <3>1, LoadFacts, Frame
    <3> QED BY <1>1, <3>1, <3>2 DEF Waking, Above
  <2>2. CASE p # 0
    BY <1>0, <1>1, <1>5, <2>2, WakingBy
  <2> QED BY <2>1, <2>2
<1>7. (p <= LoadNbrs[c] => Member(p, c, x)') /\ Sleeper(p, c)'
  BY <1>3, <1>4 DEF Member, Sleeper, Final
<1> QED BY <1>1, <1>5, <1>6, <1>7, RunKeep

LEMMA RunStart ==
  ASSUME TypeOK, NEW c \in Nat \ {0}, NEW x \in Nat \ {0}, Running(c, x), NEW p \in CPUs, Start(p)
  PROVE  Running(c, x)'
<1> HIDE DEF cpu_online
<1>0. BenchStep(p) /\ Taken(c) /\ Waking(c) /\ LoadNbrs[c] \in Nat
  BY LoadFacts DEF BenchStep, Running
<1>1. Alone(p) /\ MineOnly(p) /\ k' = k /\ flags' = flags /\ dyn' = dyn /\ flag' = flag /\ tgt' = tgt
  BY <1>0, BenchFrame DEF Start, Running1
<1>2. at[p] = "go" /\ at'[p] = IF p > LoadNbrs[k[p]] THEN "halt" ELSE "load"
  <2>1. Move(p, "go", IF p > LoadNbrs[k[p]] THEN "halt" ELSE "load")
    BY DEF Start, Load
  <2> QED BY <2>1, MoveTo DEF Places, Sites
<1>3. k[p] = c /\ (p <= LoadNbrs[c] => x = 1)
  BY <1>2, PlaceOf
<1>4. r'[p] = 1 /\ (p > LoadNbrs[c] => pc'[p] = "h_load")
  BY <1>3 DEF Start, Load, TypeOK
<1>5. ~Done(p) /\ ~Done(p)' /\ Unwoken(p) /\ ~Going(p) /\ ~Awake(p)
  BY <1>2 DEF Done, Waits, Awake, Unwoken, Going
<1>p. p \in Nat /\ 0 \in CPUs
  BY CpuFacts
<1>6. CASE p <= LoadNbrs[c]
  <2>1. ~(p > LoadNbrs[c])
    BY <1>0, <1>p, <1>6
  <2>2. at'[p] = "load"
    BY <1>2, <1>3, <2>1
  <2>3. Member(p, c, x)'
    <3>1. Final(c) \in Nat \ {0}
      BY <1>0, LoadFacts
    <3>2. Final(c)' = Final(c) /\ x <= Final(c) /\ x = 1
      BY <1>3, <1>6, <3>1 DEF Final
    <3> QED BY <1>1, <1>3, <1>4, <2>2, <3>2 DEF Member
  <2>4. Waking(c)'
    <3>1. CASE p = 0
      BY <1>0, <1>1, <1>2, <1>3, <2>2, <3>1, WakingFirst
    <3>2. CASE p # 0
      BY <1>0, <1>1, <1>6, <3>2, WakingMember
    <3> QED BY <3>1, <3>2
  <2> QED BY <1>1, <1>5, <1>6, <2>3, <2>4, RunKeep
<1>7. CASE ~(p <= LoadNbrs[c])
  <2>1. p > LoadNbrs[c] /\ p # 0
    BY <1>0, <1>p, <1>7
  <2>2. at'[p] = "halt" /\ pc'[p] = "h_load"
    BY <1>2, <1>3, <1>4, <2>1
  <2>3. Sleeper(p, c)' /\ Unwoken(p)'
    BY <1>1, <1>3, <2>2 DEF Sleeper, Unwoken
  <2>4. Waking(c)'
    BY <1>0, <1>1, <1>5, <2>1, <2>3, WakingBy
  <2> QED BY <1>1, <1>5, <1>7, <2>3, <2>4, RunKeep
<1> QED BY <1>6, <1>7

LEMMA RunWoken ==
  ASSUME TypeOK, NEW c \in Nat \ {0}, NEW x \in Nat \ {0}, Running(c, x), NEW p \in CPUs, Woken(p)
  PROVE  Running(c, x)'
<1> HIDE DEF cpu_online
<1>0. BenchStep(p) /\ Taken(c) /\ Waking(c) /\ LoadNbrs[c] \in Nat
  BY LoadFacts DEF BenchStep, Running
<1>1. Alone(p) /\ MineOnly(p) /\ flags' = flags /\ dyn' = dyn /\ flag' = flag /\ tgt' = tgt
  BY <1>0, BenchFrame DEF Woken, smpVars
<1>2. at[p] = "halt" /\ at'[p] = "pick" /\ pc[p] = "run"
  <2>1. Move(p, "halt", "pick")
    BY DEF Woken
  <2> QED BY <2>1, MoveTo DEF Places, Sites
<1>3. k[p] = c /\ ~(p <= LoadNbrs[c])
  BY <1>2, PlaceOf
<1>4. p # 0 /\ 0 \in CPUs
  BY <1>0, <1>3, CpuFacts
<1>5. k'[p] = c + 1 /\ k'[0] = k[0]
  BY <1>3, <1>4 DEF Woken, TypeOK
<1>6. ~Done(p) /\ ~Done(p)' /\ ~Unwoken(p) /\ ~Going(p) /\ Awake(p)' /\ Sleeper(p, c)'
  BY <1>2, <1>5 DEF Done, Waits, Awake, Unwoken, Going, Sleeper, Onto, InLoop
<1>7. Waking(c)'
  BY <1>0, <1>1, <1>4, <1>5, <1>6, WakingBy
<1> QED BY <1>1, <1>3, <1>6, <1>7, RunKeep

LEMMA RunNext ==
  ASSUME TypeOK, NEW c \in Nat \ {0}, NEW x \in Nat \ {0}, Running(c, x), NEW p \in CPUs, NextRange(p)
  PROVE  Running(c, x)'
<1> HIDE DEF cpu_online
<1>0. BenchStep(p) /\ Taken(c) /\ Waking(c) /\ LoadNbrs[c] \in Nat /\ LoadNbrs[c] < cpu_online
  BY LoadFacts DEF BenchStep, Running
<1>1. Alone(p) /\ MineOnly(p) /\ flags' = flags /\ dyn' = dyn /\ flag' = flag /\ pc' = pc
  BY <1>0, BenchFrame DEF NextRange
<1>2. at[p] = "next" /\ pc[p] = "run"
  BY DEF NextRange, Move
<1>3. p <= LoadNbrs[c] /\ k[p] = c /\ r[p] + 1 = x /\ x > 1
  BY <1>2, PlaceOf
<1>p. p \in Nat /\ 0 \in CPUs /\ cpu_online \in Nat
  BY CpuFacts
<1>4. x <= Final(c) + 1 /\ r[p] \in Nat /\ Final(c) \in Nat \ {0} /\ Ranges \in Nat \ {0}
  BY <1>0, LoadFacts, BenchAssumption DEF Running, TypeOK
<1>5. CASE LoadNbrs[c] = 0 \/ r[p] = Ranges
  <2>1. x = Final(c) + 1
    <3>1. CASE LoadNbrs[c] = 0
      BY <1>3, <1>4, <3>1 DEF Final
    <3>2. CASE LoadNbrs[c] # 0
      BY <1>3, <1>4, <1>5, <3>2 DEF Final
    <3> QED BY <3>1, <3>2
  <2>2. CASE p = 0
    <3>1. Move(p, "next", "wake") /\ tgt' = [tgt EXCEPT ![p] = LoadNbrs[c] + 1] /\ k' = k
      BY <1>3, <1>5, <2>2 DEF NextRange, Load
    <3>2. at'[p] = "wake" /\ tgt'[0] = LoadNbrs[c] + 1
      BY <3>1, <2>2, MoveTo DEF Places, Sites, TypeOK
    <3>3. ~Done(p) /\ ~Done(p)' /\ Member(p, c, x)'
      <4>1. Final(c)' = Final(c)
        BY DEF Final
      <4> QED BY <1>2, <1>3, <2>1, <2>2, <3>1, <3>2, <4>1 DEF Done, Waits, Member
    <3>4. \A q \in Above(c) : Unwoken(q)
      BY <1>0, <1>2, <1>3, <2>2 DEF Waking
    <3>5. \A q \in Above(c) : Unwoken(q)' /\ q \in Nat /\ q > LoadNbrs[c]
      BY <1>0, <1>1, <1>p, <2>2, <3>4, LoadFacts, Frame, CpuFacts DEF Above
    <3>6. Above(c)' = Above(c) /\ pc'[0] = "run"
      BY <1>1, <1>2, <2>2 DEF Above
    <3>7. Wakes(0, Above(c))'
      <4>1. tgt'[0] <= cpu_online' /\ \A q \in Above(c) : ~(q < tgt'[0])
        <5>1. cpu_online' = cpu_online
          BY DEF cpu_online
        <5> QED BY <1>0, <1>p, <3>2, <3>5, <5>1
      <4> QED BY <2>2, <3>2, <3>5, <3>6, <4>1 DEF Wakes
    <3>8. Waking(c)'
      <4>1. tgt'[0] > LoadNbrs[c]
        BY <1>0, <3>2
      <4> QED BY <2>2, <3>2, <3>7, <4>1 DEF Waking
    <3> QED BY <1>1, <1>3, <3>3, <3>8, RunKeep
  <2>3. CASE p # 0
    <3>1. Move(p, "next", "pick") /\ k' = [k EXCEPT ![p] = c + 1] /\ tgt' = tgt
      BY <1>3, <1>5, <2>3 DEF NextRange, Load
    <3>2. at'[p] = "pick" /\ k'[p] = c + 1 /\ k'[0] = k[0]
      BY <1>p, <2>3, <3>1, MoveTo DEF Places, Sites, TypeOK
    <3>3. ~Done(p) /\ ~Done(p)' /\ Member(p, c, x)'
      <4>1. Final(c)' = Final(c)
        BY DEF Final
      <4> QED BY <1>2, <2>1, <3>2, <4>1 DEF Done, Waits, Member, Onto
    <3>4. Waking(c)'
      BY <1>0, <1>1, <1>3, <2>3, <3>1, <3>2, WakingMember
    <3> QED BY <1>1, <1>3, <3>3, <3>4, RunKeep
  <2> QED BY <2>2, <2>3
<1>6. CASE ~(LoadNbrs[c] = 0 \/ r[p] = Ranges)
  <2>1. Move(p, "next", "load") /\ r' = [r EXCEPT ![p] = @ + 1] /\ k' = k /\ tgt' = tgt
    BY <1>3, <1>6 DEF NextRange, Load
  <2>2. at'[p] = "load" /\ r'[p] = x
    BY <1>3, <2>1, MoveTo DEF Places, Sites, TypeOK
  <2>3. x <= Final(c)
    <3>1. Final(c) = Ranges
      BY <1>6 DEF Final
    <3> QED BY <1>3, <1>4, <1>6, <3>1
  <2>4. ~Done(p) /\ ~Done(p)' /\ Member(p, c, x)'
    <3>1. Final(c)' = Final(c)
      BY DEF Final
    <3> QED BY <1>2, <1>3, <2>1, <2>2, <2>3, <3>1 DEF Done, Waits, Member
  <2>5. Waking(c)'
    <3>1. CASE p = 0
      BY <1>0, <1>1, <1>2, <1>3, <2>1, <2>2, <3>1, WakingFirst
    <3>2. CASE p # 0
      BY <1>0, <1>1, <1>3, <2>1, <3>2, WakingMember
    <3> QED BY <3>1, <3>2
  <2> QED BY <1>1, <1>3, <2>4, <2>5, RunKeep
<1> QED BY <1>5, <1>6

\* CPU 0 begins to wake up the next one, or is through with all of them.
LEMMA RunWakeNext ==
  ASSUME TypeOK, NEW c \in Nat \ {0}, NEW x \in Nat \ {0}, Running(c, x), NEW p \in CPUs, WakeNext(p)
  PROVE  Running(c, x)'
<1> HIDE DEF cpu_online
<1>0. BenchStep(p) /\ Taken(c) /\ Waking(c) /\ LoadNbrs[c] \in Nat /\ 0 \in CPUs
  BY LoadFacts, CpuFacts DEF BenchStep, Running
<1>1. Alone(p) /\ MineOnly(p) /\ flags' = flags /\ old' = old /\ dyn' = dyn /\ flag' = flag /\ tgt' = tgt
  BY <1>0, BenchFrame DEF WakeNext
<1>2. at[p] = "wake" /\ pc[p] = "run"
  BY DEF WakeNext, Move
<1>3. p <= LoadNbrs[c] /\ p = 0 /\ k[p] = c /\ x = Final(c) + 1 /\ k[p] # c + 1
  <2>1. p <= LoadNbrs[c] /\ p = 0 /\ k[p] = c /\ x = Final(c) + 1
    BY <1>2, PlaceOf
  <2>2. c # c + 1
    OBVIOUS
  <2> QED BY <2>1, <2>2
<1>4. Wakes(0, Above(c)) /\ tgt[0] > LoadNbrs[c]
  BY <1>0, <1>2, <1>3 DEF Waking
<1>5. /\ 0 \notin Above(c) /\ Above(c) \subseteq CPUs /\ cpu_online \in Nat /\ tgt[0] \in Nat
      /\ \A q \in CPUs : q \in Nat /\ q < cpu_online
  BY <1>0, LoadFacts, CpuFacts DEF TypeOK
<1>6. \A q \in Above(c) : (Unwoken(q)' <=> Unwoken(q)) /\ (Awake(q)' <=> Awake(q))
  BY <1>1, <1>3, <1>5, Frame
<1>7. Above(c)' = Above(c) /\ cpu_online' = cpu_online /\ Final(c)' = Final(c)
  BY DEF Above, cpu_online, Final
<1>8. CASE tgt[0] < cpu_online
  <2>1. Move(p, "wake", "waking") /\ pc' = [pc EXCEPT ![p] = "w_wait"] /\ k' = k
    BY <1>3, <1>8 DEF WakeNext
  <2>2. at'[p] = "waking" /\ pc'[p] = "w_wait" /\ k'[p] = c
    BY <1>3, <2>1, MoveTo DEF Places, Sites, TypeOK
  <2>3. tgt[0] \in Above(c)
    BY <1>4, <1>5, <1>8, CpuFacts DEF Above
  <2>4. \A q \in Above(c) : (q > tgt[0] => Unwoken(q)) /\ (q < tgt[0] => Awake(q)) /\ (q = tgt[0] => Unwoken(q))
    BY <1>2, <1>3, <1>4 DEF Wakes
  <2>5. Wakes(0, Above(c))'
    <3>1. tgt'[0] = tgt[0] /\ tgt[0] <= cpu_online
      BY <1>1, <1>4 DEF Wakes
    <3> QED BY <1>3, <1>6, <1>7, <2>2, <2>3, <2>4, <3>1 DEF Wakes
  <2>6. Waking(c)'
    BY <1>1, <1>3, <1>4, <2>2, <2>5 DEF Waking
  <2>7. ~Done(p) /\ ~Done(p)' /\ Member(p, c, x)'
    BY <1>2, <1>3, <1>7, <2>2 DEF Done, Waits, Member
  <2> QED BY <1>1, <1>3, <2>6, <2>7, RunKeep
<1>9. CASE ~(tgt[0] < cpu_online)
  <2>1. Move(p, "wake", "pick") /\ k' = [k EXCEPT ![p] = c + 1]
    BY <1>3, <1>9 DEF WakeNext
  <2>2. at'[p] = "pick" /\ k'[p] = c + 1
    BY <2>1, MoveTo DEF Places, Sites, TypeOK
  <2>3. \A q \in Above(c) : q < tgt[0]
    BY <1>5, <1>9
  <2>4. \A q \in Above(c) : Awake(q)
    BY <1>4, <2>3 DEF Wakes
  <2>5. Waking(c)'
    BY <1>3, <1>6, <1>7, <2>2, <2>4 DEF Waking
  <2>6. ~Done(p) /\ ~Done(p)' /\ Member(p, c, x)'
    BY <1>2, <1>3, <1>7, <2>2 DEF Done, Waits, Member, Onto
  <2> QED BY <1>1, <1>3, <2>5, <2>6, RunKeep
<1> QED BY <1>8, <1>9

LEMMA RunWakeDone ==
  ASSUME TypeOK, NEW c \in Nat \ {0}, NEW x \in Nat \ {0}, Running(c, x), NEW p \in CPUs, WakeDone(p)
  PROVE  Running(c, x)'
<1> HIDE DEF cpu_online
<1>0. BenchStep(p) /\ Taken(c) /\ Waking(c) /\ LoadNbrs[c] \in Nat /\ 0 \in CPUs
  BY LoadFacts, CpuFacts DEF BenchStep, Running
<1>1. Alone(p) /\ MineOnly(p) /\ dyn' = dyn /\ flag' = flag /\ pc' = pc /\ k' = k
  BY <1>0, BenchFrame DEF WakeDone
<1>2. at[p] = "waking" /\ at'[p] = "wake" /\ pc[p] = "run"
  <2>1. Move(p, "waking", "wake")
    BY DEF WakeDone
  <2> QED BY <2>1, MoveTo DEF Places, Sites
<1>3. p <= LoadNbrs[c] /\ p = 0 /\ k[p] = c /\ x = Final(c) + 1
  BY <1>2, PlaceOf
<1>4. Wakes(0, Above(c)) /\ tgt[0] > LoadNbrs[c]
  BY <1>0, <1>2, <1>3 DEF Waking
<1>5. /\ 0 \notin Above(c) /\ Above(c) \subseteq CPUs /\ cpu_online \in Nat /\ tgt[0] \in Nat
      /\ \A q \in CPUs : q \in Nat /\ q < cpu_online
  BY <1>0, LoadFacts, CpuFacts DEF TypeOK
<1>6. \A q \in Above(c) : (Unwoken(q)' <=> Unwoken(q)) /\ (Awake(q)' <=> Awake(q))
  BY <1>1, <1>3, <1>5, Frame
<1>7. Above(c)' = Above(c) /\ cpu_online' = cpu_online /\ Final(c)' = Final(c)
  BY DEF Above, cpu_online, Final
<1>8. tgt'[0] = tgt[0] + 1 /\ pc'[0] = "run"
  BY <1>0, <1>1, <1>2, <1>3 DEF WakeDone, TypeOK
<1>9. tgt[0] \in Above(c) /\ Awake(tgt[0]) /\ tgt[0] < cpu_online
  BY <1>2, <1>3, <1>4, <1>5 DEF Wakes
<1>10. \A q \in Above(c) : (q >= tgt'[0] => Unwoken(q)) /\ (q < tgt'[0] => Awake(q))
  <2> SUFFICES ASSUME NEW q \in Above(c)
               PROVE  (q >= tgt[0] + 1 => Unwoken(q)) /\ (q < tgt[0] + 1 => Awake(q))
    BY <1>8
  <2>1. q \in Nat /\ (q > tgt[0] => Unwoken(q)) /\ (q < tgt[0] => Awake(q))
    BY <1>4, <1>5 DEF Wakes
  <2> QED BY <1>5, <1>9, <2>1
<1>11. tgt'[0] <= cpu_online /\ tgt'[0] > LoadNbrs[c]
  BY <1>0, <1>4, <1>5, <1>8, <1>9
<1>12. Wakes(0, Above(c))'
  <2>1. \A q \in Above(c) : q > tgt'[0] \/ q = tgt'[0] => q >= tgt'[0]
    BY <1>5, <1>8
  <2> QED BY <1>2, <1>3, <1>6, <1>7, <1>8, <1>10, <1>11, <2>1 DEF Wakes
<1>13. Waking(c)'
  BY <1>2, <1>3, <1>11, <1>12 DEF Waking
<1>14. ~Done(p) /\ ~Done(p)' /\ Member(p, c, x)'
  BY <1>1, <1>2, <1>3, <1>7 DEF Done, Waits, Member
<1> QED BY <1>1, <1>3, <1>13, <1>14, RunKeep

LEMMA RunDynLeave ==
  ASSUME TypeOK, NEW c \in Nat \ {0}, NEW x \in Nat \ {0}, Running(c, x), NEW p \in CPUs, DynLeave(p)
  PROVE  Running(c, x)'
<1> HIDE DEF cpu_online
<1>0. BenchStep(p) /\ Taken(c) /\ Waking(c)
  BY DEF BenchStep, Running
<1>1. /\ Alone(p) /\ MineOnly(p) /\ dyn' = dyn /\ flag' = flag /\ tgt' = tgt /\ k' = k /\ r' = r
      /\ e[p] # dyn.epoch
  BY <1>0, BenchFrame DEF DynLeave, smpVars
<1>2. at[p] = "spin" /\ at'[p] = "next"
  <2>1. Move(p, "spin", "next")
    BY DEF DynLeave
  <2> QED BY <2>1, MoveTo DEF Places, Sites
<1>3. p <= LoadNbrs[c] /\ k[p] = c /\ r[p] + 1 = x /\ x > 1
  BY <1>1, <1>2, PlaceOf
<1>4. ~Done(p) /\ ~Done(p)' /\ Member(p, c, x)'
  BY <1>1, <1>2, <1>3 DEF Done, Waits, Member
<1>5. Waking(c)'
  <2>1. CASE p = 0
    BY <1>0, <1>1, <1>2, <1>3, <2>1, WakingFirst
  <2>2. CASE p # 0
    BY <1>0, <1>1, <1>3, <2>2, WakingMember
  <2> QED BY <2>1, <2>2
<1> QED BY <1>1, <1>3, <1>4, <1>5, RunKeep

\* The flags of CPUs that load are those of the records.
LEMMA FlagUp ==
  ASSUME TypeOK, NEW p \in CPUs
  PROVE  /\ [flag[p] EXCEPT !.flag = @ + 1].flag = flag[p].flag + 1
         /\ [flag[p] EXCEPT !.flag = @ + 1].next = flag[p].next
         /\ [flag[p] EXCEPT !.next = @ + 1].flag = flag[p].flag
         /\ [flag[p] EXCEPT !.next = @ + 1].next = flag[p].next + 1
         /\ flag[p].flag \in Nat /\ flag[p].next \in Nat
BY DEF TypeOK

LEMMA RunMeasure ==
  ASSUME TypeOK, NEW c \in Nat \ {0}, NEW x \in Nat \ {0}, Running(c, x), NEW p \in CPUs, Measure(p)
  PROVE  Running(c, x)'
<1> HIDE DEF cpu_online
<1>0. BenchStep(p) /\ Taken(c) /\ Waking(c) /\ 0 \in CPUs
  BY CpuFacts DEF BenchStep, Running
<1>1. Alone(p) /\ MineOnly(p) /\ dyn' = dyn /\ tgt' = tgt /\ k' = k /\ r' = r /\ p = 0
  BY <1>0, BenchFrame DEF Measure, smpVars
<1>2. at[p] = "load" /\ at'[p] = "dyn"
  <2>1. Move(p, "load", "dyn")
    BY DEF Measure
  <2> QED BY <2>1, MoveTo DEF Places, Sites
<1>3. p <= LoadNbrs[c] /\ k[p] = c /\ r[p] = x /\ x <= Final(c)
  BY <1>2, PlaceOf
<1>4. \A q \in CPUs : q # p => /\ Member(q, c, x)' <=> Member(q, c, x)
                               /\ Sleeper(q, c)' <=> Sleeper(q, c)
                               /\ Waits(q)' <=> Waits(q)
                               /\ Done(q)' <=> Done(q)
  BY <1>1, Neighbours
<1>5. ~Done(p) /\ Done(p)' /\ ~Waits(p) /\ ~Waits(p)' /\ Member(p, c, x)'
  <2>1. Final(c)' = Final(c)
    BY DEF Final
  <2> QED BY <1>1, <1>2, <1>3, <2>1 DEF Done, Waits, Member
<1>6. Waiters' = Waiters
  BY <1>4, <1>5 DEF Waiters
<1>7. \A q \in CPUs : ~Done(q) /\ flag[q].flag = flag[q].next
  <2>1. \A q \in CPUs : ~Done(q)
    BY <1>1, <1>5 DEF Running, Signalled
  <2>2. \A q \in CPUs : flag[q].flag = flag[q].next + 0
    BY <1>1, <1>5 DEF Running, Signalled
  <2> QED BY <2>1, <2>2, FlagUp
<1>8. Signalled(c)'
  <2>1. flag' = [u \in CPUs |-> IF u \in 1..LoadNbrs[c] THEN [flag[u] EXCEPT !.flag = @ + 1] ELSE flag[u]]
    BY <1>3 DEF Measure, Load
  <2>2. ~(0 \in 1..LoadNbrs[c])
    OBVIOUS
  <2>3. \A q \in CPUs : q \in 1..LoadNbrs[c] => ~Done(q)'
    BY <1>1, <1>4, <1>7, <2>2
  <2>4. Done(0)'
    BY <1>1, <1>5
  <2>5. \A q \in CPUs : flag'[q].flag = flag'[q].next + IF q \in 1..LoadNbrs[c] THEN 1 ELSE 0
    <3> SUFFICES ASSUME NEW q \in CPUs
                 PROVE  flag'[q].flag = flag'[q].next + IF q \in 1..LoadNbrs[c] THEN 1 ELSE 0
      OBVIOUS
    <3>1. CASE q \in 1..LoadNbrs[c]
      BY <1>7, <2>1, <3>1, FlagUp
    <3>2. CASE ~(q \in 1..LoadNbrs[c])
      BY <1>7, <2>1, <3>2, FlagUp
    <3> QED BY <3>1, <3>2
  <2> QED BY <2>3, <2>4, <2>5 DEF Signalled
<1>9. Waking(c)'
  BY <1>0, <1>1, <1>2, <1>3, WakingFirst
<1>10. \A q \in CPUs : IF q <= LoadNbrs[c] THEN Member(q, c, x)' ELSE Sleeper(q, c)'
  BY <1>3, <1>4, <1>5 DEF Running
<1> QED BY <1>1, <1>6, <1>8, <1>9, <1>10 DEF Running, Taken, Final

LEMMA RunLoadDone ==
  ASSUME TypeOK, NEW c \in Nat \ {0}, NEW x \in Nat \ {0}, Running(c, x), NEW p \in CPUs, LoadDone(p)
  PROVE  Running(c, x)'
<1> HIDE DEF cpu_online
<1>0. BenchStep(p) /\ Taken(c) /\ Waking(c) /\ 0 \in CPUs /\ LoadNbrs[c] \in Nat /\ p \in Nat
  BY LoadFacts, CpuFacts DEF BenchStep, Running
<1>1. /\ Alone(p) /\ MineOnly(p) /\ dyn' = dyn /\ tgt' = tgt /\ k' = k /\ r' = r /\ p # 0
      /\ ~(flag[p].flag < flag[p].next + 1) /\ flag' = [flag EXCEPT ![p].next = @ + 1]
  BY <1>0, BenchFrame DEF LoadDone, smpVars
<1>2. at[p] = "load" /\ at'[p] = "dyn"
  <2>1. Move(p, "load", "dyn")
    BY DEF LoadDone
  <2> QED BY <2>1, MoveTo DEF Places, Sites
<1>3. p <= LoadNbrs[c] /\ k[p] = c /\ r[p] = x /\ x <= Final(c)
  BY <1>2, PlaceOf
<1>4. \A q \in CPUs : q # p => /\ Member(q, c, x)' <=> Member(q, c, x)
                               /\ Sleeper(q, c)' <=> Sleeper(q, c)
                               /\ Waits(q)' <=> Waits(q)
                               /\ Done(q)' <=> Done(q)
  BY <1>1, Neighbours
<1>5. ~Done(p) /\ Done(p)' /\ ~Waits(p) /\ ~Waits(p)' /\ Member(p, c, x)'
  <2>1. Final(c)' = Final(c)
    BY DEF Final
  <2> QED BY <1>1, <1>2, <1>3, <2>1 DEF Done, Waits, Member
<1>6. Waiters' = Waiters
  BY <1>4, <1>5 DEF Waiters
<1>7. p \in 1..LoadNbrs[c]
  BY <1>0, <1>1, <1>3
<1>8. \A q \in CPUs : flag[q].flag = flag[q].next + (IF q \in 1..LoadNbrs[c] /\ Done(0) /\ ~Done(q) THEN 1 ELSE 0)
  BY DEF Running, Signalled
<1>9. Done(0) /\ Done(0)' /\ flag[p].flag = flag[p].next + 1
  <2>1. CASE Done(0)
    <3>1. flag[p].flag = flag[p].next + 1
      BY <1>5, <1>7, <1>8, <2>1
    <3> QED BY <1>0, <1>1, <1>4, <2>1, <3>1
  <2>2. CASE ~Done(0)
    <3>1. flag[p].flag = flag[p].next + 0
      BY <1>8, <2>2
    <3> QED BY <1>1, <3>1, FlagUp
  <2> QED BY <2>1, <2>2
<1>10. Signalled(c)'
  <2>1. flag'[p].flag = flag'[p].next
    <3>1. flag' = [flag EXCEPT ![p] = [flag[p] EXCEPT !.next = @ + 1]]
      BY <1>1
    <3>2. flag'[p] = [flag[p] EXCEPT !.next = @ + 1]
      BY <3>1 DEF TypeOK
    <3> QED BY <1>9, <3>2, FlagUp
  <2>2. \A q \in CPUs : q # p => flag'[q] = flag[q]
    BY <1>1 DEF TypeOK
  <2>3. flag'[p].flag = flag'[p].next + 0
    <3>1. flag'[p].next \in Nat
      BY <1>1, FlagUp DEF TypeOK
    <3> QED BY <2>1, <3>1
  <2>4. \A q \in CPUs : flag'[q].flag = flag'[q].next + IF q \in 1..LoadNbrs[c] /\ Done(0)' /\ ~Done(q)' THEN 1 ELSE 0
    BY <1>4, <1>5, <1>8, <1>9, <2>2, <2>3
  <2> QED BY <1>9, <2>4 DEF Signalled
<1>11. Waking(c)'
  BY <1>0, <1>1, <1>3, WakingMember
<1>12. \A q \in CPUs : IF q <= LoadNbrs[c] THEN Member(q, c, x)' ELSE Sleeper(q, c)'
  BY <1>3, <1>4, <1>5 DEF Running
<1> QED BY <1>1, <1>6, <1>10, <1>11, <1>12 DEF Running, Taken, Final

\* The number of those who take part.
LEMMA AllWait ==
  ASSUME NEW m \in Nat, NEW p \in 0..m, NEW W \in SUBSET ((0..m) \ {p}), Cardinality(W) = m
  PROVE  W = (0..m) \ {p}
<1>1. IsFiniteSet(0..m) /\ Cardinality(0..m) = m + 1
  BY FS_Interval
<1>2. IsFiniteSet((0..m) \ {p}) /\ Cardinality((0..m) \ {p}) = Cardinality(0..m) - 1
  BY <1>1, FS_RemoveElement
<1>3. Cardinality((0..m) \ {p}) = m
  BY <1>1, <1>2
<1> QED BY <1>2, <1>3, FS_Subset

LEMMA RunDynArrive ==
  ASSUME TypeOK, NEW c \in Nat \ {0}, NEW x \in Nat \ {0}, Running(c, x), NEW p \in CPUs, DynArrive(p)
  PROVE  Running(c, x)' \/ Running(c, x + 1)'
<1> HIDE DEF cpu_online
<1>0. BenchStep(p) /\ Taken(c) /\ Waking(c) /\ 0 \in CPUs /\ LoadNbrs[c] \in Nat /\ p \in Nat
      /\ LoadNbrs[c] < cpu_online /\ Final(c) \in Nat
  BY LoadFacts, CpuFacts DEF BenchStep, Running
<1>1. Alone(p) /\ MineOnly(p) /\ flag' = flag /\ tgt' = tgt /\ k' = k /\ r' = r
  BY <1>0, BenchFrame DEF DynArrive, smpVars
<1>2. at[p] = "dyn"
  BY DEF DynArrive, Move
<1>3. p <= LoadNbrs[c] /\ k[p] = c /\ r[p] = x /\ x <= Final(c)
  BY <1>2, PlaceOf
<1>4. Done(p) /\ Done(0) /\ ~Waits(p) /\ p \notin Waiters
  BY <1>2 DEF Done, Waits, Waiters, Running, Signalled
<1>5. dyn.max = LoadNbrs[c] + 1 /\ dyn.cnt = Cardinality(Waiters) /\ dyn.cnt \in Nat
  BY DEF Running, TypeOK
<1>6. IsFiniteSet(Waiters) /\ Waiters \subseteq CPUs
  BY CpuFacts, FS_Subset DEF Waiters
<1>7. \A q \in CPUs : Waits(q) => q <= LoadNbrs[c]
  BY PlaceOf
<1>f. Final(c)' = Final(c)
  BY DEF Final
<1>8. CASE dyn.cnt + 1 = dyn.max
  <2>1. /\ Move(p, "dyn", "next") /\ e' = [e EXCEPT ![p] = dyn.epoch]
        /\ dyn' = [dyn EXCEPT !.cnt = 0, !.epoch = (dyn.epoch + 1) % EpochMod]
    BY <1>8 DEF DynArrive
  <2>2. at'[p] = "next" /\ dyn'.cnt = 0 /\ dyn'.max = dyn.max /\ dyn'.epoch = (dyn.epoch + 1) % EpochMod
    BY <2>1, MoveTo DEF Places, Sites, TypeOK
  <2>3. dyn'.epoch # dyn.epoch
    BY <2>2, NextEpoch DEF TypeOK
  <2>4. \A q \in CPUs : q <= LoadNbrs[c] /\ q # p => Waits(q)
    <3>1. Waiters \subseteq (0..LoadNbrs[c]) \ {p}
      <4> SUFFICES ASSUME NEW q \in Waiters
                   PROVE  q \in (0..LoadNbrs[c]) \ {p}
        OBVIOUS
      <4>1. q \in Nat /\ q <= LoadNbrs[c] /\ q # p
        BY <1>4, <1>6, <1>7, CpuFacts DEF Waiters
      <4> QED BY <1>0, <4>1
    <3>2. Cardinality(Waiters) = LoadNbrs[c]
      BY <1>0, <1>5, <1>8
    <3>3. p \in 0..LoadNbrs[c]
      BY <1>0, <1>3
    <3>4. Waiters = (0..LoadNbrs[c]) \ {p}
      BY <1>0, <3>1, <3>2, <3>3, AllWait
    <3> QED BY <1>0, <3>4, CpuFacts DEF Waiters
  <2>5. \A q \in CPUs : q <= LoadNbrs[c] /\ q # p =>
          /\ at'[q] = "spin" /\ k'[q] = c /\ r'[q] = x /\ e'[q] # dyn'.epoch
    BY <1>1, <2>3, <2>4, PlaceOf DEF Waits, Alone, MineOnly
  <2>6. \A q \in CPUs : ~(q <= LoadNbrs[c]) => at'[q] \notin {"dyn", "spin"}
    BY <1>1, <1>3 DEF Running, Sleeper, Onto, Alone
  <2>7. \A q \in CPUs : ~Done(q)' /\ ~Waits(q)'
    BY <2>2, <2>5, <2>6 DEF Done, Waits
  <2>8. \A q \in CPUs : q <= LoadNbrs[c] => Member(q, c, x + 1)'
    <3>1. x + 1 > 1
      OBVIOUS
    <3> QED BY <1>1, <1>3, <2>2, <2>5, <3>1 DEF Member
  <2>9. \A q \in CPUs : ~(q <= LoadNbrs[c]) => Sleeper(q, c)'
    <3>1. \A q \in CPUs : ~(q <= LoadNbrs[c]) => Sleeper(q, c) /\ at'[q] = at[q] /\ k'[q] = k[q]
      BY <1>1, <1>3 DEF Running, Alone
    <3> QED BY <3>1 DEF Sleeper, Onto, Taken
  <2>10. Waiters' = {}
    BY <2>7 DEF Waiters
  <2>11. Signalled(c)'
    <3>1. \A q \in CPUs : flag[q].flag = flag[q].next + 0
      <4>1. \A q \in CPUs : ~(q \in 1..LoadNbrs[c] /\ Done(0) /\ ~Done(q))
        BY <1>4, <2>4 DEF Done
      <4> QED BY <4>1 DEF Running, Signalled
    <3> QED BY <1>0, <1>1, <2>7, <3>1 DEF Signalled
  <2>12. Waking(c)'
    <3>1. at[0] \notin {"wake", "waking"} /\ k[0] = c
      <4>1. at[0] \in {"dyn", "spin"}
        BY <1>4 DEF Done, Waits
      <4> QED BY <1>0, <1>4, <4>1, PlaceOf DEF Done
    <3>2. CASE p = 0
      BY <1>0, <1>1, <2>2, <3>1, <3>2, WakingFirst
    <3>3. CASE p # 0
      BY <1>0, <1>1, <1>3, <3>3, WakingMember
    <3> QED BY <3>2, <3>3
  <2>13. x + 1 <= Final(c) + 1
    BY <1>0, <1>3
  <2>14. Cardinality(Waiters') = 0
    BY <2>10, FS_EmptySet
  <2>15. Running(c, x + 1)'
    <3>1. \A q \in CPUs : IF q <= LoadNbrs[c] THEN Member(q, c, x + 1)' ELSE Sleeper(q, c)'
      BY <2>8, <2>9
    <3> QED BY <1>0, <1>5, <1>f, <2>2, <2>11, <2>12, <2>13, <2>14, <3>1 DEF Running, Taken
  <2> QED BY <2>15
<1>9. CASE ~(dyn.cnt + 1 = dyn.max)
  <2>1. /\ Move(p, "dyn", "spin") /\ e' = [e EXCEPT ![p] = dyn.epoch]
        /\ dyn' = [dyn EXCEPT !.cnt = dyn.cnt + 1]
    BY <1>9 DEF DynArrive
  <2>2. at'[p] = "spin" /\ e'[p] = dyn.epoch /\ dyn'.cnt = dyn.cnt + 1 /\ dyn'.max = dyn.max
        /\ dyn'.epoch = dyn.epoch
    BY <2>1, MoveTo DEF Places, Sites, TypeOK
  <2>3. Waits(p)' /\ Done(p)' /\ Member(p, c, x)'
    BY <1>1, <1>3, <1>f, <2>2 DEF Waits, Done, Member
  <2>4. \A q \in CPUs : q # p => /\ Member(q, c, x)' <=> Member(q, c, x)
                                 /\ Sleeper(q, c)' <=> Sleeper(q, c)
                                 /\ Waits(q)' <=> Waits(q)
                                 /\ Done(q)' <=> Done(q)
    BY <1>1, <2>2, Neighbours
  <2>5. \A q \in CPUs : Done(q)' <=> Done(q)
    BY <1>4, <2>3, <2>4
  <2>6. Waiters' = Waiters \cup {p}
    BY <2>3, <2>4 DEF Waiters
  <2>7. Cardinality(Waiters') = Cardinality(Waiters) + 1
    BY <1>4, <1>6, <2>6, FS_AddElement
  <2>8. Signalled(c)'
    BY <1>0, <1>1, <2>5 DEF Running, Signalled
  <2>9. Waking(c)'
    <3>1. CASE p = 0
      BY <1>0, <1>1, <1>2, <1>3, <2>2, <3>1, WakingFirst
    <3>2. CASE p # 0
      BY <1>0, <1>1, <1>3, <3>2, WakingMember
    <3> QED BY <3>1, <3>2
  <2>10. \A q \in CPUs : IF q <= LoadNbrs[c] THEN Member(q, c, x)' ELSE Sleeper(q, c)'
    BY <1>3, <2>3, <2>4 DEF Running
  <2>11. dyn'.cnt < dyn'.max
    <3>1. dyn.cnt < dyn.max /\ dyn.cnt \in Nat /\ dyn.max \in Nat
      BY <1>0 DEF Running, TypeOK
    <3> QED BY <1>9, <2>2, <3>1
  <2> QED BY <1>5, <1>f, <2>2, <2>7, <2>8, <2>9, <2>10, <2>11 DEF Running, Taken
<1> QED BY <1>8, <1>9

\* A step of smp_halt() or smp_wakeup() concerns the waking up only.
LEMMA RunSmp ==
  ASSUME TypeOK, Locals, NEW c \in Nat \ {0}, NEW x \in Nat \ {0}, Running(c, x), NEW p \in CPUs,
         SmpStep(p) \/ Interrupt(p), UNCHANGED benchVars
  PROVE  Running(c, x)' /\ Locals'
<1> HIDE DEF cpu_online
<1>0. Taken(c) /\ Waking(c) /\ 0 \in CPUs /\ Local(p) /\ at' = at /\ k' = k
  BY CpuFacts DEF Running, Locals, benchVars
<1>1. Waking(c)' => Running(c, x)'
  <2>1. UNCHANGED <<at, k, r, dyn, e, flag>>
    BY DEF benchVars
  <2>2. /\ Waiters' = Waiters
        /\ \A q \in CPUs : (Done(q)' <=> Done(q)) /\ (Member(q, c, x)' <=> Member(q, c, x))
                           /\ (Sleeper(q, c)' <=> Sleeper(q, c))
    BY <2>1 DEF Waiters, Waits, Done, Member, Sleeper, Onto, Taken, Final
  <2>3. Signalled(c)' <=> Signalled(c)
    BY <1>0, <2>1, <2>2 DEF Signalled
  <2> QED BY <2>1, <2>2, <2>3 DEF Running, Taken, Final
<1>2. CASE HaltStep(p) \/ Interrupt(p)
  <2>1. Halting(p)
    BY <1>0, <1>2, HaltLocal, InterruptLocal
  <2>2. ~(p <= LoadNbrs[c]) /\ p # 0
    <3>1. ~(p <= LoadNbrs[c])
      BY <2>1, PlaceOf DEF Halting
    <3> QED BY <1>0, <3>1, LoadFacts
  <2>3. Alone(p) /\ ~Awake(p)
    BY <1>0, <2>1 DEF Halting, Alone, Awake, InHalt
  <2>4. Waking(c)'
    BY <1>0, <2>1, <2>2, <2>3, WakingBy DEF Halting
  <2>5. Locals'
    BY <2>1, <2>3, Frame DEF Locals, Halting
  <2> QED BY <1>1, <2>4, <2>5
<1>3. CASE WakeStep(p)
  <2>1. pc[p] \in InWakeup
    BY <1>3 DEF WakeStep, WakeWait, WakeLoad, WakeStore, WakeTest, SendIpi, Go, InWakeup
  <2>2. at[p] = "waking"
    BY <1>0, <2>1, PcOf
  <2>3. p = 0 /\ k[0] = c /\ c # c + 1
    BY <2>2, PlaceOf
  <2>4. Wakes(0, Above(c)) /\ tgt[0] > LoadNbrs[c]
    BY <1>0, <2>2, <2>3 DEF Waking
  <2>5. PICK S \in SUBSET CPUs : S = Above(c) /\ 0 \notin S
    BY <1>0, LoadFacts
  <2>6. Wakes(0, S)' /\ Locals' /\ tgt' = tgt
    BY <1>0, <1>3, <2>3, <2>4, <2>5, WakesSmp
  <2>7. Above(c)' = Above(c)
    BY DEF Above
  <2>8. Wakes(0, Above(c))'
    BY <2>5, <2>6, <2>7 DEF Wakes
  <2>9. Waking(c)'
    BY <1>0, <2>2, <2>3, <2>4, <2>6, <2>8 DEF Waking
  <2> QED BY <1>1, <2>6, <2>9
<1> QED BY <1>2, <1>3 DEF SmpStep

\* Every step of the program text keeps Locals.
LEMMA BenchEnters ==
  ASSUME TypeOK, Locals, NEW p \in CPUs, BenchStep(p)
  PROVE  Locals'
<1> HIDE DEF cpu_online
<1>m. \A from : \A to \in Places : Move(p, from, to) => at'[p] = to /\ pc[p] = "run"
  BY MoveTo
<1>l. {"init", "pick", "max", "go", "halt", "load", "dyn", "spin", "next", "wake", "waking", "bar1", "bar2",
       "final"} \subseteq Places
  BY DEF Places, Sites
<1>1. CASE Start(p) \/ WakeNext(p)
  <2>1. \/ Move(p, "go", "halt") /\ pc' = [pc EXCEPT ![p] = "h_load"]
        \/ Move(p, "go", "load") /\ pc' = pc
        \/ Move(p, "wake", "waking") /\ pc' = [pc EXCEPT ![p] = "w_wait"]
        \/ Move(p, "wake", "pick") /\ pc' = pc
    BY <1>1 DEF Start, WakeNext
  <2>2. \/ at'[p] = "halt" /\ pc'[p] = "h_load"
        \/ at'[p] \in {"load", "pick"} /\ pc'[p] = "run"
        \/ at'[p] = "waking" /\ pc'[p] = "w_wait"
    BY <1>m, <1>l, <2>1 DEF TypeOK
  <2> QED BY <2>2, BenchLocals
<1>2. CASE ~(Start(p) \/ WakeNext(p))
  <2>1. \E from : \E to \in {"pick", "bar1", "final", "bar2", "dyn", "spin", "next", "load", "wake"} :
          Move(p, from, to)
    BY <1>2 DEF BenchStep, InitFlags, Pick, SetMax, Woken, Measure, LoadDone, DynArrive, DynLeave,
       NextRange, WakeDone
  <2>2. pc' = pc
    BY <1>2 DEF BenchStep, InitFlags, Pick, SetMax, Woken, Measure, LoadDone, DynArrive, DynLeave,
       NextRange, WakeDone, smpVars
  <2>3. at'[p] \in {"pick", "bar1", "final", "bar2", "dyn", "spin", "next", "load", "wake"} /\ pc'[p] = "run"
    BY <1>m, <1>l, <2>1, <2>2
  <2> QED BY <2>3, BenchLocals
<1> QED BY <1>1, <1>2

LEMMA RunBench ==
  ASSUME TypeOK, NEW c \in Nat \ {0}, NEW x \in Nat \ {0}, Running(c, x), NEW p \in CPUs, BenchStep(p)
  PROVE  TypeOK' /\ (Running(c, x)' \/ Running(c, x + 1)')
<1> HIDE DEF cpu_online
<1>1. ~InitFlags(p) /\ ~SetMax(p)
  <2>1. at[p] \notin {"init", "max"}
    BY PlaceOf
  <2> QED BY <2>1 DEF InitFlags, SetMax, Move
<1>2. CASE Pick(p)
  BY <1>2, RunPick, BenchStepType
<1>3. CASE ~Pick(p)
  <2>1. at[p] \in {"go", "halt", "load", "dyn", "spin", "next", "wake", "waking"}
    BY <1>1, <1>3 DEF BenchStep, Start, Woken, Measure, LoadDone, DynArrive, DynLeave, NextRange,
       WakeNext, WakeDone, Move
  <2>2. k[p] = c
    BY <2>1, PlaceOf DEF Waits
  <2>3. LoadNbrs[k[p]] \in Nat
    BY <2>2, LoadFacts DEF Running
  <2>4. TypeOK'
    BY <2>3, BenchStepType
  <2> QED BY <1>1, <1>3, <2>4, RunStart, RunWoken, RunMeasure, RunLoadDone, RunDynArrive, RunDynLeave,
         RunNext, RunWakeNext, RunWakeDone DEF BenchStep
<1> QED BY <1>2, <1>3

LEMMA BeginStep ==
  ASSUME TypeOK, Locals, Beginning, NEW p \in CPUs, Step(p) \/ Deliver(p)
  PROVE  TypeOK' /\ Beginning'
<1> HIDE DEF cpu_online
<1>0. /\ at[p] \in {"init", "pick", "bar1", "final"} /\ pc[p] = "run"
      /\ \A q \in CPUs : at[q] = "init" \/ (Onto(q, 1) /\ flag = [u \in CPUs |-> NoFlag])
  <2>1. at[p] = "init" \/ Onto(p, 1)
    BY DEF Beginning
  <2>2. at[p] \in {"init", "pick", "bar1", "final"}
    BY <2>1 DEF Onto
  <2> QED BY <2>2 DEF Beginning, Locals, Local
<1>1. InitFlags(p) \/ Pick(p)
  BY <1>0 DEF Step, Deliver, SetMax, Start, Woken, Measure, LoadDone, DynArrive, DynLeave, NextRange,
     WakeNext, WakeDone, Move, SmpStep, HaltStep, HaltLoad, HaltStore, HaltTest, Sleep, ClearLoad, ClearStore,
     WakeStep, WakeWait, WakeLoad, WakeStore, WakeTest, SendIpi, Interrupt, Go
<1>2. BenchStep(p)
  BY <1>1 DEF BenchStep
<1>3. TypeOK' /\ Alone(p) /\ MineOnly(p)
  BY <1>1, <1>2, BenchStepType, BenchFrame
<1>4. CASE InitFlags(p)
  <2>1. Move(p, "init", "pick") /\ flag' = [u \in CPUs |-> NoFlag] /\ k' = [k EXCEPT ![p] = 1] /\ dyn' = dyn
    BY <1>4 DEF InitFlags
  <2>2. at'[p] = "pick" /\ k'[p] = 1
    BY <2>1, MoveTo DEF Places, Sites, TypeOK
  <2>3. Onto(p, 1)'
    BY <2>2 DEF Onto
  <2>4. \A q \in CPUs : q # p => at'[q] = at[q] /\ (Onto(q, 1)' <=> Onto(q, 1))
    BY <1>3 DEF Alone, MineOnly, Onto, Taken
  <2> QED BY <1>0, <1>3, <2>1, <2>3, <2>4 DEF Beginning
<1>5. CASE Pick(p)
  <2>1. Move(p, "pick", IF Taken(k[p]) THEN "bar1" ELSE "final") /\ flag' = flag /\ k' = k /\ dyn' = dyn
    BY <1>5 DEF Pick, Taken, Load
  <2>2. at[p] = "pick" /\ at'[p] = IF Taken(k[p]) THEN "bar1" ELSE "final"
    BY <2>1, MoveTo DEF Places, Sites
  <2>3. Onto(p, 1)' /\ flag = [u \in CPUs |-> NoFlag]
    BY <1>0, <2>1, <2>2 DEF Onto, Taken
  <2>4. \A q \in CPUs : q # p => at'[q] = at[q] /\ (Onto(q, 1)' <=> Onto(q, 1))
    BY <1>3 DEF Alone, MineOnly, Onto, Taken
  <2> QED BY <1>0, <1>3, <2>1, <2>3, <2>4 DEF Beginning
<1> QED BY <1>1, <1>4, <1>5

LEMMA SettingStep ==
  ASSUME TypeOK, Locals, NEW c \in Nat \ {0}, Setting(c), NEW p \in CPUs, Step(p) \/ Deliver(p)
  PROVE  TypeOK' /\ Setting(c)'
<1> HIDE DEF cpu_online
<1>0. /\ at[p] \in {"max", "bar2"} /\ pc[p] = "run" /\ k[p] = c /\ LoadNbrs[c] \in Nat /\ 0 \in CPUs
  BY LoadFacts, CpuFacts DEF Setting, Locals, Local
<1>1. SetMax(p)
  BY <1>0 DEF Step, Deliver, InitFlags, Pick, Start, Woken, Measure, LoadDone, DynArrive, DynLeave, NextRange,
     WakeNext, WakeDone, Move, SmpStep, HaltStep, HaltLoad, HaltStore, HaltTest, Sleep, ClearLoad, ClearStore,
     WakeStep, WakeWait, WakeLoad, WakeStore, WakeTest, SendIpi, Interrupt, Go
<1>2. BenchStep(p)
  BY <1>1 DEF BenchStep
<1>3. TypeOK' /\ Alone(p) /\ MineOnly(p)
  BY <1>0, <1>1, <1>2, BenchStepType, BenchFrame
<1>4. Move(p, "max", "bar2") /\ flag' = flag /\ k' = k
      /\ dyn' = IF p = 0 THEN [dyn EXCEPT !.max = LoadNbrs[c] + 1] ELSE dyn
  BY <1>0, <1>1 DEF SetMax, Load
<1>5. at'[p] = "bar2"
  BY <1>4, MoveTo DEF Places, Sites
<1>6. dyn'.cnt = dyn.cnt /\ (p = 0 => dyn'.max = LoadNbrs[c] + 1) /\ (p # 0 => dyn' = dyn /\ at'[0] = at[0])
  BY <1>0, <1>3, <1>4 DEF TypeOK, Alone
<1>7. \A q \in CPUs : at'[q] \in {"max", "bar2"} /\ k'[q] = c /\ flag'[q].flag = flag'[q].next
  BY <1>3, <1>4, <1>5 DEF Setting, Alone
<1>8. at'[0] = "bar2" => dyn'.max = LoadNbrs[c] + 1
  BY <1>6 DEF Setting
<1> QED BY <1>3, <1>6, <1>7, <1>8 DEF Setting, Taken

\* Where all go on to from the global barrier.
LEMMA MeetOnto ==
  ASSUME TypeOK, NEW c \in Nat \ {0}, dyn.cnt = 0, GlobalBarrier,
         \A p \in CPUs : Onto(p, c) /\ flag[p].flag = flag[p].next
  PROVE  Setting(c)' \/ Beginning'
<1> HIDE DEF cpu_online
<1>1. \A p \in CPUs : at[p] = IF Taken(c) THEN "bar1" ELSE "final"
  BY DEF GlobalBarrier, Onto, Sites
<1>2. /\ UNCHANGED <<k, dyn, flag>>
      /\ at' = [p \in CPUs |-> CASE at[p] = "bar1" -> "max" [] at[p] = "bar2" -> "go" [] at[p] = "final" -> "init"]
  BY DEF GlobalBarrier
<1>3. CASE Taken(c)
  <2>1. \A p \in CPUs : at'[p] = "max"
    BY <1>1, <1>2, <1>3
  <2>2. at'[0] = "max"
    BY <2>1, CpuFacts
  <2> QED BY <1>2, <1>3, <2>1, <2>2 DEF Setting, Taken, Onto
<1>4. CASE ~Taken(c)
  <2>1. \A p \in CPUs : at'[p] = "init"
    BY <1>1, <1>2, <1>4
  <2> QED BY <1>2, <2>1 DEF Beginning
<1> QED BY <1>3, <1>4

LEMMA MeetStep ==
  ASSUME IInv, GlobalBarrier
  PROVE  IInv'
<1> HIDE DEF cpu_online
<1>0. /\ UNCHANGED <<k, r, dyn, e, flag, flags, pend, pc, old, tgt>>
      /\ \A p \in CPUs : pc[p] = "run" /\ at[p] \in Sites
      /\ at' = [p \in CPUs |-> CASE at[p] = "bar1" -> "max" [] at[p] = "bar2" -> "go" [] at[p] = "final" -> "init"]
  BY DEF GlobalBarrier, smpVars
<1>1. \A p \in CPUs : at'[p] \in {"max", "go", "init"}
  BY <1>0 DEF Sites
<1>2. TypeOK'
  <2>1. at' \in [CPUs -> Places]
    BY <1>0, <1>1 DEF Places
  <2> QED BY <1>0, <2>1 DEF IInv, TypeOK
<1>3. Locals'
  <2> SUFFICES ASSUME NEW p \in CPUs
               PROVE  Local(p)'
    BY DEF Locals
  <2>1. at'[p] \notin {"halt", "waking"} /\ pc'[p] = "run" /\ flags'[p] = flags[p]
    BY <1>0, <1>1
  <2>2. flags[p] = {}
    BY <1>0 DEF IInv, Locals, Local
  <2> QED BY <2>1, <2>2 DEF Local, InHalt, InWakeup, InLoop
<1>4. CASE Beginning
  <2>1. dyn.cnt = 0 /\ \A p \in CPUs : Onto(p, 1) /\ flag[p].flag = flag[p].next
    BY <1>0, <1>4 DEF Beginning, Sites, NoFlag
  <2>2. 1 \in Nat \ {0}
    OBVIOUS
  <2>3. Setting(1)' \/ Beginning'
    BY <2>1, <2>2, MeetOnto DEF IInv
  <2> QED BY <1>2, <1>3, <2>2, <2>3 DEF IInv, Phase
<1>5. CASE \E c \in Nat \ {0} : Setting(c)
  <2>1. PICK c \in Nat \ {0} : Setting(c)
    BY <1>5
  <2>2. \A p \in CPUs : at[p] = "bar2" /\ k[p] = c /\ flag[p].flag = flag[p].next
    BY <1>0, <2>1 DEF Setting, Sites
  <2>3. 0 \in CPUs /\ LoadNbrs[c] \in Nat /\ Final(c) \in Nat \ {0} /\ Above(c) \subseteq CPUs
    BY <2>1, LoadFacts, CpuFacts DEF Setting
  <2>4. \A p \in CPUs : at'[p] = "go"
    BY <1>0, <2>2
  <2>5. \A p \in CPUs : ~Waits(p)' /\ ~Done(p)' /\ Unwoken(p)' /\ Member(p, c, 1)' /\ Sleeper(p, c)'
    BY <1>0, <2>2, <2>4 DEF Waits, Done, Unwoken, Member, Sleeper
  <2>6. Waiters' = {} /\ Cardinality(Waiters') = 0
    BY <2>5, FS_EmptySet DEF Waiters
  <2>7. Signalled(c)'
    <3>1. \A p \in CPUs : flag[p].flag = flag[p].next + 0
      BY <2>2 DEF IInv, TypeOK
    <3> QED BY <1>0, <2>3, <2>5, <3>1 DEF Signalled
  <2>8. Waking(c)'
    BY <1>0, <2>2, <2>3, <2>4, <2>5 DEF Waking, Above
  <2>9. dyn.max = LoadNbrs[c] + 1 /\ dyn.cnt = 0 /\ Taken(c)
    BY <2>1, <2>2, <2>3 DEF Setting
  <2>10. 1 <= Final(c) + 1 /\ 1 \in Nat \ {0}
    BY <2>3
  <2>11. dyn.cnt < dyn.max
    BY <2>3, <2>9
  <2>12. Running(c, 1)'
    BY <1>0, <2>5, <2>6, <2>7, <2>8, <2>9, <2>10, <2>11 DEF Running, Taken, Final
  <2> QED BY <1>2, <1>3, <2>10, <2>12 DEF IInv, Phase
<1>6. CASE \E c, x \in Nat \ {0} : Running(c, x)
  <2>1. PICK c \in Nat \ {0}, x \in Nat \ {0} : Running(c, x)
    BY <1>6
  <2>2. \A p \in CPUs : Onto(p, c + 1) /\ ~Done(p) /\ ~Waits(p)
    <3>1. \A p \in CPUs : at[p] \in {"bar1", "final"}
      BY <1>0, <2>1, PlaceOf DEF Sites
    <3> QED BY <2>1, <3>1, PlaceOf DEF Done, Waits
  <2>3. Waiters = {} /\ dyn.cnt = 0
    <3>1. Waiters = {}
      BY <2>2 DEF Waiters
    <3> QED BY <2>1, <3>1, FS_EmptySet DEF Running
  <2>4. \A p \in CPUs : flag[p].flag = flag[p].next
    <3>1. \A p \in CPUs : flag[p].flag = flag[p].next + 0
      BY <2>1, <2>2, CpuFacts DEF Running, Signalled
    <3> QED BY <3>1, FlagUp DEF IInv
  <2>5. c + 1 \in Nat \ {0}
    OBVIOUS
  <2>6. Setting(c + 1)' \/ Beginning'
    BY <2>2, <2>3, <2>4, <2>5, MeetOnto DEF IInv
  <2> QED BY <1>2, <1>3, <2>5, <2>6 DEF IInv, Phase
<1> QED BY <1>4, <1>5, <1>6 DEF IInv, Phase

-----------------------------------------------------------------------------
(* The specification.                                                       *)

LEMMA InitIInv == Init => IInv
<1> HIDE DEF cpu_online
<1> SUFFICES ASSUME Init
             PROVE  IInv
  OBVIOUS
<1>0. Ids = CPUs /\ cpu_online \in Nat
  BY CpuFacts
<1>1. /\ flags = [u \in CPUs |-> {}] /\ pc = [p \in CPUs |-> "run"] /\ old = [p \in CPUs |-> {}]
      /\ tgt = [p \in CPUs |-> 0] /\ at = [p \in CPUs |-> "init"] /\ k = [p \in CPUs |-> 1]
      /\ r = [p \in CPUs |-> 1] /\ dyn = [cnt |-> 0, epoch |-> 0, max |-> cpu_online + 1]
      /\ e = [p \in CPUs |-> 0] /\ flag = [p \in CPUs |-> NoFlag]
  BY <1>0 DEF Init, SmpInit
<1>2. TypeOK
  <2>1. dyn \in [cnt : Nat, epoch : 0..(EpochMod - 1), max : Nat]
    BY <1>0, <1>1, BenchAssumption
  <2>2. at \in [CPUs -> Places] /\ flag \in [CPUs -> [flag : Nat, next : Nat]]
    BY <1>1 DEF Places, NoFlag
  <2> QED BY <1>1, <2>1, <2>2 DEF TypeOK
<1>3. Locals
  BY <1>1 DEF Locals, Local, InHalt, InWakeup, InLoop
<1>4. Beginning
  BY <1>1 DEF Beginning
<1> QED BY <1>2, <1>3, <1>4 DEF IInv, Phase

LEMMA NextIInv == IInv /\ [Next]_vars => IInv'
<1> HIDE DEF cpu_online
<1> SUFFICES ASSUME IInv, [Next]_vars
             PROVE  IInv'
  OBVIOUS
<1>1. CASE GlobalBarrier
  BY <1>1, MeetStep
<1>2. CASE \E p \in CPUs : Step(p) \/ Deliver(p)
  <2>1. PICK p \in CPUs : Step(p) \/ Deliver(p)
    BY <1>2
  <2>2. TypeOK /\ Locals /\ Phase
    BY DEF IInv
  <2>3. \/ BenchStep(p)
        \/ (SmpStep(p) \/ Interrupt(p)) /\ UNCHANGED benchVars
    BY <2>1 DEF Step, Deliver, BenchStep
  <2>4. CASE Beginning
    <3>1. TypeOK' /\ Beginning'
      BY <2>1, <2>2, <2>4, BeginStep
    <3>2. BenchStep(p)
      <4>1. at[p] = "init" \/ Onto(p, 1)
        BY <2>4 DEF Beginning
      <4>2. at[p] \in {"init", "pick", "bar1", "final"}
        BY <4>1 DEF Onto
      <4>3. pc[p] = "run"
        BY <2>2, <4>2 DEF Locals, Local
      <4> QED BY <2>3, <4>3 DEF SmpStep, HaltStep, HaltLoad, HaltStore, HaltTest, Sleep, ClearLoad, ClearStore,
            WakeStep, WakeWait, WakeLoad, WakeStore, WakeTest, SendIpi, Interrupt, Go
    <3>3. Locals'
      BY <2>2, <3>2, BenchEnters
    <3> QED BY <3>1, <3>3 DEF IInv, Phase
  <2>5. CASE \E c \in Nat \ {0} : Setting(c)
    <3>1. PICK c \in Nat \ {0} : Setting(c)
      BY <2>5
    <3>2. TypeOK' /\ Setting(c)'
      BY <2>1, <2>2, <3>1, SettingStep
    <3>3. BenchStep(p)
      <4>1. pc[p] = "run"
        BY <2>2, <3>1 DEF Setting, Locals, Local
      <4> QED BY <2>3, <4>1 DEF SmpStep, HaltStep, HaltLoad, HaltStore, HaltTest, Sleep, ClearLoad, ClearStore,
            WakeStep, WakeWait, WakeLoad, WakeStore, WakeTest, SendIpi, Interrupt, Go
    <3>4. Locals'
      BY <2>2, <3>3, BenchEnters
    <3> QED BY <3>2, <3>4 DEF IInv, Phase
  <2>6. CASE \E c, x \in Nat \ {0} : Running(c, x)
    <3>1. PICK c \in Nat \ {0}, x \in Nat \ {0} : Running(c, x)
      BY <2>6
    <3>2. CASE BenchStep(p)
      <4>1. TypeOK' /\ Locals' /\ (Running(c, x)' \/ Running(c, x + 1)')
        BY <2>2, <3>1, <3>2, RunBench, BenchEnters
      <4>2. x + 1 \in Nat \ {0}
        OBVIOUS
      <4> QED BY <4>1, <4>2 DEF IInv, Phase
    <3>3. CASE (SmpStep(p) \/ Interrupt(p)) /\ UNCHANGED benchVars
      <4>1. TypeOK' /\ Running(c, x)' /\ Locals'
        BY <2>2, <3>1, <3>3, SmpType, RunSmp
      <4> QED BY <4>1 DEF IInv, Phase
    <3> QED BY <2>3, <3>2, <3>3
  <2> QED BY <2>2, <2>4, <2>5, <2>6 DEF Phase
<1>3. CASE UNCHANGED vars
  <2>1. UNCHANGED <<at, k, r, dyn, e, flag, flags, pend, pc, old, tgt>>
    BY <1>3 DEF vars, benchVars, smpVars
  <2>2. TypeOK' /\ Locals'
    BY <2>1 DEF IInv, TypeOK, Locals, Local
  <2>3. Beginning => Beginning'
    BY <2>1 DEF Beginning, Onto, Taken
  <2>4. \A c \in Nat \ {0} : Setting(c) => Setting(c)'
    BY <2>1 DEF Setting, Taken
  <2>5. ASSUME NEW c \in Nat \ {0}, NEW x \in Nat \ {0}, Running(c, x)
        PROVE  Running(c, x)'
    <3>1. /\ Waiters' = Waiters
          /\ \A q \in CPUs : (Done(q)' <=> Done(q)) /\ (Member(q, c, x)' <=> Member(q, c, x))
                             /\ (Sleeper(q, c)' <=> Sleeper(q, c))
                             /\ (Unwoken(q)' <=> Unwoken(q)) /\ (Going(q)' <=> Going(q)) /\ (Awake(q)' <=> Awake(q))
      BY <2>1 DEF Waiters, Waits, Done, Member, Sleeper, Onto, Taken, Final, Unwoken, Going, Awake
    <3>2. Signalled(c)'
      BY <2>1, <2>5, <3>1, CpuFacts DEF Running, Signalled
    <3>3. Waking(c)'
      <4>1. 0 \in CPUs /\ Above(c) \subseteq CPUs /\ Above(c)' = Above(c) /\ cpu_online' = cpu_online
        BY <2>5, LoadFacts, CpuFacts DEF Running, Above, cpu_online
      <4>2. Wakes(0, Above(c)) => Wakes(0, Above(c))'
        BY <2>1, <3>1, <4>1 DEF Wakes
      <4> QED BY <2>1, <2>5, <3>1, <4>1, <4>2 DEF Running, Waking
    <3> QED BY <2>1, <2>5, <3>1, <3>2, <3>3 DEF Running, Taken, Final
  <2> QED BY <2>2, <2>3, <2>4, <2>5 DEF IInv, Phase
<1> QED BY <1>1, <1>2, <1>3 DEF Next

THEOREM BenchInvariant == Spec => []IInv
BY InitIInv, NextIInv, PTL DEF Spec

\* However often the CPUs call bench_worker(), when all of them wait at the global
\* barrier they wait at the same of its three calls, for the same load number: none has
\* overtaken another by an episode, not even one that slept in smp_halt() meanwhile.
THEOREM CallsMeet == Spec => []SameCallSite
<1> HIDE DEF cpu_online
<1>1. IInv => SameCallSite
  <2> SUFFICES ASSUME IInv, \A p \in CPUs : at[p] \in Sites
               PROVE  \E c \in Nat : \E a \in Sites : \A p \in CPUs : at[p] = a /\ k[p] = c
    BY DEF SameCallSite
  <2> DEFINE meet(c) == IF Taken(c) THEN "bar1" ELSE "final"
  <2>o. ASSUME NEW c \in Nat, \A p \in CPUs : Onto(p, c)
        PROVE  meet(c) \in Sites /\ \A p \in CPUs : at[p] = meet(c) /\ k[p] = c
    BY <2>o DEF Onto, Sites
  <2>1. CASE Beginning
    <3>1. \A p \in CPUs : Onto(p, 1)
      BY <2>1 DEF Beginning, Sites
    <3> QED BY <2>o, <3>1
  <2>2. CASE \E c \in Nat \ {0} : Setting(c)
    BY <2>2 DEF Setting, Sites
  <2>3. CASE \E c, x \in Nat \ {0} : Running(c, x)
    <3>1. PICK c \in Nat \ {0}, x \in Nat \ {0} : Running(c, x)
      BY <2>3
    <3>2. \A p \in CPUs : Onto(p, c + 1)
      BY <3>1, PlaceOf DEF Sites
    <3>3. c + 1 \in Nat
      OBVIOUS
    <3> QED BY <2>o, <3>2, <3>3
  <2> QED BY <2>1, <2>2, <2>3 DEF IInv, Phase
<1> QED BY <1>1, BenchInvariant, PTL

\* Who is done with a range runs it.
LEMMA DoneRuns ==
  ASSUME IInv, NEW p \in CPUs, Done(p)
  PROVE  \E c \in Nat \ {0} : \E x \in Nat \ {0} : Running(c, x)
<1>1. at[p] \in {"dyn", "spin"}
  BY DEF Done, Waits
<1>2. ~Beginning
  BY <1>1 DEF Beginning, Onto
<1>3. ~\E c \in Nat \ {0} : Setting(c)
  BY <1>1 DEF Setting
<1> QED BY <1>2, <1>3 DEF IInv, Phase

\* barr_dyn, whose max CPU 0 writes with no lock, always has the max of the load number
\* the CPUs that wait at it work on, they are CPUs 0 .. load_nbr, and they work on the
\* same load range: no CPU is let through early or waits for one that sleeps.
THEOREM DynInStep == Spec => []DynOfThisLoad
<1> HIDE DEF cpu_online
<1>1. IInv => DynOfThisLoad
  <2> SUFFICES ASSUME IInv, NEW p \in CPUs, Done(p)
               PROVE  /\ dyn.max = Load(p) + 1
                      /\ p <= Load(p)
                      /\ \A q \in CPUs : at[q] = "dyn" => k[q] = k[p] /\ r[q] = r[p]
    BY DEF DynOfThisLoad, Done, Waits
  <2>1. PICK c \in Nat \ {0}, x \in Nat \ {0} : Running(c, x)
    BY DoneRuns
  <2>2. \A q \in CPUs : Done(q) => q <= LoadNbrs[c] /\ k[q] = c /\ r[q] = x
    BY <2>1, PlaceOf DEF Done
  <2> QED BY <2>1, <2>2 DEF Running, Load, Done
<1> QED BY <1>1, BenchInvariant, PTL

\* A CPU that waits at barr_dyn has consumed every flag_signal() that was sent to it:
\* none is left over to end its next load before CPU 0 has measured, whichever of the
\* two was first.
THEOREM SignalsUsed == Spec => []SignalUsed
<1> HIDE DEF cpu_online
<1>1. IInv => SignalUsed
  <2> SUFFICES ASSUME IInv, NEW p \in CPUs, Done(p)
               PROVE  flag[p].flag = flag[p].next
    BY DEF SignalUsed, Done, Waits
  <2>1. PICK c \in Nat \ {0}, x \in Nat \ {0} : Running(c, x)
    BY DoneRuns
  <2>2. flag[p].flag = flag[p].next + 0
    BY <2>1 DEF Running, Signalled
  <2> QED BY <2>2, FlagUp DEF IInv
<1> QED BY <1>1, BenchInvariant, PTL

\* Whoever is not where it waits goes on by itself.
Busy(q) == at[q] \in {"go", "load", "dyn", "next"} \/ (at[q] = "spin" /\ e[q] # dyn.epoch)

\* Nobody waits in vain: a CPU that waits at barr_dyn waits for one of those that take
\* part in the same load and has not come yet, a load CPU whose flag is not signalled
\* waits for a CPU 0 that is busy with the same load, and a CPU in
\* smp_halt() whose HALT bit nobody has cleared is still ahead of CPU 0, in its
\* measurement or in its loop of smp_wakeup() calls.
NobodyLeft ==
  /\ \A p \in CPUs : Waits(p) => \E q \in CPUs : q <= Load(p) /\ k[q] = k[p] /\ Busy(q)
  /\ \A p \in CPUs : at[p] = "load" /\ p # 0 /\ flag[p].flag = flag[p].next =>
       k[0] = k[p] /\ Busy(0) /\ at[0] # "dyn"
  /\ \A p \in CPUs : at[p] = "halt" /\ pc[p] # "run" /\ flags[p] # {"HALTED"} =>
       /\ k[0] = k[p] /\ at[0] \notin Sites
       /\ at[0] \in {"wake", "waking"} => tgt[0] <= p
       /\ at[0] = "waking" /\ tgt[0] = p => pc[0] \in {"w_wait", "w_load", "w_store"}

\* As long as somebody waits at barr_dyn, one of the CPUs 0 .. load_nbr is elsewhere.
LEMMA SomebodyComes ==
  ASSUME IInv, NEW p \in CPUs, Waits(p)
  PROVE  \E q \in CPUs : q <= Load(p) /\ k[q] = k[p] /\ Busy(q)
<1> HIDE DEF cpu_online
<1>1. PICK c \in Nat \ {0}, x \in Nat \ {0} : Running(c, x)
  BY DoneRuns DEF Done
<1>2. p <= LoadNbrs[c] /\ k[p] = c /\ r[p] = x /\ x <= Final(c)
  BY <1>1, PlaceOf DEF Waits, IInv
<1>3. LoadNbrs[c] \in Nat /\ LoadNbrs[c] < cpu_online /\ Final(c) \in Nat
  BY <1>1, LoadFacts DEF Running
<1>4. 0..LoadNbrs[c] \subseteq CPUs
  BY <1>3, CpuFacts
<1>5. PICK q \in 0..LoadNbrs[c] : ~Waits(q)
  <2> SUFFICES ASSUME \A q \in 0..LoadNbrs[c] : Waits(q)
               PROVE  FALSE
    OBVIOUS
  <2>1. 0..LoadNbrs[c] \subseteq Waiters
    BY <1>4 DEF Waiters
  <2>2. IsFiniteSet(Waiters)
    BY CpuFacts, FS_Subset DEF Waiters
  <2>3. Cardinality(0..LoadNbrs[c]) <= Cardinality(Waiters)
    BY <2>1, <2>2, FS_Subset
  <2>4. Cardinality(0..LoadNbrs[c]) = LoadNbrs[c] + 1
    <3>1. 0 \in Int /\ LoadNbrs[c] \in Int /\ ~(0 > LoadNbrs[c])
      BY <1>3
    <3>2. Cardinality(0..LoadNbrs[c]) = LoadNbrs[c] - 0 + 1
      BY <3>1, FS_Interval
    <3> QED BY <1>3, <3>2
  <2>5. dyn.cnt = Cardinality(Waiters) /\ dyn.cnt < LoadNbrs[c] + 1 /\ dyn.cnt \in Nat
    BY <1>1 DEF Running, IInv, TypeOK
  <2> QED BY <1>3, <2>3, <2>4, <2>5
<1>6. Member(q, c, x) /\ q \in CPUs /\ q <= LoadNbrs[c]
  BY <1>1, <1>3, <1>4 DEF Running
<1>7. x # Final(c) + 1
  BY <1>2, <1>3
<1>8. k[q] = c /\ Busy(q)
  BY <1>5, <1>6, <1>7 DEF Member, Busy, Done
<1> QED BY <1>2, <1>6, <1>8 DEF Load

\* A load CPU that has no signal yet gets one from CPU 0, which still measures.
LEMMA SignalComes ==
  ASSUME IInv, NEW p \in CPUs, at[p] = "load", p # 0, flag[p].flag = flag[p].next
  PROVE  k[0] = k[p] /\ Busy(0) /\ at[0] # "dyn"
<1> HIDE DEF cpu_online
<1>1. PICK c \in Nat \ {0}, x \in Nat \ {0} : Running(c, x)
  BY DEF IInv, Phase, Beginning, Setting, Onto
<1>2. p <= LoadNbrs[c] /\ k[p] = c /\ r[p] = x /\ x <= Final(c)
  BY <1>1, PlaceOf DEF IInv
<1>3. LoadNbrs[c] \in Nat /\ Final(c) \in Nat /\ 0 \in CPUs /\ p \in Nat
  BY <1>1, LoadFacts, CpuFacts DEF Running
<1>4. p \in 1..LoadNbrs[c] /\ ~Done(p)
  BY <1>2, <1>3 DEF Done, Waits
<1>5. ~Done(0)
  <2> SUFFICES ASSUME Done(0)
               PROVE  FALSE
    OBVIOUS
  <2>1. flag[p].flag = flag[p].next + 1
    BY <1>1, <1>4 DEF Running, Signalled
  <2> QED BY <2>1 DEF IInv, TypeOK
<1>6. Member(0, c, x) /\ x # Final(c) + 1
  BY <1>1, <1>2, <1>3 DEF Running
<1> QED BY <1>2, <1>5, <1>6 DEF Member, Busy, Done

\* A CPU that sleeps in smp_halt() is still to be woken up by CPU 0.
LEMMA WakeupComes ==
  ASSUME IInv, NEW p \in CPUs, at[p] = "halt", pc[p] # "run", flags[p] # {"HALTED"}
  PROVE  /\ k[0] = k[p] /\ at[0] \notin Sites
         /\ at[0] \in {"wake", "waking"} => tgt[0] <= p
         /\ at[0] = "waking" /\ tgt[0] = p => pc[0] \in {"w_wait", "w_load", "w_store"}
<1> HIDE DEF cpu_online
<1>1. PICK c \in Nat \ {0}, x \in Nat \ {0} : Running(c, x)
  BY DEF IInv, Phase, Beginning, Setting, Onto
<1>2. 0 \in CPUs /\ p \in Nat /\ tgt[0] \in Nat /\ LoadNbrs[c] \in Nat /\ 0 <= LoadNbrs[c]
  BY <1>1, CpuFacts, LoadFacts DEF IInv, TypeOK, Running
<1>3. k[p] = c /\ p \in Above(c)
  BY <1>1, <1>2, PlaceOf DEF Above
<1>4. ~Awake(p) /\ ~Going(p)
  BY DEF Awake, Going
<1>5. Waking(c) /\ k[0] \in {c, c + 1} /\ (k[0] = c => at[0] \notin Sites)
  <2>1. Waking(c) /\ Member(0, c, x)
    BY <1>1, <1>2 DEF Running
  <2>2. k[0] \in {c, c + 1}
    BY <2>1 DEF Member, Onto
  <2>3. at[0] \in Sites => k[0] = c + 1
    BY <1>1, <1>2, PlaceOf DEF Onto, Sites
  <2> QED BY <2>1, <2>2, <2>3
<1>6. CASE at[0] \notin {"wake", "waking"}
  BY <1>3, <1>4, <1>5, <1>6 DEF Waking
<1>7. CASE at[0] \in {"wake", "waking"}
  <2>1. k[0] = c /\ Wakes(0, Above(c))
    <3>1. k[0] = c
      BY <1>1, <1>2, <1>7, PlaceOf
    <3> QED BY <1>3, <1>4, <1>5, <1>7, <3>1 DEF Waking
  <2>2. tgt[0] <= p
    BY <1>2, <1>3, <1>4, <2>1 DEF Wakes
  <2>3. at[0] = "waking" => pc[0] \in {"run"} \cup InWakeup
    BY <1>2 DEF IInv, Locals, Local
  <2>4. at[0] = "waking" /\ tgt[0] = p => pc[0] \notin {"run", "w_test", "w_send"}
    BY <1>3, <1>4, <2>1 DEF Wakes
  <2> QED BY <1>3, <1>5, <2>1, <2>2, <2>3, <2>4 DEF InWakeup
<1> QED BY <1>6, <1>7

\* In bench_worker() no CPU waits for a CPU that has gone on without it: whoever waits
\* at barr_dyn, for its flag or in smp_halt(), the CPU that is to let it go still has
\* that ahead of it, in the same load.  This is the safety part of BenchmarkEnds.
THEOREM NobodyStranded == Spec => []NobodyLeft
<1>1. IInv => NobodyLeft
  BY SomebodyComes, SignalComes, WakeupComes DEF NobodyLeft
<1> QED BY <1>1, BenchInvariant, PTL
=============================================================================
