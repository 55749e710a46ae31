----------------------------- MODULE TestsProofs -----------------------------
(* What is proved of the collective regions and the self tests, with the      *)
(* smp_halt() and smp_wakeup() both call: for every number of CPUs, every set *)
(* of masks and every number of rounds.                                       *)
(*                                                                            *)
(* The ids of the CPUs are 0 .. cpu_online-1, as the loops that wake up the   *)
(* others in collective_end() and tests_ipi() take them to be.                *)
EXTENDS Tests, FiniteSetTheorems, TLAPS

Contiguous == CPUs = 0..(cpu_online - 1)

TestPlaces == {"d_first", "t_menu", "t_select", "t_result", "t_barr2", "t_global", "f_enter",
               "f_signal", "f_wait", "m_alloc", "m_barr", "m_work", "m_done", "i_first", "i_self",
               "i_send", "i_hlt", "i_asleep", "i_second", "i_wake", "i_waking", "i_halt",
               "i_last", "p_last", "k_last"}

TypeOK ==
  /\ DOMAIN flags = CPUs /\ flags = [p \in CPUs |-> flags[p]]
  /\ DOMAIN old = CPUs /\ old = [p \in CPUs |-> old[p]]
  /\ pc \in [CPUs -> {"run"} \cup InHalt \cup InWakeup]
  /\ tgt \in [CPUs -> Nat]
  /\ at \in [CPUs -> Places \cup TestPlaces]
  /\ mask \in Masks
  /\ sel \subseteq AllTests /\ menuing \in BOOLEAN
  /\ n \in [CPUs -> Nat] /\ sig \in Nat

-----------------------------------------------------------------------------
(* One CPU: where it is in smp_halt() or smp_wakeup(), and its flags.        *)

HaltPlaces == {"halt", "i_halt"}
WakePlaces == {"waking", "i_waking"}
InLoop == {"h_test", "h_hlt", "h_asleep"}

\* smp_halt() begins and ends with both bits clear, whoever clears them.
Local(p) ==
  /\ at[p] \in HaltPlaces => pc[p] \in {"run"} \cup InHalt
  /\ at[p] \in WakePlaces => pc[p] \in {"run"} \cup InWakeup
  /\ at[p] \notin HaltPlaces \cup WakePlaces => pc[p] = "run"
  /\ pc[p] \in {"run", "h_load", "h_store"} \cup InWakeup => flags[p] = {}
  /\ pc[p] = "h_store" => old[p] = {}
  /\ pc[p] \in InLoop => flags[p] \in {Bits, {"HALTED"}}
  /\ pc[p] \in {"h_cload", "h_cstore"} => flags[p] = {"HALTED"}
  /\ pc[p] = "h_cstore" => old[p] = {"HALTED"}

\* It is not in the loop yet, or its HALT bit is still set ...
Unwoken(p) ==
  \/ at[p] = "call"
  \/ at[p] \in HaltPlaces /\ pc[p] \in {"h_load", "h_store"}
  \/ at[p] \in HaltPlaces /\ pc[p] \in InLoop /\ flags[p] = Bits

\* ... or somebody has cleared that and it is on its way out, or it is out.
Going(p) == at[p] \in HaltPlaces /\ pc[p] \in InLoop \cup {"h_cload", "h_cstore"}
            /\ flags[p] = {"HALTED"}
Awake(p) == at[p] \in {"bar", "i_last"} \/ (at[p] \in HaltPlaces /\ pc[p] = "run")

\* w wakes up the CPUs of S, in the order of their ids.
Wakes(w, S) ==
  /\ tgt[w] <= cpu_online
  /\ at[w] \in WakePlaces => tgt[w] \in S
  /\ pc[w] = "w_store" => old[w] = Bits
  /\ \A p \in S :
       /\ p > tgt[w] => Unwoken(p)
       /\ p < tgt[w] => Awake(p)
       /\ p = tgt[w] =>
            /\ at[w] \notin WakePlaces \/ pc[w] = "w_wait" => Unwoken(p)
            /\ pc[w] \in {"w_load", "w_store"} => Unwoken(p) /\ flags[p] = Bits
            /\ pc[w] \in {"w_test", "w_send"} => Going(p) \/ Awake(p)
            /\ at[w] \in WakePlaces /\ pc[w] = "run" => Awake(p)

-----------------------------------------------------------------------------
(* The collective regions, from one global barrier to the next.             *)

Others == CPUs \ mask

\* The members are through collective_only().
Through == \A p \in mask : at[p] \notin {"call", "try", "own"}

\* No member has tried to lock coll_mutex.
Beginning ==
  /\ coll_mutex = 1 /\ owner = {}
  /\ \A p \in mask : at[p] \in {"call", "try"}
  /\ \A p \in Others : at[p] \in {"call", "halt"} /\ Unwoken(p)

\* The member o has locked it, and is not in collective_end() yet.
Holding(o) ==
  /\ coll_mutex = 0 /\ owner = {o}
  /\ at[o] \in {"own", "work", "end"}
  /\ at[o] # "own" => coll_master = o /\ coll_mask = mask
  /\ \A p \in mask : p # o => at[p] \in {"call", "try", "work", "end", "bar"}
  /\ \A p \in mask : at[p] \in {"end", "bar"} => Through
  /\ \A p \in Others : at[p] \in {"call", "halt"} /\ Unwoken(p)

\* It wakes up the others.
Releasing(o) ==
  /\ coll_mutex = 0 /\ owner = {o} /\ coll_master = o /\ coll_mask = mask
  /\ at[o] \in {"loop", "waking"}
  /\ \A p \in mask : p # o => at[p] \in {"work", "end", "bar"}
  /\ \A p \in Others : at[p] \in {"call", "halt", "bar"}
  /\ Wakes(o, Others)

\* It has unlocked coll_mutex.
Ending(o) ==
  /\ coll_mutex = 1 /\ owner = {} /\ coll_master = o
  /\ at[o] = "bar"
  /\ \A p \in mask : at[p] \in {"work", "end", "bar"}
  /\ \A p \in Others : at[p] \in {"halt", "bar"} /\ Awake(p)

-----------------------------------------------------------------------------
(* The tests, from one global barrier to the next.                          *)

\* All are on the way to the same call of the global barrier.
Meeting(l) == \A p \in CPUs : at[p] = l /\ n[p] = 0

Choosing == \A p \in CPUs : (at[p] = "t_result" \/ (p = 0 /\ at[p] = "t_select")) /\ n[p] = 0

\* tests_barrier(): the barrier of CPUs 0 and 1, and then the global one.
Pairing ==
  /\ \A p \in CPUs : Pair(p) => at[p] = at[0] /\ n[p] = n[0] /\ at[p] \in {"t_barr2", "t_global"}
  /\ \A p \in CPUs : ~Pair(p) => at[p] = "t_global"
  /\ \A p \in CPUs : at[p] = "t_global" => n[p] = 0
Counting(c) == \A p \in CPUs : at[p] = "t_global" /\ n[p] = c

\* tests_flag() and tests_mm(), and on to l, the test that is selected next.
Following ==
  IF "ipi" \in sel THEN "i_first" ELSE IF "printf" \in sel THEN "p_last"
  ELSE IF "keyboard" \in sel THEN "k_last" ELSE IF menuing THEN "t_menu" ELSE "call"

MmPlaces == {"m_barr", "m_work"}
Working(l) ==
  /\ l = Following
  /\ \A p \in CPUs :
       \/ p = 0 /\ at[p] = "f_signal" /\ n[p] \in 0..2
       \/ p = 1 /\ at[p] = "f_wait" /\ n[p] \in 0..2
       \/ p = 0 /\ Pair(p) /\ at[p] = "m_alloc" /\ n[p] = 0
       \/ Pair(p) /\ at[p] = "m_barr" /\ n[p] \in 0..4
       \/ Pair(p) /\ at[p] = "m_work" /\ n[p] \in 1..4
       \/ at[p] \in {"m_done", l} /\ n[p] = 0
  /\ \A p, q \in CPUs : Pair(p) /\ Pair(q) /\ at[p] \in MmPlaces /\ n[p] > 0 =>
       at[q] \in MmPlaces /\ n[q] = n[p]
  /\ \A p \in CPUs : at[p] \in MmPlaces =>
       /\ p = 0 \/ n[p] > 0 => {1, 2} \subseteq shared
       /\ n[p] = 1 /\ at[p] = "m_barr" => Allocated(p) \in shared
       /\ n[p] > 1 => {3, 4} \subseteq shared

\* tests_ipi(): the bare hlt, then smp_halt().
Sending == \A p \in CPUs :
  /\ n[p] = 0
  /\ IF p = 0 THEN at[p] \in {"i_self", "i_send", "i_second"}
              ELSE at[p] \in {"i_hlt", "i_asleep", "i_second"}
Waking ==
  /\ at[0] \in {"i_wake", "i_waking", "i_last"}
  /\ \A p \in CPUs : n[p] = 0 /\ (p # 0 => at[p] \in {"i_halt", "i_last"})
  /\ at[0] # "i_last" => Wakes(0, CPUs \ {0}) /\ tgt[0] > 0
  /\ at[0] = "i_last" => \A p \in CPUs : p # 0 => Awake(p)

-----------------------------------------------------------------------------

InRegions ==
  \/ Beginning
  \/ \E o \in mask : Holding(o) \/ Releasing(o) \/ Ending(o)

Ends == {"i_first", "p_last", "k_last", "t_menu"}

InTest ==
  \/ \E l \in Ends \cup {"d_first", "f_enter", "i_last"} :
       Meeting(l) /\ (l = "d_first" => ~menuing) /\ (l = "t_menu" => menuing)
  \/ Choosing /\ menuing
  \/ Pairing
  \/ \E c \in 1..(Rounds + 1) : Counting(c)
  \/ \E l \in Ends : Working(l)
  \/ Sending
  \/ Waking

Locals == \A p \in CPUs : Local(p)

Regions == InRegions /\ \A p \in CPUs : at[p] \in Places /\ n[p] = 0

Testing ==
  /\ InTest /\ coll_mutex = 1 /\ owner = {}
  /\ ~menuing => sel = AllTests

IInv == TypeOK /\ Locals /\ (Regions \/ Testing)
-----------------------------------------------------------------------------
(* The CPUs, and the order of the tests.                                    *)

LEMMA CpuFacts ==
  ASSUME Contiguous
  PROVE  /\ cpu_online \in Nat /\ cpu_online > 0 /\ Ids = CPUs /\ CPUs \subseteq Nat
         /\ 0 \in CPUs /\ \A p \in CPUs : p < cpu_online
         /\ \A u \in Nat : u < cpu_online => u \in CPUs
         /\ cpu_online >= 2 => 1 \in CPUs
<1>1. cpu_online \in Nat
  BY CPUsAssumption, FS_CardinalityType DEF cpu_online
<1>2. CPUs = 0..(cpu_online - 1)
  BY DEF Contiguous
<1>3. 0 \in CPUs /\ CPUs \subseteq Nat
  BY CPUsAssumption
<1> HIDE DEF cpu_online
<1> QED BY <1>1, <1>2, <1>3 DEF Ids

LEMMA MaskFacts ==
  ASSUME TypeOK
  PROVE  mask \subseteq CPUs /\ mask # {}
BY MasksAssumption DEF TypeOK

LEMMA OrderIs ==
  /\ Len(Order) = 5
  /\ Order[1] = "barrier" /\ Order[2] = "mm" /\ Order[3] = "ipi" /\ Order[4] = "printf"
  /\ Order[5] = "keyboard"
BY DEF Order

\* After a test comes the next one of the order, if it is selected, or else what
\* comes after that.
LEMMA AfterStep ==
  ASSUME NEW p, NEW k \in 0..4
  PROVE  After(p, k) = IF Order[k + 1] \in sel THEN Start(p, Order[k + 1]) ELSE After(p, k + 1)
<1> DEFINE next == {m \in (k + 1)..Len(Order) : Order[m] \in sel}
           rest == {m \in (k + 1 + 1)..Len(Order) : Order[m] \in sel}
<1>0. /\ After(p, k) = IF next # {}
                       THEN Start(p, Order[CHOOSE m \in next : \A l \in next : m <= l])
                       ELSE IF menuing THEN "t_menu" ELSE "call"
      /\ After(p, k + 1) = IF rest # {}
                           THEN Start(p, Order[CHOOSE m \in rest : \A l \in rest : m <= l])
                           ELSE IF menuing THEN "t_menu" ELSE "call"
  BY DEF After
<1>1. CASE Order[k + 1] \in sel
  <2>1. k + 1 \in next /\ \A l \in next : k + 1 <= l /\ l \in Int
    BY <1>1, OrderIs
  <2> DEFINE c == CHOOSE m \in next : \A l \in next : m <= l
  <2>2. c \in next /\ \A l \in next : c <= l
    BY <2>1
  <2> HIDE DEF next, c
  <2>3. c = k + 1
    BY <2>1, <2>2
  <2>4. next # {}
    BY <2>1
  <2> QED BY <1>0, <1>1, <2>3, <2>4 DEF c
<1>2. CASE Order[k + 1] \notin sel
  <2>1. next = rest
    BY <1>2, OrderIs
  <2> QED BY <1>0, <1>2, <2>1
<1> QED BY <1>1, <1>2

LEMMA AfterLast == \A p : After(p, 5) = IF menuing THEN "t_menu" ELSE "call"
<1>1. {m \in (5 + 1)..Len(Order) : Order[m] \in sel} = {}
  BY OrderIs
<1> QED BY <1>1, Zenon DEF After

LEMMA StartIs ==
  ASSUME NEW p
  PROVE  /\ Start(p, "barrier") = IF Pair(p) THEN "t_barr2" ELSE "t_global"
         /\ Start(p, "mm") = IF ~Pair(p) THEN "m_done" ELSE IF p = 0 THEN "m_alloc" ELSE "m_barr"
         /\ Start(p, "ipi") = "i_first" /\ Start(p, "printf") = "p_last"
         /\ Start(p, "keyboard") = "k_last"
<1>1. /\ "barrier" # "mm" /\ "barrier" # "ipi" /\ "barrier" # "printf" /\ "barrier" # "keyboard"
      /\ "mm" # "ipi" /\ "mm" # "printf" /\ "mm" # "keyboard"
      /\ "ipi" # "printf" /\ "ipi" # "keyboard" /\ "printf" # "keyboard"
  OBVIOUS
<1> QED BY <1>1, Zenon DEF Start

\* The five cases of After().
LEMMA AfterCases ==
  ASSUME NEW p
  PROVE  /\ After(p, 5) = IF menuing THEN "t_menu" ELSE "call"
         /\ After(p, 4) = IF "keyboard" \in sel THEN "k_last" ELSE After(p, 5)
         /\ After(p, 3) = IF "printf" \in sel THEN "p_last" ELSE After(p, 4)
         /\ After(p, 2) = IF "ipi" \in sel THEN "i_first" ELSE After(p, 3)
         /\ After(p, 1) = IF "mm" \in sel
                          THEN IF ~Pair(p) THEN "m_done" ELSE IF p = 0 THEN "m_alloc" ELSE "m_barr"
                          ELSE After(p, 2)
         /\ After(p, 0) = IF "barrier" \in sel THEN IF Pair(p) THEN "t_barr2" ELSE "t_global"
                          ELSE After(p, 1)
<1>1. \A k \in 0..4 :
        After(p, k) = IF Order[k + 1] \in sel THEN Start(p, Order[k + 1]) ELSE After(p, k + 1)
  BY AfterStep
<1>2. /\ 0 \in 0..4 /\ 1 \in 0..4 /\ 2 \in 0..4 /\ 3 \in 0..4 /\ 4 \in 0..4
      /\ 0 + 1 = 1 /\ 1 + 1 = 2 /\ 2 + 1 = 3 /\ 3 + 1 = 4 /\ 4 + 1 = 5
  OBVIOUS
<1>3. After(p, 5) = IF menuing THEN "t_menu" ELSE "call"
  BY AfterLast
<1>4. After(p, 4) = IF "keyboard" \in sel THEN "k_last" ELSE After(p, 5)
  BY <1>1, <1>2, OrderIs, StartIs, Zenon
<1>5. After(p, 3) = IF "printf" \in sel THEN "p_last" ELSE After(p, 4)
  BY <1>1, <1>2, OrderIs, StartIs, Zenon
<1>6. After(p, 2) = IF "ipi" \in sel THEN "i_first" ELSE After(p, 3)
  BY <1>1, <1>2, OrderIs, StartIs, Zenon
<1>7. After(p, 1) = IF "mm" \in sel
                    THEN IF ~Pair(p) THEN "m_done" ELSE IF p = 0 THEN "m_alloc" ELSE "m_barr"
                    ELSE After(p, 2)
  BY <1>1, <1>2, OrderIs, StartIs, Zenon
<1>8. After(p, 0) = IF "barrier" \in sel THEN IF Pair(p) THEN "t_barr2" ELSE "t_global"
                    ELSE After(p, 1)
  BY <1>1, <1>2, OrderIs, StartIs, Zenon
<1> QED BY <1>3, <1>4, <1>5, <1>6, <1>7, <1>8
-----------------------------------------------------------------------------
(* smp_halt() and smp_wakeup().                                             *)

LEMMA BitFacts ==
  /\ Bits # {"HALTED"} /\ Bits # {} /\ "HALT" \in Bits /\ "HALTED" \in Bits
  /\ {} \cup Bits = Bits /\ Bits \ {"HALT"} = {"HALTED"} /\ {"HALTED"} \ {"HALTED"} = {}
  /\ {"HALTED"} # {} /\ "HALT" \notin {"HALTED"} /\ "HALTED" \in {"HALTED"}
BY DEF Bits

LEMMA PcOf ==
  ASSUME TypeOK, NEW p \in CPUs, Local(p)
  PROVE  /\ pc[p] \in InHalt => at[p] \in HaltPlaces
         /\ pc[p] \in InWakeup => at[p] \in WakePlaces
         /\ at[p] \in HaltPlaces => at[p] \notin WakePlaces
<1>1. at[p] \in HaltPlaces => at[p] \notin WakePlaces
  BY DEF HaltPlaces, WakePlaces
<1>2. pc[p] \in InHalt => pc[p] \notin InWakeup /\ pc[p] # "run"
  BY DEF InHalt, InWakeup
<1>3. pc[p] \in InWakeup => pc[p] # "run"
  BY DEF InWakeup
<1> QED BY <1>1, <1>2, <1>3 DEF Local

\* What holds of a CPU depends on what is its own.
LEMMA Untouched ==
  ASSUME NEW q \in CPUs, at'[q] = at[q], pc'[q] = pc[q], flags'[q] = flags[q]
  PROVE  /\ Unwoken(q)' <=> Unwoken(q)
         /\ Going(q)' <=> Going(q)
         /\ Awake(q)' <=> Awake(q)
         /\ old'[q] = old[q] /\ Local(q) => Local(q)'
BY DEF Unwoken, Going, Awake, Local

LEMMA SmpGo ==
  ASSUME TypeOK, NEW p \in CPUs, NEW from, NEW to \in {"run"} \cup InHalt \cup InWakeup,
         Go(p, from, to)
  PROVE  /\ pc[p] = from /\ pc'[p] = to /\ \A q \in CPUs : q # p => pc'[q] = pc[q]
         /\ pc' \in [CPUs -> {"run"} \cup InHalt \cup InWakeup]
BY DEF TypeOK, Go

\* flags[] and the registers are functions on the CPUs.
Tables == /\ DOMAIN flags = CPUs /\ flags = [p \in CPUs |-> flags[p]]
          /\ DOMAIN old = CPUs /\ old = [p \in CPUs |-> old[p]]

LEMMA OldSet ==
  ASSUME Tables, NEW p \in CPUs, NEW x, old' = [old EXCEPT ![p] = x], flags' = flags
  PROVE  Tables' /\ old'[p] = x /\ \A q \in CPUs : q # p => old'[q] = old[q]
BY DEF Tables

LEMMA FlagsSet ==
  ASSUME Tables, NEW p \in CPUs, NEW t \in CPUs, NEW x, NEW y,
         old' = [old EXCEPT ![p] = y], flags' = [flags EXCEPT ![t] = x]
  PROVE  /\ Tables' /\ old'[p] = y /\ flags'[t] = x
         /\ \A q \in CPUs : q # p => old'[q] = old[q]
         /\ \A q \in CPUs : q # t => flags'[q] = flags[q]
BY DEF Tables

\* The others keep their places, their flags and their registers.
Alone(p) == \A q \in CPUs : q # p =>
  at'[q] = at[q] /\ pc'[q] = pc[q] /\ flags'[q] = flags[q] /\ old'[q] = old[q]

LEMMA Frame ==
  ASSUME NEW p \in CPUs, Alone(p)
  PROVE  \A q \in CPUs : q # p =>
           /\ Unwoken(q)' <=> Unwoken(q)
           /\ Going(q)' <=> Going(q)
           /\ Awake(q)' <=> Awake(q)
           /\ Local(q) => Local(q)'
BY Untouched DEF Alone

\* What a step of smp_halt() or an interrupt in it does to the CPU: one that is
\* not woken up yet stays so, and one that is goes on or out.
Halting(p) ==
  /\ Local(p)' /\ at[p] \in HaltPlaces /\ pc[p] \in InHalt
  /\ Unwoken(p) => Unwoken(p)'
  /\ Going(p) => Going(p)' \/ Awake(p)'
  /\ Unwoken(p) \/ Going(p)
  /\ flags[p] = Bits => flags'[p] = Bits
  /\ \A q \in CPUs : q # p => flags'[q] = flags[q] /\ pc'[q] = pc[q] /\ old'[q] = old[q]
  /\ tgt' = tgt

\* A step of smp_halt() changes the CPU's own flags and sets both bits before
\* the loop; it leaves the loop only when somebody cleared HALT.
LEMMA HaltLocal ==
  ASSUME TypeOK, NEW p \in CPUs, Local(p), HaltStep(p), at'[p] = at[p]
  PROVE  Halting(p)
<1>t. Tables
  BY DEF TypeOK, Tables
<1>h. pc[p] \in InHalt => at[p] \in HaltPlaces /\ at[p] # "call" /\ at[p] # "bar" /\ at[p] # "i_last"
  BY PcOf DEF HaltPlaces
<1> DEFINE PCs == {"run"} \cup InHalt \cup InWakeup
<1>1. CASE HaltLoad(p)
  <2>1. /\ Go(p, "h_load", "h_store") /\ old' = [old EXCEPT ![p] = flags[p]]
        /\ UNCHANGED <<flags, tgt>> /\ "h_store" \in PCs
    BY <1>1 DEF HaltLoad, InHalt
  <2>2. pc[p] = "h_load" /\ pc'[p] = "h_store" /\ pc' \in [CPUs -> PCs]
        /\ \A q \in CPUs : q # p => pc'[q] = pc[q]
    BY <2>1, SmpGo
  <2>3. Tables' /\ old'[p] = flags[p] /\ \A q \in CPUs : q # p => old'[q] = old[q]
    BY <1>t, <2>1, OldSet
  <2>4. flags[p] = {} /\ at[p] \in HaltPlaces
    BY <1>h, <2>2 DEF Local, InHalt
  <2> QED BY <1>h, <2>1, <2>2, <2>3, <2>4, BitFacts DEF Halting, Local, Unwoken, Going, InHalt, InLoop, InWakeup
<1>2. CASE HaltStore(p)
  <2>1. /\ Go(p, "h_store", "h_test") /\ old' = [old EXCEPT ![p] = {}]
        /\ flags' = [flags EXCEPT ![p] = old[p] \cup Bits] /\ tgt' = tgt /\ "h_test" \in PCs
    BY <1>2 DEF HaltStore, InHalt, Forget
  <2>2. pc[p] = "h_store" /\ pc'[p] = "h_test" /\ pc' \in [CPUs -> PCs]
        /\ \A q \in CPUs : q # p => pc'[q] = pc[q]
    BY <2>1, SmpGo
  <2>3. /\ Tables' /\ flags'[p] = old[p] \cup Bits
        /\ \A q \in CPUs : q # p => old'[q] = old[q] /\ flags'[q] = flags[q]
    BY <1>t, <2>1 DEF Tables
  <2>4. flags[p] = {} /\ at[p] \in HaltPlaces /\ flags'[p] = Bits
    BY <1>h, <2>2, <2>3, BitFacts DEF Local, InHalt
  <2> QED BY <1>h, <2>1, <2>2, <2>3, <2>4, BitFacts DEF Halting, Local, Unwoken, Going, InHalt, InLoop, InWakeup
<1>3. CASE HaltTest(p)
  <2>1. /\ \/ "HALT" \in flags[p] /\ Go(p, "h_test", "h_hlt")
           \/ "HALT" \notin flags[p] /\ Go(p, "h_test", "h_cload")
        /\ UNCHANGED <<flags, old, tgt>> /\ "h_hlt" \in PCs /\ "h_cload" \in PCs
    BY <1>3 DEF HaltTest, InHalt
  <2>2. /\ pc[p] = "h_test" /\ pc' \in [CPUs -> PCs] /\ \A q \in CPUs : q # p => pc'[q] = pc[q]
        /\ \/ "HALT" \in flags[p] /\ pc'[p] = "h_hlt"
           \/ "HALT" \notin flags[p] /\ pc'[p] = "h_cload"
    BY <2>1, SmpGo
  <2>3. at[p] \in HaltPlaces /\ pc[p] \in InHalt /\ (flags[p] = Bits \/ flags[p] = {"HALTED"})
    BY <1>h, <2>2 DEF Local, InHalt, InLoop
  <2>4. CASE flags[p] = Bits
    <3>1. pc'[p] = "h_hlt"
      BY <2>2, <2>4, BitFacts
    <3> QED BY <1>t, <2>1, <2>2, <2>3, <2>4, <3>1, BitFacts
          DEF Halting, Tables, Local, Unwoken, Going, InHalt, InLoop, InWakeup
  <2>5. CASE flags[p] = {"HALTED"}
    <3>1. pc'[p] = "h_cload"
      BY <2>2, <2>5, BitFacts
    <3>2. ~Unwoken(p)
      BY <1>h, <2>2, <2>3, <2>5, BitFacts DEF Unwoken
    <3> QED BY <1>t, <2>1, <2>2, <2>3, <2>5, <3>1, <3>2, BitFacts
          DEF Halting, Tables, Local, Going, InHalt, InLoop, InWakeup
  <2> QED BY <2>3, <2>4, <2>5
<1>4. CASE Sleep(p)
  <2>1. /\ Go(p, "h_hlt", "h_asleep") /\ UNCHANGED <<flags, old, tgt>> /\ "h_asleep" \in PCs
    BY <1>4 DEF Sleep, InHalt
  <2>2. /\ pc[p] = "h_hlt" /\ pc'[p] = "h_asleep" /\ pc' \in [CPUs -> PCs]
        /\ \A q \in CPUs : q # p => pc'[q] = pc[q]
    BY <2>1, SmpGo
  <2>3. at[p] \in HaltPlaces /\ pc[p] \in InHalt /\ (flags[p] = Bits \/ flags[p] = {"HALTED"})
    BY <1>h, <2>2 DEF Local, InHalt, InLoop
  <2> QED BY <1>t, <2>1, <2>2, <2>3, BitFacts
          DEF Halting, Tables, Local, Unwoken, Going, InHalt, InLoop, InWakeup
<1>5. CASE ClearLoad(p)
  <2>1. /\ Go(p, "h_cload", "h_cstore") /\ old' = [old EXCEPT ![p] = flags[p]]
        /\ UNCHANGED <<flags, tgt>> /\ "h_cstore" \in PCs
    BY <1>5 DEF ClearLoad, InHalt
  <2>2. pc[p] = "h_cload" /\ pc'[p] = "h_cstore" /\ pc' \in [CPUs -> PCs]
        /\ \A q \in CPUs : q # p => pc'[q] = pc[q]
    BY <2>1, SmpGo
  <2>3. Tables' /\ old'[p] = flags[p] /\ \A q \in CPUs : q # p => old'[q] = old[q]
    BY <1>t, <2>1, OldSet
  <2>4. flags[p] = {"HALTED"} /\ at[p] \in HaltPlaces
    BY <1>h, <2>2 DEF Local, InHalt
  <2> QED BY <1>h, <2>1, <2>2, <2>3, <2>4, BitFacts DEF Halting, Local, Unwoken, Going, InHalt, InLoop, InWakeup
<1>6. CASE ClearStore(p)
  <2>1. /\ Go(p, "h_cstore", "run") /\ old' = [old EXCEPT ![p] = {}]
        /\ flags' = [flags EXCEPT ![p] = old[p] \ {"HALTED"}] /\ tgt' = tgt /\ "run" \in PCs
    BY <1>6 DEF ClearStore, InHalt, Forget
  <2>2. pc[p] = "h_cstore" /\ pc'[p] = "run" /\ pc' \in [CPUs -> PCs]
        /\ \A q \in CPUs : q # p => pc'[q] = pc[q]
    BY <2>1, SmpGo
  <2>3. /\ Tables' /\ flags'[p] = old[p] \ {"HALTED"}
        /\ \A q \in CPUs : q # p => old'[q] = old[q] /\ flags'[q] = flags[q]
    BY <1>t, <2>1 DEF Tables
  <2>4. flags[p] = {"HALTED"} /\ at[p] \in HaltPlaces /\ flags'[p] = {}
    BY <1>h, <2>2, <2>3, BitFacts DEF Local, InHalt
  <2> QED BY <1>h, <2>1, <2>2, <2>3, <2>4, BitFacts
          DEF Halting, Local, Unwoken, Going, Awake, InHalt, InLoop, InWakeup
<1> QED BY <1>1, <1>2, <1>3, <1>4, <1>5, <1>6 DEF HaltStep

\* An interrupt in smp_halt() ends the hlt, and changes nothing else.
LEMMA InterruptLocal ==
  ASSUME TypeOK, NEW p \in CPUs, Local(p), Interrupt(p), at'[p] = at[p]
  PROVE  Halting(p)
<1> DEFINE PCs == {"run"} \cup InHalt \cup InWakeup
<1>h. pc[p] \in InHalt => at[p] \in HaltPlaces /\ at[p] # "call" /\ at[p] # "bar" /\ at[p] # "i_last"
  BY PcOf DEF HaltPlaces
<1>1. /\ \/ Go(p, "h_asleep", "h_test")
         \/ pc[p] \in {"h_test", "h_hlt", "h_cload", "h_cstore"} /\ pc' = pc
      /\ flags' = flags /\ old' = old /\ tgt' = tgt /\ "h_test" \in PCs
  BY DEF Interrupt, InHalt
<1>2. /\ \A q \in CPUs : q # p => pc'[q] = pc[q]
      /\ \/ pc[p] = "h_asleep" /\ pc'[p] = "h_test"
         \/ pc[p] \in {"h_test", "h_hlt", "h_cload", "h_cstore"} /\ pc'[p] = pc[p]
  BY <1>1, SmpGo
<1>3. at[p] \in HaltPlaces /\ pc[p] \in InHalt
  BY <1>h, <1>2 DEF InHalt
<1>4. CASE pc[p] \in InLoop
  <2>1. (flags[p] = Bits \/ flags[p] = {"HALTED"}) /\ pc'[p] \in InLoop /\ pc'[p] # "run"
    BY <1>2, <1>3, <1>4 DEF Local, InLoop
  <2> QED BY <1>1, <1>2, <1>3, <1>4, <2>1, BitFacts
        DEF Halting, Local, Unwoken, Going, InHalt, InLoop, InWakeup
<1>5. CASE pc[p] \in {"h_cload", "h_cstore"}
  <2>1. flags[p] = {"HALTED"} /\ pc'[p] = pc[p]
    BY <1>2, <1>3, <1>5 DEF Local
  <2> QED BY <1>1, <1>2, <1>3, <1>5, <2>1, BitFacts
        DEF Halting, Local, Unwoken, Going, InHalt, InLoop, InWakeup
<1> QED BY <1>2, <1>4, <1>5 DEF InLoop

\* The waker's place in its loop is kept by what the CPUs it wakes up do, ...
LEMMA WakesBy ==
  ASSUME NEW w \in CPUs, NEW S \in SUBSET CPUs, Wakes(w, S), NEW p \in CPUs, p # w,
         Alone(p), tgt'[w] = tgt[w],
         p \in S /\ Unwoken(p) => Unwoken(p)',
         p \in S /\ Unwoken(p) /\ flags[p] = Bits => flags'[p] = Bits,
         p \in S /\ Going(p) => Going(p)' \/ Awake(p)',
         p \in S /\ Awake(p) => Awake(p)'
  PROVE  Wakes(w, S)'
<1> HIDE DEF cpu_online
<1>1. at'[w] = at[w] /\ pc'[w] = pc[w] /\ old'[w] = old[w]
  BY DEF Alone
<1>2. \A q \in S :
        /\ Unwoken(q) => Unwoken(q)'
        /\ Unwoken(q) /\ flags[q] = Bits => flags'[q] = Bits
        /\ Going(q) => Going(q)' \/ Awake(q)'
        /\ Awake(q) => Awake(q)'
  BY Frame DEF Alone
<1> QED BY <1>1, <1>2 DEF Wakes

\* ... by their smp_halt() above all, ...
LEMMA WakesHalting ==
  ASSUME NEW w \in CPUs, NEW S \in SUBSET CPUs, Wakes(w, S), NEW p \in CPUs, p # w,
         Halting(p), at' = at
  PROVE  Wakes(w, S)'
<1>1. Alone(p) /\ tgt'[w] = tgt[w]
  BY DEF Halting, Alone
<1>2. ~Awake(p)
  BY DEF Halting, Awake, HaltPlaces, InHalt
<1> QED BY <1>1, <1>2, WakesBy DEF Halting

\* ... and by its own smp_wakeup(): the read and the write of the flags are not
\* atomic, but nobody else writes them in between, as both bits are set and the
\* other stays in its loop.
LEMMA WakesSmp ==
  ASSUME TypeOK, Locals, NEW w \in CPUs, NEW S \in SUBSET CPUs, w \notin S, Wakes(w, S),
         WakeStep(w), at' = at
  PROVE  Wakes(w, S)' /\ Locals' /\ tgt' = tgt
<1> HIDE DEF cpu_online
<1> DEFINE t == tgt[w]
           PCs == {"run"} \cup InHalt \cup InWakeup
<1>t. Tables
  BY DEF TypeOK, Tables
<1>0. /\ pc[w] \in InWakeup /\ at[w] \in WakePlaces /\ at[w] \notin HaltPlaces
      /\ t \in S /\ t \in CPUs /\ t # w /\ tgt' = tgt
      /\ flags[w] = {}
  <2>1. pc[w] \in InWakeup /\ tgt' = tgt
    BY DEF WakeStep, WakeWait, WakeLoad, WakeStore, WakeTest, SendIpi, Go, InWakeup
  <2>2. at[w] \in WakePlaces /\ at[w] \notin HaltPlaces
    BY <2>1, PcOf DEF Locals
  <2> QED BY <2>1, <2>2 DEF Wakes, Locals, Local
<1>1. /\ Unwoken(t) => flags[t] = Bits \/ flags[t] = {}
      /\ Unwoken(t) /\ flags[t] = Bits => at[t] \in HaltPlaces /\ pc[t] \in InLoop
      /\ Going(t) => flags[t] = {"HALTED"}
      /\ Awake(t) => flags[t] = {}
  BY <1>0, BitFacts DEF Locals, Local, Unwoken, Going, Awake, HaltPlaces, WakePlaces
<1>2. CASE WakeWait(w)
  <2>1. /\ Go(w, "w_wait", "w_load") /\ "HALTED" \in flags[t]
        /\ UNCHANGED <<flags, old, tgt>> /\ "w_load" \in PCs
    BY <1>2 DEF WakeWait, InWakeup
  <2>2. pc[w] = "w_wait" /\ pc'[w] = "w_load" /\ \A q \in CPUs : q # w => pc'[q] = pc[q]
    BY <2>1, SmpGo
  <2>3. Unwoken(t) /\ flags[t] = Bits
    BY <1>0, <1>1, <2>1, <2>2, BitFacts DEF Wakes
  <2>4. Alone(w)
    BY <2>1, <2>2 DEF Alone
  <2>5. Local(w)'
    BY <1>0, <2>1, <2>2 DEF Local, InHalt, InWakeup, InLoop
  <2> QED BY <1>0, <2>1, <2>2, <2>3, <2>4, <2>5, Frame DEF Wakes, Locals
<1>3. CASE WakeLoad(w)
  <2>1. /\ Go(w, "w_load", "w_store") /\ old' = [old EXCEPT ![w] = flags[t]]
        /\ UNCHANGED <<flags, tgt>> /\ "w_store" \in PCs
    BY <1>3 DEF WakeLoad, InWakeup
  <2>2. pc[w] = "w_load" /\ pc'[w] = "w_store" /\ \A q \in CPUs : q # w => pc'[q] = pc[q]
    BY <2>1, SmpGo
  <2>3. Unwoken(t) /\ flags[t] = Bits
    BY <1>0, <2>2 DEF Wakes
  <2>4. old'[w] = Bits /\ Alone(w)
    BY <1>t, <2>1, <2>2, <2>3, OldSet DEF Alone
  <2>5. Local(w)'
    BY <1>0, <2>1, <2>2 DEF Local, InHalt, InWakeup, InLoop
  <2> QED BY <1>0, <2>1, <2>2, <2>3, <2>4, <2>5, Frame DEF Wakes, Locals
<1>4. CASE WakeStore(w)
  <2>1. /\ Go(w, "w_store", "w_test") /\ old' = [old EXCEPT ![w] = {}]
        /\ flags' = [flags EXCEPT ![t] = old[w] \ {"HALT"}] /\ tgt' = tgt /\ "w_test" \in PCs
    BY <1>4 DEF WakeStore, InWakeup, Forget
  <2>2. pc[w] = "w_store" /\ pc'[w] = "w_test" /\ \A q \in CPUs : q # w => pc'[q] = pc[q]
    BY <2>1, SmpGo
  <2>3. Unwoken(t) /\ flags[t] = Bits /\ old[w] = Bits
    BY <1>0, <2>2 DEF Wakes
  <2>4. /\ flags'[t] = {"HALTED"}
        /\ \A q \in CPUs : q # w => old'[q] = old[q]
        /\ \A q \in CPUs : q # t => flags'[q] = flags[q]
    BY <1>t, <1>0, <2>1, <2>3, BitFacts DEF Tables
  <2>u. PICK u \in CPUs : u = t
    BY <1>0
  <2>5. \A q \in CPUs : q # w /\ q # u =>
          /\ Unwoken(q)' <=> Unwoken(q)
          /\ Awake(q)' <=> Awake(q)
          /\ Local(q) => Local(q)'
    BY <2>u, <2>2, <2>4, Untouched
  <2>6. \A q \in CPUs : q = u => Going(q)'
    BY <2>u, <1>0, <1>1, <2>2, <2>3, <2>4 DEF Going
  <2>7. Local(u)' /\ Local(w)'
    BY <2>u, <1>0, <1>1, <2>2, <2>3, <2>4 DEF Locals, Local, InHalt, InWakeup, InLoop
  <2>8. Locals'
    BY <2>5, <2>7 DEF Locals
  <2>9. \A q \in S : (q > u => Unwoken(q)') /\ (q < u => Awake(q)') /\ (q = u => Going(q)')
    BY <2>u, <1>0, <2>5, <2>6, CPUsAssumption DEF Wakes
  <2>10. tgt'[w] = u /\ at'[w] \in WakePlaces /\ pc'[w] = "w_test" /\ u \in S /\ u <= cpu_online
    BY <2>u, <1>0, <2>2 DEF Wakes
  <2>11. Wakes(w, S)'
    BY <2>9, <2>10 DEF Wakes
  <2> QED BY <1>0, <2>8, <2>11
<1>5. CASE WakeTest(w)
  <2>1. /\ \/ "HALTED" \in flags[t] /\ Go(w, "w_test", "w_send")
           \/ "HALTED" \notin flags[t] /\ Go(w, "w_test", "run")
        /\ UNCHANGED <<flags, old, tgt>> /\ "w_send" \in PCs /\ "run" \in PCs
    BY <1>5 DEF WakeTest, InWakeup
  <2>2. /\ pc[w] = "w_test" /\ \A q \in CPUs : q # w => pc'[q] = pc[q]
        /\ \/ pc'[w] = "w_send"
           \/ "HALTED" \notin flags[t] /\ pc'[w] = "run"
    BY <2>1, SmpGo
  <2>3. (Going(t) \/ Awake(t)) /\ (pc'[w] = "run" => Awake(t))
    BY <1>0, <1>1, <2>2, BitFacts DEF Wakes
  <2>4. Alone(w)
    BY <2>1, <2>2 DEF Alone
  <2>5. Local(w)'
    BY <1>0, <2>1, <2>2 DEF Local, InHalt, InWakeup, InLoop
  <2> QED BY <1>0, <2>1, <2>2, <2>3, <2>4, <2>5, Frame DEF Wakes, Locals
<1>6. CASE SendIpi(w)
  <2>1. Go(w, "w_send", "w_test") /\ UNCHANGED <<flags, old, tgt>> /\ "w_test" \in PCs
    BY <1>6 DEF SendIpi, InWakeup
  <2>2. pc[w] = "w_send" /\ pc'[w] = "w_test" /\ \A q \in CPUs : q # w => pc'[q] = pc[q]
    BY <2>1, SmpGo
  <2>3. Going(t) \/ Awake(t)
    BY <1>0, <2>2 DEF Wakes
  <2>4. Alone(w)
    BY <2>1, <2>2 DEF Alone
  <2>5. Local(w)'
    BY <1>0, <2>1, <2>2 DEF Local, InHalt, InWakeup, InLoop
  <2> QED BY <1>0, <2>1, <2>2, <2>3, <2>4, <2>5, Frame DEF Wakes, Locals
<1> QED BY <1>2, <1>3, <1>4, <1>5, <1>6 DEF WakeStep
-----------------------------------------------------------------------------
(* The type invariant, and the frames of the steps.                         *)

LEMMA MoveTo ==
  ASSUME TypeOK, NEW p \in CPUs, NEW from, NEW to \in Places \cup TestPlaces, Move(p, from, to)
  PROVE  /\ pc[p] = "run" /\ at[p] = from /\ at'[p] = to /\ \A q \in CPUs : q # p => at'[q] = at[q]
         /\ at' \in [CPUs -> Places \cup TestPlaces]
BY DEF TypeOK, Move

\* The places a test may end at.
Next5 == {"t_barr2", "t_global", "m_done", "m_alloc", "m_barr", "i_first", "p_last", "k_last",
          "t_menu", "call"}

LEMMA AfterPlaces ==
  ASSUME NEW p
  PROVE  /\ After(p, 0) \in Next5 /\ After(p, 1) \in Next5 /\ After(p, 2) \in Next5
         /\ After(p, 3) \in Next5 /\ After(p, 4) \in Next5 /\ After(p, 5) \in Next5
         /\ Next5 \subseteq Places \cup TestPlaces
<1>1. After(p, 5) \in Next5
  BY AfterCases DEF Next5
<1>2. After(p, 4) \in Next5
  BY <1>1, AfterCases DEF Next5
<1>3. After(p, 3) \in Next5
  BY <1>2, AfterCases DEF Next5
<1>4. After(p, 2) \in Next5
  BY <1>3, AfterCases DEF Next5
<1>5. After(p, 1) \in Next5
  BY <1>4, AfterCases DEF Next5
<1>6. After(p, 0) \in Next5
  BY <1>5, AfterCases DEF Next5
<1>7. Next5 \subseteq Places \cup TestPlaces
  BY DEF Next5, Places, TestPlaces
<1> QED BY <1>1, <1>2, <1>3, <1>4, <1>5, <1>6, <1>7

\* What the global barrier does to one CPU.
LEMMA OnwardIs ==
  ASSUME NEW p
  PROVE  /\ at[p] = "d_first" => Onward(p) = After(p, 0)
         /\ at[p] = "t_menu" => Onward(p) = IF p = 0 THEN "t_select" ELSE "t_result"
         /\ at[p] = "t_result" => Onward(p) = IF sel = {} THEN "call" ELSE After(p, 0)
         /\ at[p] = "t_global" => Onward(p) = IF Again(p) THEN "t_global" ELSE "f_enter"
         /\ at[p] = "f_enter" /\ p = 0 => Onward(p) = "f_signal"
         /\ at[p] = "f_enter" /\ p = 1 => Onward(p) = "f_wait"
         /\ at[p] = "f_enter" /\ p # 0 /\ p # 1 => Onward(p) = After(p, 1)
         /\ at[p] = "i_first" /\ cpu_online = 1 => Onward(p) = "i_last"
         /\ at[p] = "i_first" /\ cpu_online # 1 => Onward(p) = IF p = 0 THEN "i_self" ELSE "i_hlt"
         /\ at[p] = "i_second" => Onward(p) = IF p = 0 THEN "i_wake" ELSE "i_halt"
         /\ at[p] = "i_last" => Onward(p) = After(p, 3)
         /\ at[p] = "p_last" => Onward(p) = After(p, 4)
         /\ at[p] = "k_last" => Onward(p) = After(p, 5)
<1>1. /\ "d_first" # "t_menu" /\ "d_first" # "t_result" /\ "d_first" # "t_global"
      /\ "d_first" # "f_enter" /\ "d_first" # "i_first" /\ "d_first" # "i_second"
      /\ "d_first" # "i_last" /\ "d_first" # "p_last" /\ "d_first" # "k_last"
      /\ "t_menu" # "t_result" /\ "t_menu" # "t_global" /\ "t_menu" # "f_enter"
      /\ "t_menu" # "i_first" /\ "t_menu" # "i_second" /\ "t_menu" # "i_last"
      /\ "t_menu" # "p_last" /\ "t_menu" # "k_last" /\ "t_result" # "t_global"
      /\ "t_result" # "f_enter" /\ "t_result" # "i_first" /\ "t_result" # "i_second"
      /\ "t_result" # "i_last" /\ "t_result" # "p_last" /\ "t_result" # "k_last"
      /\ "t_global" # "f_enter" /\ "t_global" # "i_first" /\ "t_global" # "i_second"
      /\ "t_global" # "i_last" /\ "t_global" # "p_last" /\ "t_global" # "k_last"
      /\ "f_enter" # "i_first" /\ "f_enter" # "i_second" /\ "f_enter" # "i_last"
      /\ "f_enter" # "p_last" /\ "f_enter" # "k_last" /\ "i_first" # "i_second"
      /\ "i_first" # "i_last" /\ "i_first" # "p_last" /\ "i_first" # "k_last"
      /\ "i_second" # "i_last" /\ "i_second" # "p_last" /\ "i_second" # "k_last"
      /\ "i_last" # "p_last" /\ "i_last" # "k_last" /\ "p_last" # "k_last"
  OBVIOUS
<1>2. 0 # 1
  OBVIOUS
<1> HIDE DEF cpu_online
<1>3. at[p] = "d_first" => Onward(p) = After(p, 0)
  BY <1>1, <1>2, Zenon DEF Onward
<1>4. at[p] = "t_menu" => Onward(p) = IF p = 0 THEN "t_select" ELSE "t_result"
  BY <1>1, <1>2, Zenon DEF Onward
<1>5. at[p] = "t_result" => Onward(p) = IF sel = {} THEN "call" ELSE After(p, 0)
  BY <1>1, <1>2, Zenon DEF Onward
<1>6. at[p] = "t_global" => Onward(p) = IF Again(p) THEN "t_global" ELSE "f_enter"
  BY <1>1, <1>2, Zenon DEF Onward
<1>7. at[p] = "f_enter" /\ p = 0 => Onward(p) = "f_signal"
  BY <1>1, <1>2, Zenon DEF Onward
<1>8. at[p] = "f_enter" /\ p = 1 => Onward(p) = "f_wait"
  BY <1>1, <1>2, Zenon DEF Onward
<1>9. at[p] = "f_enter" /\ p # 0 /\ p # 1 => Onward(p) = After(p, 1)
  BY <1>1, <1>2, Zenon DEF Onward
<1>10. at[p] = "i_first" /\ cpu_online = 1 => Onward(p) = "i_last"
  BY <1>1, <1>2, Zenon DEF Onward
<1>11. at[p] = "i_first" /\ cpu_online # 1 => Onward(p) = IF p = 0 THEN "i_self" ELSE "i_hlt"
  BY <1>1, <1>2, Zenon DEF Onward
<1>12. at[p] = "i_second" => Onward(p) = IF p = 0 THEN "i_wake" ELSE "i_halt"
  BY <1>1, <1>2, Zenon DEF Onward
<1>13. at[p] = "i_last" => Onward(p) = After(p, 3)
  BY <1>1, <1>2, Zenon DEF Onward
<1>14. at[p] = "p_last" => Onward(p) = After(p, 4)
  BY <1>1, <1>2, Zenon DEF Onward
<1>15. at[p] = "k_last" => Onward(p) = After(p, 5)
  BY <1>1, <1>2, Zenon DEF Onward
<1> QED BY <1>3, <1>4, <1>5, <1>6, <1>7, <1>8, <1>9, <1>10, <1>11, <1>12, <1>13, <1>14, <1>15

\* The parts of TypeOK about the places, ...
PcType == pc \in [CPUs -> {"run"} \cup InHalt \cup InWakeup]
AtType == at \in [CPUs -> Places \cup TestPlaces]
TestType == /\ sel \subseteq AllTests /\ menuing \in BOOLEAN
            /\ n \in [CPUs -> Nat] /\ sig \in Nat

LEMMA SmpType ==
  ASSUME TypeOK, NEW p \in CPUs, SmpStep(p) \/ Interrupt(p), UNCHANGED <<collVars, testVars>>
  PROVE  TypeOK'
<1> DEFINE PCs == {"run"} \cup InHalt \cup InWakeup
<1>l. /\ "h_load" \in PCs /\ "h_store" \in PCs /\ "h_test" \in PCs /\ "h_hlt" \in PCs
      /\ "h_asleep" \in PCs /\ "h_cload" \in PCs /\ "h_cstore" \in PCs /\ "run" \in PCs
      /\ "w_wait" \in PCs /\ "w_load" \in PCs /\ "w_store" \in PCs /\ "w_test" \in PCs
      /\ "w_send" \in PCs
  BY DEF InHalt, InWakeup
<1>g. \A from : \A to \in PCs : Go(p, from, to) => PcType'
  BY DEF TypeOK, Go, PcType
<1>1. PcType'
  <2> HIDE DEF PCs
  <2>1. pc' = pc => PcType'
    BY DEF TypeOK, PcType
  <2> QED BY <1>l, <1>g, <2>1 DEF SmpStep, HaltStep, HaltLoad, HaltStore, HaltTest, Sleep, ClearLoad,
            ClearStore, WakeStep, WakeWait, WakeLoad, WakeStore, WakeTest, SendIpi, Interrupt
<1>2. /\ tgt' = tgt
      /\ old' = old \/ \E x : old' = [old EXCEPT ![p] = x]
      /\ flags' = flags \/ \E u, x : flags' = [flags EXCEPT ![u] = x]
  BY DEF SmpStep, HaltStep, HaltLoad, HaltStore, HaltTest, Sleep, ClearLoad, ClearStore, WakeStep,
         WakeWait, WakeLoad, WakeStore, WakeTest, SendIpi, Interrupt, Forget
<1>3. Tables'
  BY <1>2 DEF TypeOK, Tables
<1> QED BY <1>1, <1>2, <1>3 DEF TypeOK, Tables, PcType, collVars, testVars

LEMMA RegionType ==
  ASSUME TypeOK, NEW p \in CPUs, Step(p), UNCHANGED testVars
  PROVE  TypeOK'
<1>m. \A from : \A to \in Places : Move(p, from, to) => AtType'
  BY MoveTo DEF AtType
<1>l. /\ "call" \in Places /\ "halt" \in Places /\ "try" \in Places /\ "own" \in Places
      /\ "work" \in Places /\ "end" \in Places /\ "loop" \in Places /\ "waking" \in Places
      /\ "bar" \in Places
  BY DEF Places
<1>g. \A from : Go(p, from, "h_load") \/ Go(p, from, "w_wait") => PcType'
  BY DEF TypeOK, Go, PcType, InHalt, InWakeup
<1>t. Tables /\ PcType /\ AtType /\ TestType /\ TestType' /\ tgt \in [CPUs -> Nat] /\ mask \in Masks
  BY DEF TypeOK, Tables, PcType, AtType, TestType, testVars
<1>1. CASE Enter(p) \/ TryLock(p) \/ BecomeMaster(p) \/ Woken(p) \/ WorkDone(p)
  <2>1. AtType'
    BY <1>1, <1>m, <1>l DEF Enter, TryLock, BecomeMaster, Woken, WorkDone
  <2>2. PcType'
    BY <1>1, <1>g, <1>t DEF Enter, TryLock, BecomeMaster, Woken, WorkDone, smpVars, PcType
  <2>3. UNCHANGED <<flags, old, tgt, mask>>
    BY <1>1 DEF Enter, TryLock, BecomeMaster, Woken, WorkDone, smpVars
  <2> QED BY <1>t, <2>1, <2>2, <2>3 DEF TypeOK, Tables, PcType, AtType, TestType
<1>2. CASE End(p) \/ WakeNext(p) \/ Advance(p) \/ Unlock(p)
  <2>1. AtType'
    BY <1>2, <1>m, <1>l DEF End, WakeNext, Advance, Unlock
  <2>2. PcType'
    BY <1>2, <1>g, <1>t DEF End, WakeNext, Advance, Unlock, PcType
  <2>3. UNCHANGED <<flags, old, mask>>
    BY <1>2 DEF End, WakeNext, Advance, Unlock
  <2>4. tgt' \in [CPUs -> Nat]
    BY <1>2, <1>t DEF End, WakeNext, Advance, Unlock
  <2> QED BY <1>t, <2>1, <2>2, <2>3, <2>4 DEF TypeOK, Tables, PcType, AtType, TestType
<1>3. CASE SmpStep(p) /\ UNCHANGED collVars
  BY <1>3, SmpType
<1> QED BY <1>1, <1>2, <1>3 DEF Step

LEMMA TestCpuType ==
  ASSUME Contiguous, TypeOK, NEW p \in CPUs, TestStep(p)
  PROVE  TypeOK'
<1> HIDE DEF cpu_online
<1>m. \A from : \A to \in Places \cup TestPlaces : Move(p, from, to) => AtType'
  BY MoveTo DEF AtType
<1>a. After(p, 1) \in Places \cup TestPlaces /\ After(p, 2) \in Places \cup TestPlaces
  BY AfterPlaces
<1>l. /\ {"f_signal", "f_wait", "m_barr", "m_work", "m_done", "i_send", "i_second", "i_asleep"}
           \subseteq Places \cup TestPlaces
      /\ {"i_wake", "i_waking", "i_last", "t_result"} \subseteq Places \cup TestPlaces
  BY DEF Places, TestPlaces
<1>g. \A from : Go(p, from, "w_wait") => PcType'
  BY DEF TypeOK, Go, PcType, InWakeup
<1>t. Tables /\ PcType /\ AtType /\ TestType /\ tgt \in [CPUs -> Nat] /\ mask \in Masks
  BY DEF TypeOK, Tables, PcType, AtType, TestType
<1> HIDE DEF Order
<1>1. CASE (p = 0 /\ (Signal \/ AllocFirst)) \/ (p = 1 /\ Wait) \/ MmWork(p) \/ MmDone(p)
  <2>1. AtType'
    BY <1>1, <1>m, <1>a, <1>l DEF Signal, AllocFirst, Wait, MmWork, MmDone
  <2>2. UNCHANGED smpVars /\ mask' = mask /\ sel' = sel /\ menuing' = menuing
    BY <1>1 DEF Signal, AllocFirst, Wait, MmWork, MmDone, testVars
  <2>3. (n' = n \/ n' = [n EXCEPT ![p] = (@ + 1) % 3]) /\ (sig' = sig \/ sig' = sig + 1 \/ (sig > 0 /\ sig' = sig - 1))
    BY <1>1 DEF Signal, AllocFirst, Wait, MmWork, MmDone, testVars
  <2>4. n' \in [CPUs -> Nat] /\ sig' \in Nat
    BY <2>3, <1>t DEF TestType
  <2> QED BY <1>t, <2>1, <2>2, <2>4 DEF TypeOK, Tables, PcType, AtType, TestType, smpVars
<1>2. CASE (p = 0 /\ (SelfIpi \/ SendTest \/ AllSent)) \/ TestHlt(p) \/ HaltOver(p)
  <2>1. AtType'
    BY <1>2, <1>m, <1>l DEF SelfIpi, SendTest, AllSent, TestHlt, HaltOver
  <2>2. UNCHANGED <<flags, old, pc, mask, testVars>>
    BY <1>2 DEF SelfIpi, SendTest, AllSent, TestHlt, HaltOver, smpVars
  <2>3. tgt' \in [CPUs -> Nat]
    BY <1>2, <1>t DEF SelfIpi, SendTest, AllSent, TestHlt, HaltOver, smpVars
  <2> QED BY <1>t, <2>1, <2>2, <2>3 DEF TypeOK, Tables, PcType, AtType, TestType, testVars
<1>3. CASE p = 0 /\ (TestWake \/ TestWoken \/ AllWoken)
  <2>1. AtType'
    BY <1>3, <1>m, <1>l DEF TestWake, TestWoken, AllWoken
  <2>2. UNCHANGED <<flags, old, mask, testVars>> /\ PcType'
    BY <1>3, <1>g, <1>t DEF TestWake, TestWoken, AllWoken, PcType
  <2>3. tgt' \in [CPUs -> Nat]
    BY <1>3, <1>t DEF TestWake, TestWoken, AllWoken
  <2> QED BY <1>t, <2>1, <2>2, <2>3 DEF TypeOK, Tables, PcType, AtType, TestType, testVars
<1>4. CASE p = 0 /\ Select
  <2>1. AtType' /\ UNCHANGED <<smpVars, mask, menuing, n, sig>>
    BY <1>4, <1>m, <1>l DEF Select
  <2>2. sel' \subseteq AllTests
    BY <1>4 DEF Select
  <2> QED BY <1>t, <2>1, <2>2 DEF TypeOK, Tables, PcType, AtType, TestType, smpVars
<1> QED BY <1>1, <1>2, <1>3, <1>4 DEF TestStep

LEMMA OnwardPlaces ==
  ASSUME NEW p \in CPUs, at[p] \in GlobalPlaces
  PROVE  Onward(p) \in Places \cup TestPlaces
<1> HIDE DEF cpu_online
<1>1. After(p, 0) \in Places \cup TestPlaces /\ After(p, 1) \in Places \cup TestPlaces
      /\ After(p, 3) \in Places \cup TestPlaces /\ After(p, 4) \in Places \cup TestPlaces
      /\ After(p, 5) \in Places \cup TestPlaces
  BY AfterPlaces
<1>2. {"t_select", "t_result", "call", "t_global", "f_enter", "f_signal", "f_wait", "i_last",
       "i_self", "i_hlt", "i_wake", "i_halt"} \subseteq Places \cup TestPlaces
  BY DEF Places, TestPlaces
<1> QED BY <1>1, <1>2, OnwardIs DEF GlobalPlaces

LEMMA BarrierType ==
  ASSUME TypeOK, Barriers \/ EnterTests
  PROVE  TypeOK'
<1>t. Tables /\ PcType /\ AtType /\ TestType /\ tgt \in [CPUs -> Nat] /\ mask \in Masks
  BY DEF TypeOK, Tables, PcType, AtType, TestType
<1>l. {"call", "t_global", "m_work", "m_done", "t_menu", "d_first"} \subseteq Places \cup TestPlaces
  BY DEF Places, TestPlaces
<1>1. CASE TestBarrier
  <2>1. AtType'
    BY <1>1, OnwardPlaces DEF TestBarrier, AtType
  <2>2. PcType' /\ tgt' \in [CPUs -> Nat] /\ UNCHANGED <<flags, old, sig>>
    BY <1>1 DEF TestBarrier, PcType, InHalt
  <2>3. mask' \in Masks /\ sel' \subseteq AllTests /\ menuing' \in BOOLEAN
    BY <1>1, <1>t DEF TestBarrier, TestType
  <2>4. n' \in [CPUs -> Nat]
    BY <1>1, <1>t DEF TestBarrier, TestType
  <2> QED BY <1>t, <2>1, <2>2, <2>3, <2>4 DEF TypeOK, Tables, PcType, AtType, TestType
<1>2. CASE PairBarrier \/ MmBarrier
  <2>1. AtType'
    BY <1>2, <1>l, <1>t DEF PairBarrier, MmBarrier, AtType
  <2>2. UNCHANGED <<smpVars, mask, sel, menuing, sig>>
    BY <1>2 DEF PairBarrier, MmBarrier
  <2>3. n' \in [CPUs -> Nat]
    BY <1>2, <1>t DEF PairBarrier, MmBarrier, TestType
  <2> QED BY <1>t, <2>1, <2>2, <2>3 DEF TypeOK, Tables, PcType, AtType, TestType, smpVars
<1>3. CASE GlobalBarrier /\ UNCHANGED testVars
  <2>1. AtType' /\ mask' \in Masks /\ UNCHANGED smpVars /\ UNCHANGED testVars
    BY <1>3, <1>l DEF GlobalBarrier, AtType
  <2> QED BY <1>t, <2>1 DEF TypeOK, Tables, PcType, AtType, TestType, smpVars, testVars
<1>4. CASE EnterTests
  <2>1. AtType' /\ mask' \in Masks /\ UNCHANGED <<smpVars, n, sig>>
    BY <1>4, <1>l, <1>t DEF EnterTests, AtType
  <2>2. sel' \subseteq AllTests /\ menuing' \in BOOLEAN
    BY <1>4 DEF EnterTests
  <2> QED BY <1>t, <2>1, <2>2 DEF TypeOK, Tables, PcType, AtType, TestType, smpVars
<1> QED BY <1>1, <1>2, <1>3, <1>4 DEF Barriers

LEMMA DeliveryType ==
  ASSUME TypeOK, NEW p \in CPUs, Delivery(p)
  PROVE  TypeOK'
<1>1. CASE TestInterrupt(p)
  <2>1. AtType'
    BY <1>1 DEF TestInterrupt, TypeOK, AtType, TestPlaces
  <2> QED BY <1>1, <2>1 DEF TestInterrupt, TypeOK, AtType, testVars
<1>2. CASE Deliver(p) /\ UNCHANGED testVars
  BY <1>2, SmpType DEF Deliver
<1> QED BY <1>1, <1>2 DEF Delivery

\* Every step keeps the types.
LEMMA TypeStep ==
  ASSUME Contiguous, TypeOK, [TestNext]_allVars
  PROVE  TypeOK'
<1>1. CASE UNCHANGED allVars
  BY <1>1 DEF TypeOK, allVars, vars, smpVars, collVars, testVars
<1>2. ASSUME NEW p \in CPUs, CpuStep(p) \/ Delivery(p)
      PROVE  TypeOK'
  BY <1>2, RegionType, TestCpuType, DeliveryType DEF CpuStep
<1> QED BY <1>1, <1>2, BarrierType DEF TestNext
-----------------------------------------------------------------------------
(* The steps of the collective regions.                                     *)

\* A CPU runs program text except at the calls of smp_halt() and smp_wakeup().
LEMMA PlacePc ==
  ASSUME TypeOK, NEW p \in CPUs, Local(p)
  PROVE  /\ HaltStep(p) \/ Interrupt(p) => at[p] \in HaltPlaces
         /\ WakeStep(p) => at[p] \in WakePlaces
         /\ at[p] \notin HaltPlaces \cup WakePlaces => pc[p] = "run"
<1>1. HaltStep(p) \/ Interrupt(p) => pc[p] \in InHalt
  BY DEF HaltStep, HaltLoad, HaltStore, HaltTest, Sleep, ClearLoad, ClearStore, Interrupt, Go, InHalt
<1>2. WakeStep(p) => pc[p] \in InWakeup
  BY DEF WakeStep, WakeWait, WakeLoad, WakeStore, WakeTest, SendIpi, Go, InWakeup
<1> QED BY <1>1, <1>2, PcOf DEF Local

LEMMA RegionsAre ==
  ASSUME TypeOK, TypeOK', Regions, UNCHANGED testVars, \A q \in CPUs : at'[q] \in Places,
         \/ Beginning'
         \/ \E o \in mask : mask' = mask /\ (Holding(o)' \/ Releasing(o)' \/ Ending(o)')
  PROVE  Regions'
<1>1. \A q \in CPUs : at'[q] \in Places /\ n'[q] = 0
  BY DEF Regions, testVars
<1>2. InRegions'
  BY DEF InRegions
<1> QED BY <1>1, <1>2 DEF Regions

LEMMA OthersBy ==
  ASSUME NEW w \in CPUs, mask' = mask, Wakes(w, Others), NEW p \in CPUs, p # w,
         Alone(p), tgt'[w] = tgt[w],
         p \in Others /\ Unwoken(p) => Unwoken(p)',
         p \in Others /\ Unwoken(p) /\ flags[p] = Bits => flags'[p] = Bits,
         p \in Others /\ Going(p) => Going(p)' \/ Awake(p)',
         p \in Others /\ Awake(p) => Awake(p)'
  PROVE  Wakes(w, Others)'
<1>1. PICK T \in SUBSET CPUs : T = Others
  BY DEF Others
<1>2. Wakes(w, T) /\ Others' = T
  BY <1>1 DEF Others
<1>3. Wakes(w, T)'
  BY <1>1, <1>2, WakesBy
<1> QED BY <1>2, <1>3 DEF Wakes

LEMMA EnterStep ==
  ASSUME Contiguous, TypeOK, TypeOK', Locals, Regions, NEW p \in CPUs, Enter(p), UNCHANGED testVars
  PROVE  Locals' /\ Regions'
<1> HIDE DEF cpu_online
<1>1. /\ pc[p] = "run" /\ at[p] = "call" /\ Alone(p)
      /\ at'[p] = IF p \in mask THEN "try" ELSE "halt"
      /\ pc'[p] = IF p \in mask THEN "run" ELSE "h_load"
      /\ UNCHANGED <<flags, old, tgt, mask, coll_mutex, coll_master, coll_mask, owner>>
  BY DEF Enter, Move, Go, TypeOK, Alone
<1>2. flags[p] = {}
  BY <1>1 DEF Locals, Local, HaltPlaces, WakePlaces
<1>3. Local(p)' /\ (p \notin mask => Unwoken(p)') /\ ~Awake(p) /\ ~Going(p)
  BY <1>1, <1>2 DEF Local, Unwoken, Awake, Going, HaltPlaces, WakePlaces, InHalt, InWakeup, InLoop
<1>4. Locals'
  BY <1>1, <1>3, Frame DEF Locals
<1>5. \A q \in CPUs : at'[q] \in Places
  BY <1>1 DEF Regions, Places, Alone
<1>6. \A q \in CPUs : q # p => at'[q] = at[q] /\ (Unwoken(q)' <=> Unwoken(q))
  BY <1>1, Frame DEF Alone
<1>7. mask \subseteq CPUs /\ mask # {} /\ Others \in SUBSET CPUs
  BY MaskFacts DEF Others
<1>8. CASE Beginning
  <2>1. Beginning'
    BY <1>1, <1>3, <1>6, <1>7, <1>8 DEF Beginning, Others
  <2> QED BY <1>4, <1>5, <2>1, RegionsAre
<1>9. ASSUME NEW o \in mask, Holding(o)
      PROVE  Regions'
  <2>1. Holding(o)'
    BY <1>1, <1>3, <1>6, <1>7, <1>9 DEF Holding, Others, Through
  <2> QED BY <1>1, <1>5, <2>1, RegionsAre
<1>10. ASSUME NEW o \in mask, Releasing(o)
       PROVE  Regions'
  <2>1. p # o /\ p \notin mask /\ o \in CPUs
    BY <1>1, <1>7, <1>10 DEF Releasing
  <2>2. Wakes(o, Others) /\ tgt'[o] = tgt[o] /\ flags[p] # Bits
    BY <1>1, <1>2, <1>10, BitFacts DEF Releasing
  <2>3. Wakes(o, Others)'
    BY <1>1, <1>3, <2>1, <2>2, OthersBy
  <2>4. Releasing(o)'
    BY <1>1, <1>6, <1>7, <1>10, <2>1, <2>3 DEF Releasing, Others
  <2> QED BY <1>1, <1>5, <2>4, RegionsAre
<1>11. ASSUME NEW o \in mask, Ending(o)
       PROVE  FALSE
  BY <1>1, <1>7, <1>11 DEF Ending, Others
<1> QED BY <1>4, <1>8, <1>9, <1>10, <1>11 DEF Regions, InRegions

\* The rest of collective_only() for a member: it does nothing to the others.
LEMMA MemberStep ==
  ASSUME Contiguous, TypeOK, TypeOK', Locals, Regions, NEW p \in CPUs,
         TryLock(p) \/ BecomeMaster(p) \/ WorkDone(p), UNCHANGED testVars
  PROVE  Locals' /\ Regions'
<1> HIDE DEF cpu_online
<1>1. /\ pc[p] = "run" /\ at[p] \in {"try", "own", "work"} /\ at'[p] \in {"own", "work", "end"}
      /\ Alone(p) /\ pc'[p] = "run"
      /\ UNCHANGED <<flags, old, tgt, mask>>
  BY DEF TryLock, BecomeMaster, WorkDone, Move, TypeOK, Alone, smpVars
<1>2. flags[p] = {}
  BY <1>1 DEF Locals, Local, HaltPlaces, WakePlaces
<1>3. Local(p)'
  BY <1>1, <1>2 DEF Local, HaltPlaces, WakePlaces, InHalt, InWakeup, InLoop
<1>4. Locals'
  BY <1>1, <1>3, Frame DEF Locals
<1>5. \A q \in CPUs : at'[q] \in Places
  BY <1>1 DEF Regions, Places, Alone
<1>6. \A q \in CPUs : q # p =>
        at'[q] = at[q] /\ (Unwoken(q)' <=> Unwoken(q)) /\ (Awake(q)' <=> Awake(q))
  BY <1>1, Frame DEF Alone
<1>7. mask \subseteq CPUs /\ mask # {} /\ p \in mask
  <2>1. p \notin Others
    BY <1>1 DEF Regions, InRegions, Beginning, Holding, Releasing, Ending
  <2> QED BY <2>1, MaskFacts DEF Others
<1>8. CASE TryLock(p)
  <2>1. CASE coll_mutex = 1
    <3>1. /\ at[p] = "try" /\ at'[p] = "own" /\ coll_mutex' = 0 /\ owner' = owner \cup {p}
      BY <1>8, <2>1 DEF TryLock, Move, TypeOK
    <3>2. Beginning
      BY <1>7, <2>1, <3>1 DEF Regions, InRegions, Holding, Releasing, Ending
    <3>3. Holding(p)'
      BY <1>1, <1>6, <1>7, <3>1, <3>2 DEF Beginning, Holding, Others
    <3> QED BY <1>1, <1>4, <1>5, <1>7, <3>3, RegionsAre
  <2>2. CASE coll_mutex # 1
    <3>1. /\ at[p] = "try" /\ at'[p] = "work"
          /\ UNCHANGED <<coll_mutex, coll_master, coll_mask, owner>>
      BY <1>8, <2>2 DEF TryLock, Move, TypeOK
    <3>2. PICK o \in mask : Holding(o)
      BY <1>7, <2>2, <3>1 DEF Regions, InRegions, Beginning, Releasing, Ending
    <3>3. Holding(o)'
      BY <1>1, <1>6, <1>7, <3>1, <3>2 DEF Holding, Others, Through
    <3> QED BY <1>1, <1>4, <1>5, <3>3, RegionsAre
  <2> QED BY <2>1, <2>2
<1>9. CASE BecomeMaster(p)
  <2>1. /\ at[p] = "own" /\ at'[p] = "work" /\ coll_master' = p /\ coll_mask' = mask
        /\ UNCHANGED <<coll_mutex, owner>>
    BY <1>9 DEF BecomeMaster, Move, TypeOK
  <2>2. Holding(p)
    BY <1>7, <2>1 DEF Regions, InRegions, Beginning, Holding, Releasing, Ending
  <2>3. Holding(p)'
    BY <1>1, <1>6, <1>7, <2>1, <2>2 DEF Holding, Others, Through
  <2> QED BY <1>1, <1>4, <1>5, <1>7, <2>3, RegionsAre
<1>10. CASE WorkDone(p)
  <2>1. /\ at[p] = "work" /\ at'[p] = "end" /\ Through
        /\ UNCHANGED <<coll_mutex, coll_master, coll_mask, owner>>
    BY <1>10 DEF WorkDone, Move, TypeOK, Through
  <2>2. ~Beginning
    BY <1>7, <2>1 DEF Beginning
  <2>3. ASSUME NEW o \in mask, Holding(o)
        PROVE  Holding(o)'
    BY <1>1, <1>6, <1>7, <2>1, <2>3 DEF Holding, Others, Through
  <2>4. ASSUME NEW o \in mask, Releasing(o)
        PROVE  Releasing(o)'
    <3>1. p # o /\ o \in CPUs /\ tgt'[o] = tgt[o] /\ p \notin Others
      BY <1>1, <1>7, <2>1, <2>4 DEF Releasing, Others
    <3>2. Wakes(o, Others)'
      BY <1>1, <2>4, <3>1, OthersBy DEF Releasing
    <3> QED BY <1>1, <1>6, <1>7, <2>1, <2>4, <3>1, <3>2 DEF Releasing, Others
  <2>5. ASSUME NEW o \in mask, Ending(o)
        PROVE  Ending(o)'
    BY <1>1, <1>6, <1>7, <2>1, <2>5 DEF Ending, Others
  <2>6. \E o \in mask : Holding(o)' \/ Releasing(o)' \/ Ending(o)'
    BY <2>2, <2>3, <2>4, <2>5 DEF Regions, InRegions
  <2> QED BY <1>1, <1>4, <1>5, <2>6, RegionsAre
<1> QED BY <1>8, <1>9, <1>10

\* A CPU that is out of smp_halt() goes to the barrier.
LEMMA WokenStep ==
  ASSUME Contiguous, TypeOK, TypeOK', Locals, Regions, NEW p \in CPUs, Woken(p), UNCHANGED testVars
  PROVE  Locals' /\ Regions'
<1> HIDE DEF cpu_online
<1>1. /\ pc[p] = "run" /\ at[p] = "halt" /\ at'[p] = "bar" /\ Alone(p) /\ pc'[p] = "run"
      /\ UNCHANGED <<flags, old, tgt, mask, coll_mutex, coll_master, coll_mask, owner>>
  BY DEF Woken, Move, TypeOK, Alone, smpVars
<1>2. flags[p] = {}
  BY <1>1 DEF Locals, Local
<1>3. Local(p)' /\ Awake(p)' /\ ~Unwoken(p) /\ ~Going(p)
  BY <1>1, <1>2 DEF Local, Unwoken, Awake, Going, HaltPlaces, WakePlaces, InHalt, InWakeup, InLoop
<1>4. Locals'
  BY <1>1, <1>3, Frame DEF Locals
<1>5. \A q \in CPUs : at'[q] \in Places
  BY <1>1 DEF Regions, Places, Alone
<1>6. \A q \in CPUs : q # p => at'[q] = at[q] /\ (Awake(q)' <=> Awake(q))
  BY <1>1, Frame DEF Alone
<1>7. mask \subseteq CPUs /\ mask # {}
  BY MaskFacts
<1>8. /\ ~Beginning /\ \A o \in mask : ~Holding(o)
      /\ p \notin mask
  BY <1>1, <1>3, <1>7 DEF Regions, InRegions, Beginning, Holding, Releasing, Ending, Others
<1>9. ASSUME NEW o \in mask, Releasing(o)
      PROVE  Releasing(o)'
  <2>1. p # o /\ o \in CPUs /\ tgt'[o] = tgt[o]
    BY <1>1, <1>7, <1>8
  <2>2. Wakes(o, Others)'
    BY <1>1, <1>3, <1>9, <2>1, OthersBy DEF Releasing
  <2> QED BY <1>1, <1>6, <1>7, <1>8, <1>9, <2>1, <2>2 DEF Releasing, Others
<1>10. ASSUME NEW o \in mask, Ending(o)
       PROVE  Ending(o)'
  BY <1>1, <1>3, <1>6, <1>7, <1>8, <1>10 DEF Ending, Others
<1>11. \E o \in mask : Releasing(o)' \/ Ending(o)'
  BY <1>8, <1>9, <1>10 DEF Regions, InRegions
<1> QED BY <1>1, <1>4, <1>5, <1>11, RegionsAre

\* collective_end(): the one that locked coll_mutex starts the loop, the others
\* go to the barrier.
LEMMA EndStep ==
  ASSUME Contiguous, TypeOK, TypeOK', Locals, Regions, NEW p \in CPUs, End(p), UNCHANGED testVars
  PROVE  Locals' /\ Regions'
<1>1. /\ pc[p] = "run" /\ at[p] = "end" /\ Alone(p) /\ pc'[p] = "run"
      /\ at'[p] = IF coll_master = p THEN "loop" ELSE "bar"
      /\ UNCHANGED <<flags, old, mask, coll_mutex, coll_master, coll_mask, owner>>
      /\ \A q \in CPUs : q # p => tgt'[q] = tgt[q]
      /\ coll_master = p => tgt'[p] = 0
  BY DEF End, Move, TypeOK, Alone
<1>0. cpu_online \in Nat /\ CPUs \subseteq Nat
  BY CpuFacts
<1> HIDE DEF cpu_online
<1>2. flags[p] = {}
  BY <1>1 DEF Locals, Local, HaltPlaces, WakePlaces
<1>3. Local(p)'
  BY <1>1, <1>2 DEF Local, HaltPlaces, WakePlaces, InHalt, InWakeup, InLoop
<1>4. Locals'
  BY <1>1, <1>3, Frame DEF Locals
<1>5. \A q \in CPUs : at'[q] \in Places
  BY <1>1 DEF Regions, Places, Alone
<1>6. \A q \in CPUs : q # p =>
        at'[q] = at[q] /\ (Unwoken(q)' <=> Unwoken(q)) /\ (Awake(q)' <=> Awake(q))
  BY <1>1, Frame DEF Alone
<1>7. mask \subseteq CPUs /\ mask # {} /\ p \in mask /\ p \notin Others
  <2>1. p \notin Others
    BY <1>1 DEF Regions, InRegions, Beginning, Holding, Releasing, Ending
  <2> QED BY <2>1, MaskFacts DEF Others
<1>8. ~Beginning
  BY <1>1, <1>7 DEF Beginning
<1>9. ASSUME NEW o \in mask, Holding(o)
      PROVE  Holding(o)' \/ Releasing(o)'
  <2>1. Through /\ coll_master = o /\ coll_mask = mask /\ o \in CPUs
    BY <1>1, <1>7, <1>9 DEF Holding, Through
  <2>2. CASE p = o
    <3>1. at'[o] = "loop" /\ tgt'[o] = 0 /\ pc'[o] = "run" /\ at'[o] \notin WakePlaces
      BY <1>1, <2>1, <2>2 DEF WakePlaces
    <3>2. \A q \in Others : Unwoken(q)' /\ (q > 0 \/ q = 0) /\ q \in Nat
      BY <1>0, <1>6, <1>7, <1>9, <2>2 DEF Holding, Others
    <3>3. Others' = Others
      BY <1>1 DEF Others
    <3>4. Wakes(o, Others)'
      BY <1>0, <3>1, <3>2, <3>3 DEF Wakes
    <3>5. Releasing(o)'
      BY <1>1, <1>6, <1>7, <1>9, <2>1, <2>2, <3>1, <3>3, <3>4 DEF Holding, Releasing, Through, Others
    <3> QED BY <3>5
  <2>3. CASE p # o
    <3>1. Holding(o)'
      BY <1>1, <1>6, <1>7, <1>9, <2>1, <2>3 DEF Holding, Through, Others
    <3> QED BY <3>1
  <2> QED BY <2>2, <2>3
<1>10. ASSUME NEW o \in mask, Releasing(o)
       PROVE  Releasing(o)'
  <2>1. p # o /\ o \in CPUs /\ tgt'[o] = tgt[o] /\ at'[p] = "bar"
    BY <1>1, <1>7, <1>10 DEF Releasing
  <2>2. Wakes(o, Others)'
    BY <1>1, <1>7, <1>10, <2>1, OthersBy DEF Releasing
  <2> QED BY <1>1, <1>6, <1>7, <1>10, <2>1, <2>2 DEF Releasing, Others
<1>11. ASSUME NEW o \in mask, Ending(o)
       PROVE  Ending(o)'
  BY <1>1, <1>6, <1>7, <1>11 DEF Ending, Others
<1>12. \E o \in mask : Holding(o)' \/ Releasing(o)' \/ Ending(o)'
  BY <1>8, <1>9, <1>10, <1>11 DEF Regions, InRegions
<1> QED BY <1>1, <1>4, <1>5, <1>12, RegionsAre

\* Only the one that locked coll_mutex is in the loop, and only it has a call of
\* smp_wakeup().
LEMMA WakerIs ==
  ASSUME TypeOK, Regions, NEW p \in CPUs, at[p] \in {"loop", "waking"}
  PROVE  p \in mask /\ p \notin Others /\ Releasing(p)
<1>1. mask \subseteq CPUs /\ mask # {}
  BY MaskFacts
<1> QED BY <1>1 DEF Regions, InRegions, Beginning, Holding, Releasing, Ending, Others

\* The loop of collective_end(): when it is over, all the others are awake.
LEMMA LoopStep ==
  ASSUME Contiguous, TypeOK, TypeOK', Locals, Regions, NEW p \in CPUs,
         WakeNext(p) \/ Advance(p) \/ Unlock(p), UNCHANGED testVars
  PROVE  Locals' /\ Regions'
<1>0. cpu_online \in Nat /\ CPUs \subseteq Nat /\ (\A q \in CPUs : q < cpu_online)
      /\ (\A u \in Nat : u < cpu_online => u \in CPUs) /\ tgt[p] \in Nat
  BY CpuFacts DEF TypeOK
<1> HIDE DEF cpu_online
<1>1. /\ pc[p] = "run" /\ at[p] \in {"loop", "waking"} /\ at'[p] \in {"loop", "waking", "bar"}
      /\ Alone(p) /\ UNCHANGED <<flags, old, mask, coll_master, coll_mask>>
  BY DEF WakeNext, Advance, Unlock, Move, Go, TypeOK, Alone
<1>2. p \in mask /\ p \notin Others /\ Releasing(p) /\ Wakes(p, Others) /\ coll_mask = mask
      /\ mask \subseteq CPUs
  BY <1>1, WakerIs, MaskFacts DEF Releasing
<1>3. flags[p] = {} /\ Others' = Others /\ p # p + 1
  BY <1>0, <1>1 DEF Locals, Local, Others
<1>4. \A q \in CPUs : q # p =>
        at'[q] = at[q] /\ (Unwoken(q)' <=> Unwoken(q)) /\ (Awake(q)' <=> Awake(q))
  BY <1>1, Frame DEF Alone
<1>5. \A q \in CPUs : at'[q] \in Places
  BY <1>1 DEF Regions, Places, Alone
<1>6. Local(p)' => Locals'
  BY <1>1, Frame DEF Locals
<1>7. CASE WakeNext(p)
  <2>1. /\ tgt[p] < cpu_online /\ tgt[p] \notin mask /\ at[p] = "loop" /\ at'[p] = "waking"
        /\ pc'[p] = "w_wait" /\ UNCHANGED <<tgt, coll_mutex, owner>>
    BY <1>2, <1>7 DEF WakeNext, Move, Go, TypeOK
  <2>2. tgt[p] \in Others /\ at[p] \notin WakePlaces
    BY <1>0, <2>1 DEF Others, WakePlaces
  <2>3. Local(p)'
    BY <1>1, <1>3, <2>1 DEF Local, HaltPlaces, WakePlaces, InHalt, InWakeup, InLoop
  <2>4. \A q \in Others : (q > tgt[p] => Unwoken(q)') /\ (q < tgt[p] => Awake(q)')
                          /\ (q = tgt[p] => Unwoken(q)')
    BY <1>2, <1>4, <2>2 DEF Wakes, Others
  <2>5. Wakes(p, Others)'
    BY <1>2, <1>3, <2>1, <2>2, <2>4 DEF Wakes
  <2>6. Releasing(p)'
    BY <1>1, <1>2, <1>3, <1>4, <2>1, <2>5 DEF Releasing, Others
  <2> QED BY <1>1, <1>2, <1>5, <1>6, <2>3, <2>6, RegionsAre
<1>8. CASE Advance(p)
  <2>1. /\ \/ at[p] = "waking"
           \/ at[p] = "loop" /\ tgt[p] < cpu_online /\ tgt[p] \in mask
        /\ at'[p] = "loop" /\ pc'[p] = "run" /\ tgt'[p] = tgt[p] + 1
        /\ UNCHANGED <<coll_mutex, owner>>
    BY <1>1, <1>2, <1>8 DEF Advance, Move, TypeOK
  <2>2. tgt[p] < cpu_online /\ tgt[p] + 1 <= cpu_online
    <3>1. at[p] = "waking" => tgt[p] \in Others
      BY <1>2 DEF Wakes, WakePlaces
    <3>2. tgt[p] < cpu_online
      BY <1>0, <2>1, <3>1 DEF Others
    <3> QED BY <1>0, <3>2
  <2>3. Local(p)'
    BY <1>1, <1>3, <2>1 DEF Local, HaltPlaces, WakePlaces, InHalt, InWakeup, InLoop
  <2>4. \A q \in Others : q = tgt[p] => Awake(q)
    BY <1>1, <1>2, <2>1 DEF Wakes, WakePlaces, Others
  <2>5. \A q \in Others : (q > tgt[p] => Unwoken(q)') /\ (q < tgt[p] => Awake(q)')
                          /\ (q = tgt[p] => Awake(q)')
    BY <1>2, <1>4, <2>4 DEF Wakes, Others
  <2>6. \A q \in Others : (q > tgt'[p] => Unwoken(q)') /\ (q < tgt'[p] => Awake(q)')
                          /\ (q = tgt'[p] => Unwoken(q)')
    <3>1. Others \subseteq Nat
      BY <1>0 DEF Others
    <3>2. \A q \in Nat : /\ q > tgt[p] + 1 => q > tgt[p]
                         /\ q < tgt[p] + 1 => q < tgt[p] \/ q = tgt[p]
                         /\ q = tgt[p] + 1 => q > tgt[p]
      BY <1>0
    <3> QED BY <2>1, <2>5, <3>1, <3>2
  <2>7. Wakes(p, Others)'
    BY <1>3, <2>1, <2>2, <2>6 DEF Wakes, WakePlaces
  <2>8. Releasing(p)'
    BY <1>1, <1>2, <1>3, <1>4, <2>1, <2>7 DEF Releasing, Others
  <2> QED BY <1>1, <1>2, <1>5, <1>6, <2>3, <2>8, RegionsAre
<1>9. CASE Unlock(p)
  <2>1. /\ tgt[p] = cpu_online /\ at[p] = "loop" /\ at'[p] = "bar" /\ pc'[p] = "run"
        /\ coll_mutex' = 1 /\ owner' = {}
    BY <1>1, <1>9 DEF Unlock, Move, TypeOK
  <2>2. Local(p)'
    BY <1>1, <1>3, <2>1 DEF Local, HaltPlaces, WakePlaces, InHalt, InWakeup, InLoop
  <2>3. \A q \in Others : Awake(q)
    BY <1>0, <1>2, <2>1 DEF Wakes, Others
  <2>4. \A q \in Others : Awake(q)' /\ at[q] # "call" /\ at'[q] = at[q]
    BY <1>2, <1>4, <2>3 DEF Others, Awake, HaltPlaces
  <2>5. Ending(p)'
    BY <1>1, <1>2, <1>3, <1>4, <2>1, <2>4 DEF Releasing, Ending, Others
  <2> QED BY <1>1, <1>2, <1>5, <1>6, <2>2, <2>5, RegionsAre
<1> QED BY <1>7, <1>8, <1>9

\* smp_halt() on the one side, and an interrupt in it.
LEMMA RegionHalting ==
  ASSUME Contiguous, TypeOK, TypeOK', Locals, Regions, NEW p \in CPUs, HaltStep(p) \/ Interrupt(p),
         UNCHANGED collVars, UNCHANGED testVars
  PROVE  Locals' /\ Regions'
<1> HIDE DEF cpu_online
<1>1. UNCHANGED <<at, mask, coll_mutex, coll_master, coll_mask, owner>>
  BY DEF collVars
<1>2. Halting(p)
  BY <1>1, HaltLocal, InterruptLocal DEF Locals
<1>3. Alone(p) /\ tgt' = tgt /\ Local(p)' /\ at[p] \in HaltPlaces
  BY <1>1, <1>2 DEF Halting, Alone
<1>4. Locals'
  BY <1>3, Frame DEF Locals
<1>5. (\A q \in CPUs : at'[q] \in Places) /\ at[p] = "halt"
  BY <1>1, <1>3 DEF Regions, HaltPlaces, Places
<1>6. \A q \in CPUs : q # p => (Unwoken(q)' <=> Unwoken(q)) /\ (Awake(q)' <=> Awake(q))
  BY <1>3, Frame
<1>7. mask \subseteq CPUs /\ Others' = Others
  BY <1>1, MaskFacts DEF Others
<1>8. p \in Others
  BY <1>5, <1>7 DEF Regions, InRegions, Beginning, Holding, Releasing, Ending, Others
<1>9. CASE Beginning
  <2>1. Beginning'
    BY <1>1, <1>2, <1>6, <1>7, <1>9 DEF Beginning, Others, Halting
  <2> QED BY <1>4, <1>5, <2>1, RegionsAre
<1>10. ASSUME NEW o \in mask, Holding(o)
       PROVE  Regions'
  <2>1. Holding(o)'
    BY <1>1, <1>2, <1>6, <1>7, <1>10 DEF Holding, Others, Through, Halting
  <2> QED BY <1>1, <1>5, <2>1, RegionsAre
<1>11. ASSUME NEW o \in mask, Releasing(o)
       PROVE  Regions'
  <2>1. p # o /\ o \in CPUs
    BY <1>7, <1>8, <1>11 DEF Others
  <2>2. PICK T \in SUBSET CPUs : T = Others
    BY DEF Others
  <2>3. Wakes(o, T)'
    BY <1>1, <1>2, <1>11, <2>1, <2>2, WakesHalting DEF Releasing
  <2>4. Wakes(o, Others)'
    BY <1>7, <2>2, <2>3 DEF Wakes
  <2>5. Releasing(o)'
    BY <1>1, <1>7, <1>11, <2>4 DEF Releasing, Others
  <2> QED BY <1>1, <1>5, <2>5, RegionsAre
<1>12. ASSUME NEW o \in mask, Ending(o)
       PROVE  FALSE
  BY <1>2, <1>5, <1>8, <1>12, PcOf DEF Ending, Awake, Halting, InHalt
<1> QED BY <1>4, <1>9, <1>10, <1>11, <1>12 DEF Regions, InRegions

\* smp_wakeup() on the other.
LEMMA RegionWaking ==
  ASSUME Contiguous, TypeOK, TypeOK', Locals, Regions, NEW p \in CPUs, WakeStep(p),
         UNCHANGED collVars, UNCHANGED testVars
  PROVE  Locals' /\ Regions'
<1> HIDE DEF cpu_online
<1>1. UNCHANGED <<at, mask, coll_mutex, coll_master, coll_mask, owner>>
  BY DEF collVars
<1>2. at[p] = "waking"
  BY PlacePc DEF Locals, Regions, WakePlaces, Places
<1>3. p \in mask /\ p \notin Others /\ Releasing(p)
  BY <1>2, WakerIs
<1>4. PICK T \in SUBSET CPUs : T = Others /\ T = Others'
  BY <1>1 DEF Others
<1>5. Wakes(p, T)' /\ Locals'
  BY <1>1, <1>3, <1>4, WakesSmp DEF Releasing
<1>6. Wakes(p, Others)'
  BY <1>4, <1>5 DEF Wakes
<1>7. Releasing(p)'
  BY <1>1, <1>3, <1>6 DEF Releasing, Others
<1>8. \A q \in CPUs : at'[q] \in Places
  BY <1>1 DEF Regions
<1> QED BY <1>1, <1>3, <1>5, <1>7, <1>8, RegionsAre

\* At the end of a round all CPUs have reached the barrier.
LEMMA RoundOver ==
  ASSUME TypeOK, Locals, Regions, \A p \in CPUs : at[p] = "bar"
  PROVE  coll_mutex = 1 /\ owner = {} /\ \A p \in CPUs : pc[p] = "run" /\ flags[p] = {}
<1>1. mask \subseteq CPUs /\ mask # {}
  BY MaskFacts
<1>2. \E o \in mask : Ending(o)
  BY <1>1 DEF Regions, InRegions, Beginning, Holding, Releasing
<1>3. \A p \in CPUs : pc[p] = "run" /\ flags[p] = {}
  BY DEF Locals, Local, HaltPlaces, WakePlaces
<1> QED BY <1>2, <1>3 DEF Ending

\* All CPUs run, with their flags clear, at a place outside of the two functions.
LEMMA LocalsRun ==
  ASSUME \A p \in CPUs : /\ pc'[p] = "run" /\ flags'[p] = {}
  PROVE  Locals'
BY DEF Locals, Local, InHalt, InWakeup, InLoop

LEMMA RoundStarts ==
  ASSUME TypeOK', \A p \in CPUs : at'[p] = "call" /\ pc'[p] = "run" /\ flags'[p] = {} /\ n'[p] = 0,
         coll_mutex' = 1, owner' = {}
  PROVE  Locals' /\ Regions'
<1>1. mask' \subseteq CPUs
  BY MasksAssumption DEF TypeOK
<1>2. \A q \in CPUs : Unwoken(q)' /\ at'[q] \in Places
  BY DEF Unwoken, Places
<1>3. Beginning'
  BY <1>1, <1>2 DEF Beginning, Others
<1> QED BY <1>2, <1>3, LocalsRun DEF Regions, InRegions

LEMMA GlobalStep ==
  ASSUME TypeOK, TypeOK', Locals, Regions, GlobalBarrier, UNCHANGED testVars
  PROVE  Locals' /\ Regions'
<1>1. /\ \A p \in CPUs : at[p] = "bar" /\ at'[p] = "call"
      /\ UNCHANGED <<coll_mutex, owner, pc, flags, n>>
  BY DEF GlobalBarrier, smpVars, testVars
<1>2. coll_mutex = 1 /\ owner = {} /\ \A p \in CPUs : pc[p] = "run" /\ flags[p] = {}
  BY <1>1, RoundOver
<1>3. \A p \in CPUs : n[p] = 0
  BY DEF Regions
<1> QED BY <1>1, <1>2, <1>3, RoundStarts

\* From a round to the tests.
LEMMA EnterTestsStep ==
  ASSUME TypeOK, TypeOK', Locals, Regions, EnterTests
  PROVE  Locals' /\ Testing'
<1>1. /\ \A p \in CPUs : at[p] = "bar" /\ at'[p] = IF menuing' THEN "t_menu" ELSE "d_first"
      /\ UNCHANGED <<coll_mutex, owner, pc, flags, n>> /\ sel' = AllTests
  BY DEF EnterTests, smpVars
<1>2. coll_mutex = 1 /\ owner = {} /\ \A p \in CPUs : pc[p] = "run" /\ flags[p] = {}
  BY <1>1, RoundOver
<1>3. \A p \in CPUs : n'[p] = 0
  BY <1>1 DEF Regions
<1>4. CASE menuing'
  <2>1. Meeting("t_menu")'
    BY <1>1, <1>3, <1>4 DEF Meeting
  <2>2. "t_menu" \in Ends /\ "t_menu" # "d_first"
    BY DEF Ends
  <2>3. InTest'
    BY <1>4, <2>1, <2>2 DEF InTest
  <2> QED BY <1>1, <1>2, <2>3, LocalsRun DEF Testing
<1>5. CASE ~menuing'
  <2>1. Meeting("d_first")'
    BY <1>1, <1>3, <1>5 DEF Meeting
  <2>2. "t_menu" # "d_first"
    OBVIOUS
  <2>3. InTest'
    BY <1>5, <2>1, <2>2 DEF InTest
  <2> QED BY <1>1, <1>2, <2>3, LocalsRun DEF Testing
<1> QED BY <1>4, <1>5
-----------------------------------------------------------------------------
(* The steps of the self tests.                                             *)

LEMMA FollowingIs ==
  /\ \A p : After(p, 2) = Following
  /\ ~menuing /\ sel = AllTests => Following = "i_first"
  /\ Following \in Ends \cup {"call"}
  /\ Following = "t_menu" => menuing
  /\ Following = "call" => ~menuing
<1>1. \A p : After(p, 2) = Following
  BY AfterCases, Zenon DEF Following
<1>2. sel = AllTests => "ipi" \in sel
  BY OrderIs DEF AllTests
<1> QED BY <1>1, <1>2 DEF Following, Ends

\* Which tests a place belongs to.
LEMMA SegmentOf ==
  ASSUME Contiguous, TypeOK, Testing, NEW p \in CPUs
  PROVE  /\ at[p] \in TestPlaces
         /\ at[p] \in {"f_signal", "f_wait", "m_alloc", "m_barr", "m_work", "m_done"} =>
              \E l \in Ends : Working(l)
         /\ at[p] \in {"i_self", "i_send", "i_hlt", "i_asleep", "i_second"} => Sending
         /\ at[p] \in {"i_wake", "i_waking", "i_halt"} => Waking
         /\ at[p] \in {"t_select", "t_result"} => Choosing /\ menuing
         /\ at[p] = "t_barr2" => Pairing
<1> HIDE DEF cpu_online
<1> DEFINE Goal ==
         /\ at[p] \in TestPlaces
         /\ at[p] \in {"f_signal", "f_wait", "m_alloc", "m_barr", "m_work", "m_done"} =>
              \E l \in Ends : Working(l)
         /\ at[p] \in {"i_self", "i_send", "i_hlt", "i_asleep", "i_second"} => Sending
         /\ at[p] \in {"i_wake", "i_waking", "i_halt"} => Waking
         /\ at[p] \in {"t_select", "t_result"} => Choosing /\ menuing
         /\ at[p] = "t_barr2" => Pairing
<1>1. ASSUME NEW l \in Ends \cup {"d_first", "f_enter", "i_last"}, Meeting(l)
      PROVE  Goal
  BY <1>1 DEF Meeting, Ends, TestPlaces
<1>2. CASE Choosing /\ menuing
  BY <1>2 DEF Choosing, TestPlaces
<1>3. CASE Pairing
  BY <1>3 DEF Pairing, TestPlaces
<1>4. ASSUME NEW c, Counting(c)
      PROVE  Goal
  BY <1>4 DEF Counting, TestPlaces
<1>5. ASSUME NEW l \in Ends, Working(l)
      PROVE  Goal
  <2>1. at[p] \in {"f_signal", "f_wait", "m_alloc", "m_barr", "m_work", "m_done"} \cup Ends
    BY <1>5 DEF Working
  <2> QED BY <1>5, <2>1 DEF Ends, TestPlaces
<1>6. CASE Sending
  BY <1>6 DEF Sending, TestPlaces
<1>7. CASE Waking
  <2>1. at[p] \in {"i_wake", "i_waking", "i_last", "i_halt"}
    BY <1>7 DEF Waking
  <2> QED BY <1>7, <2>1 DEF TestPlaces
<1> QED BY <1>1, <1>2, <1>3, <1>4, <1>5, <1>6, <1>7 DEF Testing, InTest

\* A CPU that runs has its flags clear.
LEMMA RunClear ==
  ASSUME Locals, NEW p \in CPUs
  PROVE  /\ pc[p] = "run" => flags[p] = {}
         /\ at[p] \notin HaltPlaces \cup WakePlaces => pc[p] = "run"
BY DEF Locals, Local

LEMMA TestingIs ==
  ASSUME InTest', coll_mutex' = 1, owner' = {}, ~menuing' => sel' = AllTests
  PROVE  Testing'
BY DEF Testing
-----------------------------------------------------------------------------
(* The global barrier in the tests.                                         *)

\* What it does to the CPUs ...
LEMMA Opened ==
  ASSUME Contiguous, TypeOK, Locals, Testing, TestBarrier
  PROVE  /\ \A p \in CPUs : /\ at[p] \in GlobalPlaces /\ at'[p] = Onward(p) /\ flags'[p] = {}
                            /\ n'[p] = IF Again(p) THEN n[p] + 1 ELSE 0
                            /\ pc'[p] = IF at'[p] = "i_halt" THEN "h_load" ELSE "run"
                            /\ tgt'[p] = IF at'[p] = "i_wake" THEN 1 ELSE 0
         /\ (\A p \in CPUs : at'[p] # "call") =>
              menuing' = menuing /\ (at'[0] \notin {"t_menu", "t_select"} => sel' = sel)
         /\ coll_mutex' = 1 /\ owner' = {} /\ shared' = {}
<1>1. \A p \in CPUs : pc[p] = "run" /\ flags[p] = {}
  BY RunClear DEF TestBarrier
<1>2. (\A p \in CPUs : at'[p] # "call") =>
        menuing' = menuing /\ (at'[0] \notin {"t_menu", "t_select"} => sel' = sel)
  BY DEF TestBarrier, Leaving, TypeOK
<1> QED BY <1>1, <1>2 DEF TestBarrier, Testing

\* ... that all come from the same place.
LEMMA Together ==
  ASSUME Contiguous, TypeOK, Testing, \A p \in CPUs : at[p] \in GlobalPlaces
  PROVE  \/ \E l \in Ends \cup {"d_first", "f_enter", "i_last"} :
              Meeting(l) /\ (l = "d_first" => ~menuing) /\ (l = "t_menu" => menuing)
         \/ Meeting("t_result") /\ menuing
         \/ Meeting("i_second")
         \/ \E c \in 0..(Rounds + 1) : Counting(c)
<1>0. 0 \in CPUs
  BY CpuFacts
<1>r. Rounds \in Nat /\ 0 \in 0..(Rounds + 1)
  BY TestsAssumption
<1> HIDE DEF cpu_online
<1>1. CASE Choosing /\ menuing
  <2>1. Meeting("t_result")
    BY <1>1 DEF Choosing, Meeting, GlobalPlaces
  <2> QED BY <1>1, <2>1
<1>2. CASE Pairing
  <2>1. Counting(0)
    BY <1>2 DEF Pairing, Counting, GlobalPlaces
  <2> QED BY <1>r, <2>1
<1>3. ASSUME NEW l \in Ends, Working(l)
      PROVE  Meeting(l) /\ (l = "t_menu" => menuing) /\ l # "d_first"
  <2>1. Meeting(l)
    BY <1>3 DEF Working, Meeting, GlobalPlaces, MmPlaces
  <2> QED BY <1>3, <2>1, FollowingIs DEF Working, Ends
<1>4. CASE Sending
  BY <1>4 DEF Sending, Meeting, GlobalPlaces
<1>5. CASE Waking
  <2>1. Meeting("i_last")
    BY <1>0, <1>5 DEF Waking, Meeting, GlobalPlaces
  <2>2. "i_last" # "d_first" /\ "i_last" # "t_menu"
    OBVIOUS
  <2> QED BY <2>1, <2>2
<1>6. ASSUME NEW c \in 1..(Rounds + 1), Counting(c)
      PROVE  \E d \in 0..(Rounds + 1) : Counting(d)
  BY <1>r, <1>6
<1> QED BY <1>1, <1>2, <1>3, <1>4, <1>5, <1>6 DEF Testing, InTest

\* All go on to the same place v: another call of the barrier, or a benchmark.
LEMMA MeetAfter ==
  ASSUME Contiguous, TypeOK, TypeOK', Locals, Testing, TestBarrier,
         NEW v \in {"f_enter", "i_last", "call"} \cup Ends, \A p \in CPUs : Onward(p) = v /\ ~Again(p),
         v = "t_menu" => menuing
  PROVE  Locals' /\ (Regions' \/ Testing')
<1>0. 0 \in CPUs /\ v # "i_halt"
  BY CpuFacts DEF Ends
<1> HIDE DEF cpu_online
<1>1. /\ \A p \in CPUs : at'[p] = v /\ flags'[p] = {} /\ n'[p] = 0 /\ pc'[p] = "run"
      /\ coll_mutex' = 1 /\ owner' = {}
  BY <1>0, Opened
<1>2. CASE v = "call"
  BY <1>1, <1>2, RoundStarts
<1>3. CASE v # "call"
  <2>1. menuing' = menuing /\ (v # "t_menu" => sel' = sel)
    BY <1>0, <1>1, <1>3, Opened DEF Ends
  <2>2. Meeting(v)'
    BY <1>1 DEF Meeting
  <2>3. v \in Ends \cup {"d_first", "f_enter", "i_last"} /\ v # "d_first"
    BY <1>3 DEF Ends
  <2>4. InTest'
    BY <2>1, <2>2, <2>3 DEF InTest
  <2>5. ~menuing' => sel' = AllTests
    BY <2>1 DEF Testing
  <2> QED BY <1>1, <2>4, <2>5, LocalsRun, TestingIs
<1> QED BY <1>2, <1>3

\* They leave for the first test that is selected.
LEMMA FirstTest ==
  ASSUME Contiguous, TypeOK, TypeOK', Locals, Testing, TestBarrier,
         \A p \in CPUs : Onward(p) = After(p, 0) /\ ~Again(p)
  PROVE  Locals' /\ (Regions' \/ Testing')
<1>0. 0 \in CPUs /\ CPUs \subseteq Nat /\ cpu_online \in Nat
  BY CpuFacts
<1>p. \A p \in CPUs : Pair(p) => Pair(0)
  BY <1>0 DEF Pair
<1> HIDE DEF cpu_online
<1>a. "barrier" \in AllTests
  BY OrderIs DEF AllTests
<1>1. /\ \A p \in CPUs : /\ at'[p] = Onward(p) /\ flags'[p] = {} /\ n'[p] = 0
                         /\ pc'[p] = IF at'[p] = "i_halt" THEN "h_load" ELSE "run"
      /\ coll_mutex' = 1 /\ owner' = {}
  BY Opened
<1>2. CASE "barrier" \in sel
  <2>1. \A p \in CPUs : at'[p] = IF Pair(p) THEN "t_barr2" ELSE "t_global"
    BY <1>1, <1>2, AfterCases
  <2>2. Locals' /\ menuing' = menuing /\ sel' = sel
    BY <1>0, <1>1, <2>1, LocalsRun, Opened
  <2>3. \A p \in CPUs : /\ Pair(p) => at'[p] = at'[0] /\ n'[p] = n'[0] /\ at'[p] = "t_barr2"
                        /\ ~Pair(p) => at'[p] = "t_global"
                        /\ n'[p] = 0
    BY <1>0, <1>p, <1>1, <2>1
  <2>4. Pairing'
    BY <2>3 DEF Pairing
  <2> QED BY <1>1, <2>2, <2>4, TestingIs DEF InTest, Testing
<1>3. CASE "barrier" \notin sel /\ "mm" \in sel
  <2>1. \A p \in CPUs : at'[p] = IF ~Pair(p) THEN "m_done" ELSE IF p = 0 THEN "m_alloc" ELSE "m_barr"
    BY <1>1, <1>3, AfterCases
  <2>2. Locals' /\ menuing' = menuing /\ sel' = sel
    BY <1>0, <1>1, <2>1, LocalsRun, Opened
  <2>3. menuing
    BY <1>3, <1>a DEF Testing
  <2>4. Following' = Following /\ Following \in Ends
    BY <2>2, <2>3, FollowingIs DEF Following
  <2>5. Working(Following)'
    BY <1>0, <1>1, <2>1, <2>4 DEF Working, Pair, MmPlaces
  <2> QED BY <1>1, <2>2, <2>4, <2>5, TestingIs DEF InTest, Testing
<1>4. CASE "barrier" \notin sel /\ "mm" \notin sel
  <2>1. \A p \in CPUs : Onward(p) = Following
    BY <1>1, <1>4, AfterCases, FollowingIs
  <2> QED BY <2>1, FollowingIs, MeetAfter
<1> QED BY <1>2, <1>3, <1>4

\* From the barrier of tests_flag() to its flag and to tests_mm().
LEMMA FlagTest ==
  ASSUME Contiguous, TypeOK, TypeOK', Locals, Testing, TestBarrier, Meeting("f_enter")
  PROVE  Locals' /\ Testing'
<1>0. 0 \in CPUs /\ CPUs \subseteq Nat
  BY CpuFacts
<1>a. "ipi" \in AllTests
  BY OrderIs DEF AllTests
<1> HIDE DEF cpu_online
<1>1. \A p \in CPUs : /\ at'[p] = Onward(p) /\ flags'[p] = {} /\ n'[p] = 0 /\ at[p] = "f_enter"
                      /\ pc'[p] = IF at'[p] = "i_halt" THEN "h_load" ELSE "run"
  BY Opened DEF Meeting, Again
<1>2. Following \in Ends \/ (Following = "call" /\ ~menuing)
  BY FollowingIs
<1>3. Following \in Ends /\ Following # "call"
  BY <1>2, FollowingIs DEF Testing, Ends
<1>4. \A p \in CPUs : p # 0 /\ p # 1 => After(p, 1) \in {"m_done", Following}
  <2>1. \A p \in CPUs : p # 0 /\ p # 1 => ~Pair(p)
    BY <1>0 DEF Pair
  <2> QED BY <2>1, AfterCases, FollowingIs
<1>5. \A p \in CPUs : \/ p = 0 /\ at'[p] = "f_signal"
                      \/ p = 1 /\ at'[p] = "f_wait"
                      \/ at'[p] \in {"m_done", Following}
  BY <1>1, <1>4, OnwardIs
<1>6. \A p \in CPUs : at'[p] \notin {"call", "i_halt"} /\ at'[p] \notin MmPlaces
  BY <1>3, <1>5 DEF Ends, MmPlaces
<1>7. menuing' = menuing /\ sel' = sel /\ coll_mutex' = 1 /\ owner' = {}
  <2>1. at'[0] \notin {"t_menu", "t_select"}
    BY <1>0, <1>1, OnwardIs
  <2> QED BY <2>1, <1>6, Opened
<1>8. Following' = Following
  BY <1>7 DEF Following
<1>9. Working(Following)'
  BY <1>1, <1>5, <1>6, <1>8 DEF Working
<1>10. Locals'
  BY <1>1, <1>6, LocalsRun
<1>11. InTest'
  BY <1>3, <1>8, <1>9 DEF InTest
<1> QED BY <1>7, <1>10, <1>11, TestingIs DEF Testing

\* tests_ipi(): from the first barrier to the hlt, ...
LEMMA IpiTest ==
  ASSUME Contiguous, TypeOK, TypeOK', Locals, Testing, TestBarrier, Meeting("i_first")
  PROVE  Locals' /\ (Regions' \/ Testing')
<1>0. 0 \in CPUs
  BY CpuFacts
<1> HIDE DEF cpu_online
<1>1. CASE cpu_online = 1
  <2>1. \A p \in CPUs : Onward(p) = "i_last" /\ ~Again(p)
    BY <1>1, OnwardIs DEF Meeting, Again
  <2>2. "i_last" # "t_menu"
    OBVIOUS
  <2> QED BY <2>1, <2>2, MeetAfter
<1>2. CASE cpu_online # 1
  <2>1. \A p \in CPUs : /\ at'[p] = IF p = 0 THEN "i_self" ELSE "i_hlt"
                        /\ flags'[p] = {} /\ n'[p] = 0 /\ pc'[p] = "run"
    BY <1>2, Opened, OnwardIs DEF Meeting, Again
  <2>2. menuing' = menuing /\ sel' = sel /\ coll_mutex' = 1 /\ owner' = {}
    BY <1>0, <2>1, Opened
  <2>3. Sending'
    BY <2>1 DEF Sending
  <2>4. Locals' /\ InTest'
    BY <2>1, <2>3, LocalsRun DEF InTest
  <2> QED BY <2>2, <2>4, TestingIs DEF Testing
<1> QED BY <1>1, <1>2

\* ... and from the second to smp_halt() and smp_wakeup().
LEMMA SecondBarrier ==
  ASSUME Contiguous, TypeOK, TypeOK', Locals, Testing, TestBarrier, Meeting("i_second")
  PROVE  Locals' /\ Testing'
<1>0. 0 \in CPUs /\ CPUs \subseteq Nat /\ cpu_online \in Nat /\ cpu_online > 0
  BY CpuFacts
<1> HIDE DEF cpu_online
<1>1. \A p \in CPUs : /\ at'[p] = IF p = 0 THEN "i_wake" ELSE "i_halt"
                      /\ flags'[p] = {} /\ n'[p] = 0
                      /\ pc'[p] = IF p = 0 THEN "run" ELSE "h_load"
                      /\ tgt'[p] = IF p = 0 THEN 1 ELSE 0
  BY Opened, OnwardIs DEF Meeting, Again
<1>2. menuing' = menuing /\ sel' = sel /\ coll_mutex' = 1 /\ owner' = {}
  BY <1>0, <1>1, Opened
<1>3. Locals'
  BY <1>1 DEF Locals, Local, HaltPlaces, WakePlaces, InHalt, InWakeup, InLoop
<1>4. \A p \in CPUs : p # 0 => Unwoken(p)'
  BY <1>1 DEF Unwoken, HaltPlaces
<1>5. Wakes(0, CPUs \ {0})'
  <2>1. \A p \in CPUs \ {0} : Unwoken(p)' /\ ~(p < 1)
    BY <1>0, <1>4
  <2>2. tgt'[0] = 1 /\ tgt'[0] <= cpu_online /\ at'[0] \notin WakePlaces /\ pc'[0] = "run"
    BY <1>0, <1>1 DEF WakePlaces
  <2> QED BY <2>1, <2>2 DEF Wakes
<1>6. Waking'
  BY <1>0, <1>1, <1>5 DEF Waking
<1>7. InTest'
  BY <1>6 DEF InTest
<1> QED BY <1>2, <1>3, <1>7, TestingIs DEF Testing

\* tests_barrier(): once more around, or on to tests_flag().
LEMMA CountTest ==
  ASSUME Contiguous, TypeOK, TypeOK', Locals, Testing, TestBarrier,
         NEW c \in 0..(Rounds + 1), Counting(c)
  PROVE  Locals' /\ (Regions' \/ Testing')
<1>0. 0 \in CPUs
  BY CpuFacts
<1>r. Rounds \in Nat /\ c \in Nat
  BY TestsAssumption
<1> HIDE DEF cpu_online
<1>1. CASE c < Rounds + 1
  <2>1. \A p \in CPUs : /\ at'[p] = "t_global" /\ n'[p] = c + 1 /\ flags'[p] = {} /\ pc'[p] = "run"
    BY <1>1, Opened, OnwardIs DEF Counting, Again
  <2>2. menuing' = menuing /\ sel' = sel /\ coll_mutex' = 1 /\ owner' = {}
    BY <1>0, <2>1, Opened
  <2>3. Counting(c + 1)' /\ c + 1 \in 1..(Rounds + 1)
    BY <1>1, <1>r, <2>1 DEF Counting
  <2>4. InTest'
    BY <2>3 DEF InTest
  <2>5. Locals'
    BY <2>1, LocalsRun
  <2> QED BY <2>2, <2>4, <2>5, TestingIs DEF Testing
<1>2. CASE ~(c < Rounds + 1)
  <2>1. \A p \in CPUs : Onward(p) = "f_enter" /\ ~Again(p)
    BY <1>2, OnwardIs DEF Counting, Again
  <2>2. "f_enter" # "t_menu"
    OBVIOUS
  <2> QED BY <2>1, <2>2, MeetAfter
<1> QED BY <1>1, <1>2

\* The user has the menu before him, and the others wait for the choice.
LEMMA MenuTest ==
  ASSUME Contiguous, TypeOK, TypeOK', Locals, Testing, TestBarrier, Meeting("t_menu"), menuing
  PROVE  Locals' /\ Testing'
<1>0. 0 \in CPUs
  BY CpuFacts
<1> HIDE DEF cpu_online
<1>1. \A p \in CPUs : /\ at'[p] = IF p = 0 THEN "t_select" ELSE "t_result"
                      /\ n'[p] = 0 /\ flags'[p] = {} /\ pc'[p] = "run"
  BY Opened, OnwardIs DEF Meeting, Again
<1>2. menuing' = menuing /\ coll_mutex' = 1 /\ owner' = {}
  BY <1>1, Opened
<1>3. Choosing'
  BY <1>1 DEF Choosing
<1>4. InTest' /\ Locals'
  BY <1>1, <1>2, <1>3, LocalsRun DEF InTest
<1> QED BY <1>2, <1>4, TestingIs

\* They have the choice.
LEMMA ResultTest ==
  ASSUME Contiguous, TypeOK, TypeOK', Locals, Testing, TestBarrier, Meeting("t_result"), menuing
  PROVE  Locals' /\ (Regions' \/ Testing')
<1> HIDE DEF cpu_online
<1>1. CASE sel = {}
  <2>1. \A p \in CPUs : Onward(p) = "call" /\ ~Again(p)
    BY <1>1, OnwardIs DEF Meeting, Again
  <2>2. "call" # "t_menu"
    OBVIOUS
  <2> QED BY <2>1, <2>2, MeetAfter
<1>2. CASE sel # {}
  <2>1. \A p \in CPUs : Onward(p) = After(p, 0) /\ ~Again(p)
    BY <1>2, OnwardIs DEF Meeting, Again
  <2> QED BY <2>1, FirstTest
<1> QED BY <1>1, <1>2

\* The last barrier of a test.
LEMMA LastTest ==
  ASSUME Contiguous, TypeOK, TypeOK', Locals, Testing, TestBarrier,
         NEW l \in {"i_last", "p_last", "k_last"}, Meeting(l)
  PROVE  Locals' /\ (Regions' \/ Testing')
<1>0. 0 \in CPUs
  BY CpuFacts
<1> HIDE DEF cpu_online
<1> DEFINE v5 == IF menuing THEN "t_menu" ELSE "call"
           v4 == IF "keyboard" \in sel THEN "k_last" ELSE v5
           v3 == IF "printf" \in sel THEN "p_last" ELSE v4
<1>1. \A p : After(p, 5) = v5 /\ After(p, 4) = v4 /\ After(p, 3) = v3
  BY AfterCases
<1>2. \A p \in CPUs : ~Again(p) /\ Onward(p) = IF l = "i_last" THEN v3 ELSE IF l = "p_last" THEN v4 ELSE v5
  BY <1>1, OnwardIs DEF Meeting, Again
<1> DEFINE v == IF l = "i_last" THEN v3 ELSE IF l = "p_last" THEN v4 ELSE v5
<1>3. v \in {"f_enter", "i_last", "call"} \cup Ends /\ (v = "t_menu" => menuing)
  BY DEF Ends
<1> HIDE DEF v, v3, v4, v5
<1>4. PICK w \in {"f_enter", "i_last", "call"} \cup Ends : w = v
  BY <1>3
<1>5. \A p \in CPUs : Onward(p) = w /\ ~Again(p)
  BY <1>2, <1>4 DEF v
<1> QED BY <1>3, <1>4, <1>5, MeetAfter

LEMMA TestBarrierStep ==
  ASSUME Contiguous, TypeOK, TypeOK', Locals, Testing, TestBarrier
  PROVE  Locals' /\ (Regions' \/ Testing')
<1>1. \A p \in CPUs : at[p] \in GlobalPlaces
  BY DEF TestBarrier
<1> HIDE DEF cpu_online
<1>2. CASE Meeting("d_first") /\ ~menuing
  <2>1. \A p \in CPUs : Onward(p) = After(p, 0) /\ ~Again(p)
    BY <1>2, OnwardIs DEF Meeting, Again
  <2> QED BY <2>1, FirstTest
<1>3. CASE \E l \in {"i_last", "p_last", "k_last"} : Meeting(l)
  BY <1>3, LastTest
<1>4. \/ Meeting("d_first") /\ ~menuing
      \/ Meeting("f_enter")
      \/ Meeting("i_first")
      \/ \E l \in {"i_last", "p_last", "k_last"} : Meeting(l)
      \/ Meeting("t_menu") /\ menuing
      \/ Meeting("t_result") /\ menuing
      \/ Meeting("i_second")
      \/ \E c \in 0..(Rounds + 1) : Counting(c)
  BY <1>1, Together DEF Ends
<1> QED BY <1>2, <1>3, <1>4, FlagTest, IpiTest, SecondBarrier, CountTest, MenuTest, ResultTest
-----------------------------------------------------------------------------
(* The steps between two global barriers.                                   *)

\* All others keep their places and counts, and no CPU its flags or its place
\* in smp_halt() and smp_wakeup().
AloneInTest(p) == \A q \in CPUs : q # p => at'[q] = at[q] /\ n'[q] = n[q]

LEMMA LocalsMove ==
  ASSUME Locals, NEW p \in CPUs, pc' = pc, flags' = flags, old' = old, pc[p] = "run",
         \A q \in CPUs : q # p => at'[q] = at[q]
  PROVE  Locals'
<1>1. Alone(p)
  BY DEF Alone
<1>2. Local(p)'
  BY DEF Locals, Local, InHalt, InWakeup, InLoop
<1> QED BY <1>1, <1>2, Frame DEF Locals

LEMMA PairStep ==
  ASSUME Contiguous, TypeOK, TypeOK', Locals, Testing, PairBarrier
  PROVE  Locals' /\ Testing'
<1>0. 0 \in CPUs /\ CPUs \subseteq Nat /\ cpu_online \in Nat /\ (\A p \in CPUs : p < cpu_online)
      /\ (cpu_online >= 2 => 1 \in CPUs)
  BY CpuFacts
<1>p. \A p \in CPUs : Pair(p) <=> p < 2 /\ Pair(0)
  BY <1>0 DEF Pair
<1> HIDE DEF cpu_online
<1>1. Pairing /\ at[0] = "t_barr2" /\ Pair(0)
  <2>1. at[0] = "t_barr2"
    BY DEF PairBarrier
  <2>2. Pairing
    BY <1>0, <2>1, SegmentOf
  <2> QED BY <1>0, <2>1, <2>2 DEF Pairing
<1>2. /\ \A p \in CPUs : p < 2 => /\ at[p] = "t_barr2" /\ n[p] = n[0]
                                  /\ at'[p] = IF n[0] < Rounds + 1 THEN "t_barr2" ELSE "t_global"
                                  /\ n'[p] = IF n[0] < Rounds + 1 THEN n[0] + 1 ELSE 0
      /\ \A p \in CPUs : ~(p < 2) => at'[p] = at[p] /\ n'[p] = n[p]
  <2>1. \A p \in CPUs : p < 2 => at[p] = "t_barr2" /\ n[p] = n[0]
    BY <1>p, <1>1 DEF Pairing
  <2> QED BY <2>1 DEF PairBarrier, TypeOK
<1>3. Pairing'
  <2>1. \A p \in CPUs : Pair(p) => /\ at'[p] = at'[0] /\ n'[p] = n'[0]
                                   /\ at'[p] \in {"t_barr2", "t_global"}
                                   /\ (at'[p] = "t_global" => n'[p] = 0)
    BY <1>0, <1>p, <1>1, <1>2
  <2>2. \A p \in CPUs : ~Pair(p) => at'[p] = "t_global" /\ n'[p] = 0
    BY <1>p, <1>1, <1>2 DEF Pairing
  <2> QED BY <2>1, <2>2 DEF Pairing
<1>4. UNCHANGED <<flags, old, pc, sel, menuing, coll_mutex, owner>>
  BY DEF PairBarrier, smpVars
<1>5. Locals'
  <2>1. \A p \in CPUs : at[p] \notin HaltPlaces \cup WakePlaces
    BY <1>1 DEF Pairing, HaltPlaces, WakePlaces
  <2>2. \A p \in CPUs : pc[p] = "run" /\ flags[p] = {}
    BY <2>1, RunClear
  <2> QED BY <1>4, <2>2, LocalsRun
<1>6. InTest'
  BY <1>3 DEF InTest
<1> QED BY <1>4, <1>5, <1>6, TestingIs DEF Testing

\* What the steps of tests_flag() and tests_mm() leave alone.
WorkFrame == UNCHANGED <<flags, old, pc, sel, menuing, coll_mutex, owner>>

LEMMA WorkingAre ==
  ASSUME Testing, WorkFrame, NEW l \in Ends, Working(l), Working(l)'
  PROVE  Testing'
<1>1. InTest'
  BY DEF InTest
<1> QED BY <1>1, TestingIs DEF WorkFrame, Testing

LEMMA WorkingLocals ==
  ASSUME Contiguous, TypeOK, Locals, WorkFrame, NEW l \in Ends, Working(l)
  PROVE  Locals' /\ \A p \in CPUs : pc[p] = "run"
<1> HIDE DEF cpu_online
<1>1. \A p \in CPUs : at[p] \notin HaltPlaces \cup WakePlaces
  BY DEF Working, HaltPlaces, WakePlaces, Ends
<1>2. \A p \in CPUs : pc[p] = "run" /\ flags[p] = {}
  BY <1>1, RunClear
<1> QED BY <1>2, LocalsRun DEF WorkFrame

LEMMA MmStep ==
  ASSUME Contiguous, TypeOK, TypeOK', Locals, Testing, MmBarrier
  PROVE  Locals' /\ Testing'
<1>0. 0 \in CPUs /\ CPUs \subseteq Nat /\ cpu_online \in Nat /\ (\A p \in CPUs : p < cpu_online)
      /\ (cpu_online >= 2 => 1 \in CPUs)
  BY CpuFacts
<1>p. \A p \in CPUs : Pair(p) <=> p < 2 /\ Pair(0)
  BY <1>0 DEF Pair
<1>1. Pair(0) => 1 \in CPUs
  BY <1>0 DEF Pair
<1> HIDE DEF cpu_online
<1>2. at[0] = "m_barr" /\ at[1] = "m_barr"
  BY DEF MmBarrier
<1>3. PICK l \in Ends : Working(l)
  BY <1>0, <1>2, SegmentOf
<1>4. Pair(0) /\ 1 \in CPUs /\ n[0] = n[1] /\ n[0] \in 0..4 /\ Pair(1)
  <2>1. Pair(0) /\ n[0] \in 0..4 /\ 1 \in CPUs
    BY <1>0, <1>1, <1>2, <1>3 DEF Working, Ends
  <2>2. Pair(1)
    BY <1>p, <2>1
  <2>3. n[1] \in 0..4
    BY <1>2, <1>3, <2>1 DEF Working, Ends
  <2>4. n[0] > 0 \/ n[1] > 0 => n[0] = n[1]
    BY <1>0, <1>2, <1>3, <2>1, <2>2 DEF Working, MmPlaces
  <2> QED BY <2>1, <2>2, <2>3, <2>4
<1>5. \A p \in CPUs : p < 2 <=> p = 0 \/ p = 1
  BY <1>0
<1>6. PICK k \in 0..4 : k = n[0]
  BY <1>4
<1>7. /\ \A p \in {0, 1} : /\ at'[p] = IF k < 4 THEN "m_work" ELSE "m_done"
                           /\ n'[p] = IF k < 4 THEN k + 1 ELSE 0
      /\ \A p \in CPUs : p \notin {0, 1} => at'[p] = at[p] /\ n'[p] = n[p]
      /\ shared' = shared
  BY <1>0, <1>4, <1>5, <1>6 DEF MmBarrier
<1>8. WorkFrame
  BY DEF MmBarrier, WorkFrame, smpVars
<1>9. {1, 2} \subseteq shared /\ (k > 0 => {3, 4} \subseteq shared)
  <2>1. {1, 2} \subseteq shared
    BY <1>0, <1>2, <1>3 DEF Working, MmPlaces
  <2>2. k = 1 => Allocated(0) \in shared /\ Allocated(1) \in shared
    BY <1>0, <1>2, <1>3, <1>4, <1>6 DEF Working, MmPlaces
  <2>3. k > 1 => {3, 4} \subseteq shared
    BY <1>0, <1>2, <1>3, <1>6 DEF Working, MmPlaces
  <2> QED BY <1>6, <2>1, <2>2, <2>3 DEF Allocated
<1>10. Working(l)'
  <2>1. l = Following' /\ Pair(0)' /\ Pair(1)'
    BY <1>3, <1>4, <1>8 DEF Working, WorkFrame, Following
  <2>2. \A p \in {0, 1} : \/ Pair(p)' /\ at'[p] = "m_work" /\ n'[p] \in 1..4
                          \/ at'[p] = "m_done" /\ n'[p] = 0
    BY <1>6, <1>7, <2>1
  <2>3. \A p \in CPUs : p \notin {0, 1} => at[p] \in {"m_done", l} /\ n[p] = 0
    BY <1>3, <1>p, <1>5 DEF Working
  <2>4. \A p \in CPUs : p \notin {0, 1} => at'[p] \in {"m_done", l} /\ n'[p] = 0
    BY <1>7, <2>3
  <2>5. \A p \in CPUs : at'[p] \in MmPlaces => p \in {0, 1} /\ k < 4 /\ at'[p] = "m_work" /\ n'[p] = k + 1
    BY <1>7, <2>4 DEF MmPlaces, Ends
  <2>6. \A p \in CPUs : at'[p] \in MmPlaces =>
          /\ {1, 2} \subseteq shared'
          /\ at'[p] # "m_barr"
          /\ n'[p] > 1 => {3, 4} \subseteq shared'
    BY <1>6, <1>7, <1>9, <2>5
  <2>7. \A p, q \in CPUs : Pair(p) /\ Pair(q) /\ at'[p] \in MmPlaces /\ n'[p] > 0 =>
          at'[q] \in MmPlaces /\ n'[q] = n'[p]
    <3>1. \A p \in CPUs : Pair(p) => p \in {0, 1}
      BY <1>p, <1>5
    <3> QED BY <1>7, <2>5, <3>1 DEF MmPlaces
  <2> QED BY <2>1, <2>2, <2>4, <2>6, <2>7 DEF Working
<1> QED BY <1>3, <1>8, <1>10, WorkingAre, WorkingLocals

\* A CPU moves, outside of tests_mm() or into it.
LEMMA WorkingMove ==
  ASSUME NEW l \in Ends, Working(l), WorkFrame, NEW p \in CPUs, AloneInTest(p),
         at[p] \notin MmPlaces, shared \subseteq shared', n'[p] \in Nat,
         at'[p] \in MmPlaces => n'[p] = 0 /\ (p = 0 => {1, 2} \subseteq shared'),
         \/ p = 0 /\ at'[p] = "f_signal" /\ n'[p] \in 0..2
         \/ p = 1 /\ at'[p] = "f_wait" /\ n'[p] \in 0..2
         \/ p = 0 /\ Pair(p) /\ at'[p] = "m_alloc" /\ n'[p] = 0
         \/ Pair(p) /\ at'[p] = "m_barr" /\ n'[p] = 0
         \/ at'[p] \in {"m_done", l} /\ n'[p] = 0
  PROVE  Working(l)'
<1>0. \A q : Pair(q)' <=> Pair(q)
  BY DEF Pair, cpu_online
<1>1. l = Following'
  BY DEF Working, WorkFrame, Following
<1>2. \A q \in CPUs :
        \/ q = 0 /\ at'[q] = "f_signal" /\ n'[q] \in 0..2
        \/ q = 1 /\ at'[q] = "f_wait" /\ n'[q] \in 0..2
        \/ q = 0 /\ Pair(q) /\ at'[q] = "m_alloc" /\ n'[q] = 0
        \/ Pair(q) /\ at'[q] = "m_barr" /\ n'[q] \in 0..4
        \/ Pair(q) /\ at'[q] = "m_work" /\ n'[q] \in 1..4
        \/ at'[q] \in {"m_done", l} /\ n'[q] = 0
  BY DEF Working, AloneInTest
<1>3. \A q \in CPUs : Pair(p) /\ Pair(q) /\ at[q] \in MmPlaces /\ q # p => ~(n[q] > 0)
  BY DEF Working
<1>4. \A q, r \in CPUs : Pair(q) /\ Pair(r) /\ at'[q] \in MmPlaces /\ n'[q] > 0 =>
        at'[r] \in MmPlaces /\ n'[r] = n'[q]
  BY <1>3 DEF Working, AloneInTest
<1>5. \A q \in CPUs : at'[q] \in MmPlaces =>
        /\ q = 0 \/ n'[q] > 0 => {1, 2} \subseteq shared'
        /\ n'[q] = 1 /\ at'[q] = "m_barr" => Allocated(q) \in shared'
        /\ n'[q] > 1 => {3, 4} \subseteq shared'
  BY DEF Working, AloneInTest
<1> QED BY <1>0, <1>1, <1>2, <1>4, <1>5 DEF Working

LEMMA WorkStep ==
  ASSUME Contiguous, TypeOK, TypeOK', Locals, Testing, NEW p \in CPUs,
         (p = 0 /\ (Signal \/ AllocFirst)) \/ (p = 1 /\ Wait) \/ MmWork(p) \/ MmDone(p)
  PROVE  Locals' /\ Testing'
<1>0. 0 \in CPUs /\ CPUs \subseteq Nat /\ n[p] \in Nat
  BY CpuFacts DEF TypeOK
<1> HIDE DEF cpu_online
<1>a. After(p, 1) \in {"m_done", "m_alloc", "m_barr", Following}
      /\ (After(p, 1) = "m_alloc" => Pair(p) /\ p = 0) /\ (After(p, 1) = "m_barr" => Pair(p) /\ p # 0)
      /\ After(p, 2) = Following
  <2>1. Following \notin {"m_alloc", "m_barr"}
    BY FollowingIs DEF Ends
  <2> QED BY <2>1, AfterCases, FollowingIs
<1>1. at[p] \in {"f_signal", "f_wait", "m_alloc", "m_work", "m_done"} /\ WorkFrame
  BY DEF Signal, AllocFirst, Wait, MmWork, MmDone, Move, WorkFrame, smpVars, testVars
<1>2. PICK l \in Ends : Working(l)
  BY <1>1, SegmentOf
<1>l. l = Following
  BY <1>2 DEF Working
<1>3. CASE p = 0 /\ Signal
  <2>1. /\ at[p] = "f_signal" /\ shared' = shared /\ n'[p] = (n[p] + 1) % 3
        /\ at'[p] = IF n[p] < 2 THEN "f_signal" ELSE After(p, 1)
    BY <1>3 DEF Signal, Move, TypeOK
  <2>2. AloneInTest(p)
    BY <1>3 DEF Signal, Move, TypeOK, AloneInTest
  <2>3. n[p] \in 0..2
    BY <1>2, <2>1 DEF Working, Ends
  <2>4. IF n[p] < 2 THEN n'[p] \in 0..2 ELSE n'[p] = 0
    BY <2>1, <2>3
  <2>5. Working(l)'
    BY <1>1, <1>2, <1>l, <1>a, <1>3, <2>1, <2>2, <2>4, WorkingMove DEF MmPlaces, Ends
  <2> QED BY <1>1, <1>2, <2>5, WorkingAre, WorkingLocals
<1>4. CASE p = 1 /\ Wait
  <2>1. /\ at[p] = "f_wait" /\ shared' = shared /\ n'[p] = (n[p] + 1) % 3
        /\ at'[p] = IF n[p] < 2 THEN "f_wait" ELSE After(p, 1)
    BY <1>4 DEF Wait, Move, TypeOK
  <2>2. AloneInTest(p)
    BY <1>4 DEF Wait, Move, TypeOK, AloneInTest
  <2>3. n[p] \in 0..2
    BY <1>2, <2>1 DEF Working, Ends
  <2>4. IF n[p] < 2 THEN n'[p] \in 0..2 ELSE n'[p] = 0
    BY <2>1, <2>3
  <2>5. Working(l)'
    BY <1>1, <1>2, <1>l, <1>a, <1>4, <2>1, <2>2, <2>4, WorkingMove DEF MmPlaces, Ends
  <2> QED BY <1>1, <1>2, <2>5, WorkingAre, WorkingLocals
<1>5. CASE p = 0 /\ AllocFirst
  <2>1. /\ at[p] = "m_alloc" /\ shared' = shared \cup {1, 2} /\ n'[p] = n[p]
        /\ at'[p] = "m_barr" /\ AloneInTest(p)
    BY <1>5 DEF AllocFirst, Move, TypeOK, AloneInTest
  <2>2. n[p] = 0 /\ Pair(p)
    BY <1>2, <2>1 DEF Working, Ends
  <2>3. Working(l)'
    BY <1>0, <1>1, <1>2, <1>5, <2>1, <2>2, WorkingMove DEF MmPlaces
  <2> QED BY <1>1, <1>2, <2>3, WorkingAre, WorkingLocals
<1>6. CASE MmDone(p)
  <2>1. /\ at[p] = "m_done" /\ shared' = shared /\ n'[p] = n[p]
        /\ at'[p] = After(p, 2) /\ AloneInTest(p)
    BY <1>6 DEF MmDone, Move, TypeOK, AloneInTest, testVars
  <2>2. n[p] = 0
    BY <1>2, <2>1 DEF Working, Ends
  <2>3. Working(l)'
    BY <1>0, <1>1, <1>2, <1>l, <1>a, <2>1, <2>2, WorkingMove DEF MmPlaces, Ends
  <2> QED BY <1>1, <1>2, <2>3, WorkingAre, WorkingLocals
<1>7. CASE MmWork(p)
  <2>1. /\ at[p] = "m_work" /\ n' = n /\ at'[p] = "m_barr" /\ \A q \in CPUs : q # p => at'[q] = at[q]
        /\ shared' = IF n[p] = 1 THEN shared \cup {Allocated(p)} ELSE shared
    BY <1>7 DEF MmWork, Move, TypeOK
  <2>2. n[p] \in 1..4 /\ Pair(p)
    BY <1>2, <2>1 DEF Working, Ends
  <2>3. \A q \in CPUs : q # p => at'[q] = at[q] /\ n'[q] = n[q]
    BY <2>1
  <2>4. \A q \in CPUs : at'[q] \in MmPlaces <=> at[q] \in MmPlaces
    BY <2>1 DEF MmPlaces
  <2>5. l = Following' /\ \A q : Pair(q)' <=> Pair(q)
    BY <1>1, <1>l DEF WorkFrame, Following, Pair, cpu_online
  <2>6. \A q \in CPUs :
          \/ q = 0 /\ at'[q] = "f_signal" /\ n'[q] \in 0..2
          \/ q = 1 /\ at'[q] = "f_wait" /\ n'[q] \in 0..2
          \/ q = 0 /\ Pair(q) /\ at'[q] = "m_alloc" /\ n'[q] = 0
          \/ Pair(q) /\ at'[q] = "m_barr" /\ n'[q] \in 0..4
          \/ Pair(q) /\ at'[q] = "m_work" /\ n'[q] \in 1..4
          \/ at'[q] \in {"m_done", l} /\ n'[q] = 0
    BY <1>2, <2>1, <2>2, <2>3 DEF Working
  <2>7. \A q, r \in CPUs : Pair(q) /\ Pair(r) /\ at'[q] \in MmPlaces /\ n'[q] > 0 =>
          at'[r] \in MmPlaces /\ n'[r] = n'[q]
    BY <1>2, <2>1, <2>4 DEF Working
  <2>8. \A q \in CPUs : at'[q] \in MmPlaces =>
          /\ q = 0 \/ n'[q] > 0 => {1, 2} \subseteq shared'
          /\ n'[q] = 1 /\ at'[q] = "m_barr" => Allocated(q) \in shared'
          /\ n'[q] > 1 => {3, 4} \subseteq shared'
    BY <1>2, <2>1, <2>4 DEF Working
  <2>9. Working(l)'
    BY <2>5, <2>6, <2>7, <2>8 DEF Working
  <2> QED BY <1>1, <1>2, <2>9, WorkingAre, WorkingLocals
<1> QED BY <1>3, <1>4, <1>5, <1>6, <1>7
-----------------------------------------------------------------------------
(* tests_ipi() and tests_menu().                                            *)

TestFrame == UNCHANGED <<sel, menuing, coll_mutex, owner, n, sig, shared>>

LEMMA FrameTesting ==
  ASSUME Testing, TestFrame, InTest'
  PROVE  Testing'
BY TestingIs DEF TestFrame, Testing

\* The IPIs of the first half.
LEMMA SendStep ==
  ASSUME Contiguous, TypeOK, TypeOK', Locals, Testing, NEW p \in CPUs,
         (p = 0 /\ (SelfIpi \/ SendTest \/ AllSent)) \/ TestHlt(p)
  PROVE  Locals' /\ Testing'
<1> HIDE DEF cpu_online
<1>1. /\ pc[p] = "run" /\ pc' = pc /\ flags' = flags /\ old' = old /\ TestFrame
      /\ \A q \in CPUs : q # p => at'[q] = at[q]
      /\ \/ p = 0 /\ at[p] = "i_self" /\ at'[p] = "i_send"
         \/ p = 0 /\ at[p] = "i_send" /\ at'[p] \in {"i_send", "i_second"}
         \/ at[p] = "i_hlt" /\ at'[p] = "i_asleep"
  BY DEF SelfIpi, SendTest, AllSent, TestHlt, Move, TypeOK, TestFrame, smpVars, testVars
<1>2. Sending
  BY <1>1, SegmentOf
<1>3. Sending'
  BY <1>1, <1>2 DEF Sending, TestFrame
<1>4. Locals'
  BY <1>1, LocalsMove
<1> QED BY <1>1, <1>3, <1>4, FrameTesting DEF InTest

LEMMA SelectStep ==
  ASSUME Contiguous, TypeOK, TypeOK', Locals, Testing, Select
  PROVE  Locals' /\ Testing'
<1>0. 0 \in CPUs
  BY CpuFacts
<1> HIDE DEF cpu_online
<1>1. /\ pc[0] = "run" /\ pc' = pc /\ flags' = flags /\ old' = old
      /\ \A q \in CPUs : q # 0 => at'[q] = at[q]
      /\ at[0] = "t_select" /\ at'[0] = "t_result"
      /\ UNCHANGED <<menuing, coll_mutex, owner, n>>
  BY <1>0 DEF Select, Move, TypeOK, smpVars
<1>2. Choosing /\ menuing
  BY <1>0, <1>1, SegmentOf
<1>3. Choosing' /\ menuing'
  BY <1>0, <1>1, <1>2 DEF Choosing
<1>4. Locals'
  BY <1>0, <1>1, LocalsMove
<1>5. InTest'
  BY <1>3 DEF InTest
<1> QED BY <1>1, <1>3, <1>4, <1>5, TestingIs DEF Testing

LEMMA WakingBy ==
  ASSUME Waking, TestFrame, 0 \in CPUs, NEW p \in CPUs, p # 0, Alone(p), tgt'[0] = tgt[0],
         at'[p] \in {"i_halt", "i_last"},
         Unwoken(p) => Unwoken(p)',
         Unwoken(p) /\ flags[p] = Bits => flags'[p] = Bits,
         Going(p) => Going(p)' \/ Awake(p)',
         Awake(p) => Awake(p)'
  PROVE  Waking'
<1>1. at'[0] = at[0] /\ \A q \in CPUs : q # p => (Awake(q)' <=> Awake(q)) /\ at'[q] = at[q]
  BY Frame DEF Alone
<1>2. at[0] # "i_last" => Wakes(0, CPUs \ {0})'
  BY WakesBy DEF Waking
<1> QED BY <1>1, <1>2 DEF Waking, TestFrame

LEMMA HaltOverStep ==
  ASSUME Contiguous, TypeOK, TypeOK', Locals, Testing, NEW p \in CPUs, HaltOver(p)
  PROVE  Locals' /\ Testing'
<1>0. 0 \in CPUs
  BY CpuFacts
<1> HIDE DEF cpu_online
<1>1. /\ pc[p] = "run" /\ pc' = pc /\ flags' = flags /\ old' = old /\ tgt' = tgt /\ TestFrame
      /\ \A q \in CPUs : q # p => at'[q] = at[q]
      /\ at[p] = "i_halt" /\ at'[p] = "i_last"
  BY DEF HaltOver, Move, TypeOK, TestFrame, smpVars, testVars
<1>2. Waking
  BY <1>1, SegmentOf
<1>3. p # 0 /\ Alone(p)
  BY <1>1, <1>2 DEF Waking, Alone
<1>4. ~Unwoken(p) /\ ~Going(p) /\ Awake(p)'
  BY <1>1 DEF Unwoken, Going, Awake, HaltPlaces, InLoop
<1>5. Waking'
  BY <1>0, <1>1, <1>2, <1>3, <1>4, WakingBy
<1>6. Locals'
  BY <1>1, LocalsMove
<1> QED BY <1>1, <1>5, <1>6, FrameTesting DEF InTest

LEMMA TestHalting ==
  ASSUME Contiguous, TypeOK, TypeOK', Locals, Testing, NEW p \in CPUs, HaltStep(p) \/ Interrupt(p),
         UNCHANGED collVars, UNCHANGED testVars
  PROVE  Locals' /\ Testing'
<1>0. 0 \in CPUs
  BY CpuFacts
<1> HIDE DEF cpu_online
<1>1. UNCHANGED at /\ TestFrame
  BY DEF collVars, testVars, TestFrame
<1>2. Halting(p)
  BY <1>1, HaltLocal, InterruptLocal DEF Locals
<1>3. Alone(p) /\ tgt' = tgt /\ Local(p)' /\ at[p] \in HaltPlaces
  BY <1>1, <1>2 DEF Halting, Alone
<1>4. Locals'
  BY <1>3, Frame DEF Locals
<1>5. at[p] = "i_halt" /\ Waking
  <2>1. at[p] = "i_halt"
    BY <1>3, SegmentOf DEF HaltPlaces, TestPlaces
  <2> QED BY <2>1, SegmentOf
<1>6. p # 0
  BY <1>5 DEF Waking
<1>7. ~Awake(p)
  BY <1>2, <1>5 DEF Awake, Halting, InHalt
<1>8. Waking'
  BY <1>0, <1>1, <1>2, <1>3, <1>5, <1>6, <1>7, WakingBy DEF Halting
<1> QED BY <1>1, <1>4, <1>8, FrameTesting DEF InTest

LEMMA TestWaking ==
  ASSUME Contiguous, TypeOK, TypeOK', Locals, Testing, NEW p \in CPUs, WakeStep(p),
         UNCHANGED collVars, UNCHANGED testVars
  PROVE  Locals' /\ Testing'
<1>0. 0 \in CPUs
  BY CpuFacts
<1> HIDE DEF cpu_online
<1>1. UNCHANGED at /\ TestFrame
  BY DEF collVars, testVars, TestFrame
<1>2. at[p] = "i_waking"
  BY PlacePc, SegmentOf DEF Locals, WakePlaces, TestPlaces
<1>3. Waking
  BY <1>2, SegmentOf
<1>4. p = 0
  BY <1>2, <1>3 DEF Waking
<1>5. Wakes(0, CPUs \ {0})' /\ Locals' /\ tgt' = tgt
  BY <1>1, <1>2, <1>3, <1>4, WakesSmp DEF Waking
<1>6. Waking'
  BY <1>1, <1>2, <1>3, <1>4, <1>5 DEF Waking, TestFrame
<1> QED BY <1>1, <1>5, <1>6, FrameTesting DEF InTest

\* The loop of CPU 0 in the second half.
LEMMA WakeLoop ==
  ASSUME Contiguous, TypeOK, TypeOK', Locals, Testing, TestWake \/ TestWoken \/ AllWoken
  PROVE  Locals' /\ Testing'
<1>0. 0 \in CPUs /\ cpu_online \in Nat /\ CPUs \subseteq Nat /\ (\A q \in CPUs : q < cpu_online)
      /\ (\A u \in Nat : u < cpu_online => u \in CPUs) /\ tgt[0] \in Nat
  BY CpuFacts DEF TypeOK
<1> HIDE DEF cpu_online
<1> DEFINE S == CPUs \ {0}
<1>1. /\ pc[0] = "run" /\ flags' = flags /\ old' = old /\ TestFrame
      /\ \A q \in CPUs : q # 0 => at'[q] = at[q] /\ pc'[q] = pc[q]
      /\ at[0] \in {"i_wake", "i_waking"}
  BY <1>0 DEF TestWake, TestWoken, AllWoken, Move, Go, TypeOK, TestFrame, testVars
<1>2. Waking
  BY <1>0, <1>1, SegmentOf
<1>3. Wakes(0, S) /\ tgt[0] > 0 /\ Alone(0) /\ flags[0] = {}
  BY <1>0, <1>1, <1>2, RunClear DEF Waking, Alone
<1>4. \A q \in CPUs : q # 0 =>
        (Unwoken(q)' <=> Unwoken(q)) /\ (Awake(q)' <=> Awake(q)) /\ (Local(q) => Local(q)')
  BY <1>0, <1>3, Frame
<1>5. Local(0)' => Locals'
  BY <1>4 DEF Locals
<1>6. CASE TestWake
  <2>1. /\ tgt[0] < cpu_online /\ at[0] = "i_wake" /\ at'[0] = "i_waking" /\ pc'[0] = "w_wait"
        /\ tgt' = tgt
    BY <1>0, <1>6 DEF TestWake, Move, Go, TypeOK
  <2>2. tgt[0] \in S /\ at[0] \notin WakePlaces
    BY <1>0, <1>3, <2>1 DEF WakePlaces
  <2>3. Local(0)'
    BY <1>1, <1>3, <2>1 DEF Local, HaltPlaces, WakePlaces, InHalt, InWakeup, InLoop
  <2>4. \A q \in S : (q > tgt[0] => Unwoken(q)') /\ (q < tgt[0] => Awake(q)')
                     /\ (q = tgt[0] => Unwoken(q)')
    BY <1>3, <1>4, <2>2 DEF Wakes
  <2>5. Wakes(0, S)'
    BY <1>3, <2>1, <2>2, <2>4 DEF Wakes
  <2>6. Waking'
    BY <1>1, <1>2, <1>3, <2>1, <2>5 DEF Waking, TestFrame
  <2> QED BY <1>1, <1>5, <2>3, <2>6, FrameTesting DEF InTest
<1>7. CASE TestWoken
  <2>1. at[0] = "i_waking" /\ at'[0] = "i_wake" /\ pc'[0] = "run" /\ tgt'[0] = tgt[0] + 1
    BY <1>0, <1>1, <1>7 DEF TestWoken, Move, TypeOK
  <2>2. tgt[0] \in S /\ tgt[0] + 1 <= cpu_online /\ tgt'[0] > 0
    <3>1. tgt[0] \in S
      BY <1>3, <2>1 DEF Wakes, WakePlaces
    <3> QED BY <1>0, <2>1, <3>1
  <2>3. Local(0)'
    BY <1>1, <1>3, <2>1 DEF Local, HaltPlaces, WakePlaces, InHalt, InWakeup, InLoop
  <2>4. \A q \in S : q = tgt[0] => Awake(q)
    BY <1>1, <1>3, <2>1 DEF Wakes, WakePlaces
  <2>5. \A q \in S : (q > tgt[0] => Unwoken(q)') /\ (q < tgt[0] => Awake(q)')
                     /\ (q = tgt[0] => Awake(q)')
    BY <1>3, <1>4, <2>4 DEF Wakes
  <2>6. \A q \in S : (q > tgt'[0] => Unwoken(q)') /\ (q < tgt'[0] => Awake(q)')
                     /\ (q = tgt'[0] => Unwoken(q)')
    <3>1. \A q \in Nat : /\ q > tgt[0] + 1 => q > tgt[0]
                         /\ q < tgt[0] + 1 => q < tgt[0] \/ q = tgt[0]
                         /\ q = tgt[0] + 1 => q > tgt[0]
      BY <1>0
    <3> QED BY <1>0, <2>1, <2>5, <3>1
  <2>7. Wakes(0, S)'
    BY <2>1, <2>2, <2>6 DEF Wakes, WakePlaces
  <2>8. Waking'
    BY <1>1, <1>2, <2>1, <2>2, <2>7 DEF Waking, TestFrame
  <2> QED BY <1>1, <1>5, <2>3, <2>8, FrameTesting DEF InTest
<1>8. CASE AllWoken
  <2>1. tgt[0] = cpu_online /\ at[0] = "i_wake" /\ at'[0] = "i_last" /\ pc'[0] = "run"
    BY <1>0, <1>1, <1>8 DEF AllWoken, Move, TypeOK
  <2>2. Local(0)'
    BY <1>1, <1>3, <2>1 DEF Local, HaltPlaces, WakePlaces, InHalt, InWakeup, InLoop
  <2>3. \A q \in S : Awake(q)'
    BY <1>0, <1>3, <1>4, <2>1 DEF Wakes
  <2>4. Waking'
    BY <1>1, <1>2, <2>1, <2>3 DEF Waking, TestFrame
  <2> QED BY <1>1, <1>5, <2>2, <2>4, FrameTesting DEF InTest
<1> QED BY <1>6, <1>7, <1>8
-----------------------------------------------------------------------------
(* All steps.                                                               *)

\* The two kinds of places have none in common.
LEMMA PlacesApart ==
  ASSUME Contiguous, TypeOK, NEW p \in CPUs
  PROVE  /\ Regions => at[p] \in Places /\ at[p] \notin TestPlaces
         /\ Testing => at[p] \in TestPlaces /\ at[p] \notin Places
<1>1. \A l \in TestPlaces : l \notin Places
  BY DEF Places, TestPlaces
<1>2. Testing => at[p] \in TestPlaces
  BY SegmentOf
<1> QED BY <1>1, <1>2 DEF Regions

AllButPend == UNCHANGED <<flags, pc, old, tgt, collVars, testVars>>

\* A pending IPI more or less is nothing to any of this.
LEMMA PendOnly ==
  ASSUME AllButPend, TypeOK, Locals, Regions \/ Testing
  PROVE  Locals' /\ (Regions => Regions') /\ (Testing => Testing')
<1>u. UNCHANGED <<flags, pc, old, tgt, at, mask, coll_mutex, coll_master, coll_mask, owner, sel,
                  menuing, n, sig, shared>>
  BY DEF AllButPend, collVars, testVars
<1>1. Locals'
  BY <1>u, Untouched DEF Locals
<1>2. \A q \in CPUs : (Unwoken(q)' <=> Unwoken(q)) /\ (Going(q)' <=> Going(q)) /\ (Awake(q)' <=> Awake(q))
  BY <1>u, Untouched
<1>3. \A w \in CPUs, S \in SUBSET CPUs : Wakes(w, S) => Wakes(w, S)'
  BY <1>u, <1>2 DEF Wakes
<1>4. Regions => Regions'
  <2>0. mask \subseteq CPUs /\ Others' = Others /\ Others \in SUBSET CPUs
    BY <1>u, MaskFacts DEF Others
  <2>1. Beginning => Beginning'
    BY <1>u, <1>2, <2>0 DEF Beginning
  <2>2. \A o \in mask : Holding(o) => Holding(o)'
    BY <1>u, <1>2, <2>0 DEF Holding, Through
  <2>3. ASSUME NEW o \in mask, Releasing(o)
        PROVE  Releasing(o)'
    <3>1. PICK T \in SUBSET CPUs : T = Others
      BY <2>0
    <3>2. Wakes(o, T)'
      BY <1>3, <2>0, <2>3, <3>1 DEF Releasing
    <3>3. Wakes(o, Others)'
      BY <2>0, <3>1, <3>2 DEF Wakes
    <3> QED BY <1>u, <2>0, <2>3, <3>3 DEF Releasing
  <2>4. \A o \in mask : Ending(o) => Ending(o)'
    BY <1>u, <1>2, <2>0 DEF Ending
  <2> QED BY <1>u, <2>1, <2>2, <2>3, <2>4 DEF Regions, InRegions
<1>5. Testing => Testing'
  <2>1. /\ \A l : Meeting(l) => Meeting(l)'
        /\ Choosing => Choosing'
        /\ \A c : Counting(c) => Counting(c)'
        /\ Sending => Sending'
    BY <1>u DEF Meeting, Choosing, Counting, Sending
  <2>2. Pairing => Pairing'
    BY <1>u DEF Pairing, Pair, cpu_online
  <2>3. \A l : Working(l) => Working(l)'
    BY <1>u DEF Working, Pair, cpu_online, Following, MmPlaces, Allocated
  <2>4. Waking => Waking'
    <3>1. Wakes(0, CPUs \ {0}) => Wakes(0, CPUs \ {0})'
      BY <1>3, CPUsAssumption
    <3> QED BY <1>u, <1>2, <3>1 DEF Waking
  <2>5. InTest => InTest'
    BY <1>u, <2>1, <2>2, <2>3, <2>4 DEF InTest
  <2> QED BY <1>u, <2>5 DEF Testing
<1> QED BY <1>1, <1>4, <1>5

LEMMA TestInterruptStep ==
  ASSUME Contiguous, TypeOK, TypeOK', Locals, Testing, NEW p \in CPUs, TestInterrupt(p)
  PROVE  Locals' /\ Testing'
<1> HIDE DEF cpu_online
<1>1. CASE at[p] # "i_asleep"
  <2>1. AllButPend
    BY <1>1 DEF TestInterrupt, TypeOK, AllButPend, collVars
  <2> QED BY <2>1, PendOnly
<1>2. CASE at[p] = "i_asleep"
  <2>1. /\ UNCHANGED <<flags, pc, old>> /\ TestFrame
        /\ at'[p] = "i_second" /\ \A q \in CPUs : q # p => at'[q] = at[q]
    BY <1>2 DEF TestInterrupt, TypeOK, TestFrame, testVars
  <2>2. Sending
    BY <1>2, SegmentOf
  <2>3. Sending'
    BY <1>2, <2>1, <2>2 DEF Sending, TestFrame
  <2>4. pc[p] = "run"
    BY <1>2, RunClear DEF HaltPlaces, WakePlaces
  <2>5. Locals'
    BY <2>1, <2>4, LocalsMove
  <2> QED BY <2>1, <2>3, <2>5, FrameTesting DEF InTest
<1> QED BY <1>1, <1>2

\* Between two rounds of barriers in the regions, ...
LEMMA RegionNext ==
  ASSUME Contiguous, TypeOK, TypeOK', Locals, Regions, TestNext
  PROVE  Locals' /\ (Regions' \/ Testing')
<1>0. 0 \in CPUs
  BY CpuFacts
<1>p. \A p \in CPUs : at[p] \in Places /\ at[p] \notin TestPlaces
  BY PlacesApart
<1> HIDE DEF cpu_online
<1>1. ASSUME NEW p \in CPUs, TestStep(p)
      PROVE  FALSE
  BY <1>p, <1>1 DEF TestStep, Signal, Wait, AllocFirst, MmWork, MmDone, SelfIpi, SendTest, AllSent, TestHlt,
       TestWake, TestWoken, AllWoken, HaltOver, Select, Move, TestPlaces
<1>2. ASSUME NEW p \in CPUs, Step(p), UNCHANGED testVars
      PROVE  Locals' /\ Regions'
  BY <1>2, EnterStep, MemberStep, WokenStep, EndStep, LoopStep, RegionHalting, RegionWaking
     DEF Step, SmpStep
<1>3. ASSUME NEW p \in CPUs, Delivery(p)
      PROVE  Locals' /\ Regions'
  <2>1. ~TestInterrupt(p)
    BY <1>p DEF TestInterrupt, IpiPlaces, Places
  <2> QED BY <1>3, <2>1, RegionHalting DEF Delivery, Deliver
<1>4. CASE Barriers
  <2>1. ~TestBarrier /\ ~PairBarrier /\ ~MmBarrier
    BY <1>0, <1>p DEF TestBarrier, PairBarrier, MmBarrier, GlobalPlaces, Places
  <2> QED BY <1>4, <2>1, GlobalStep DEF Barriers
<1> QED BY <1>1, <1>2, <1>3, <1>4, EnterTestsStep DEF TestNext, CpuStep

\* ... and in the tests.
LEMMA TestingNext ==
  ASSUME Contiguous, TypeOK, TypeOK', Locals, Testing, TestNext
  PROVE  Locals' /\ (Regions' \/ Testing')
<1>0. 0 \in CPUs
  BY CpuFacts
<1>p. \A p \in CPUs : at[p] \in TestPlaces /\ at[p] \notin Places
  BY PlacesApart
<1> HIDE DEF cpu_online
<1>1. ASSUME NEW p \in CPUs, TestStep(p)
      PROVE  Locals' /\ Testing'
  BY <1>1, WorkStep, SendStep, SelectStep, HaltOverStep, WakeLoop DEF TestStep
<1>2. ASSUME NEW p \in CPUs, Step(p), UNCHANGED testVars
      PROVE  Locals' /\ Testing'
  <2>1. SmpStep(p) /\ UNCHANGED collVars
    BY <1>p, <1>2 DEF Step, Enter, TryLock, BecomeMaster, Woken, WorkDone, End, WakeNext, Advance,
         Unlock, Move, Places
  <2> QED BY <1>2, <2>1, TestHalting, TestWaking DEF SmpStep
<1>3. ASSUME NEW p \in CPUs, Delivery(p)
      PROVE  Locals' /\ Testing'
  BY <1>3, TestInterruptStep, TestHalting DEF Delivery, Deliver
<1>4. CASE Barriers
  <2>1. ~GlobalBarrier
    BY <1>0, <1>p DEF GlobalBarrier, Places
  <2> QED BY <1>4, <2>1, TestBarrierStep, PairStep, MmStep DEF Barriers
<1>5. ~EnterTests
  BY <1>0, <1>p DEF EnterTests, Places
<1> QED BY <1>1, <1>2, <1>3, <1>4, <1>5 DEF TestNext, CpuStep

LEMMA InitIInv ==
  ASSUME Contiguous, TestInit
  PROVE  IInv
<1>i. Ids = CPUs
  BY CpuFacts
<1>1. Tables
  BY <1>i DEF TestInit, Init, SmpInit, Tables
<1>2. TypeOK
  <2>1. "call" \in Places \cup TestPlaces
    BY DEF Places
  <2> QED BY <1>1, <2>1 DEF TestInit, Init, SmpInit, Tables, TypeOK
<1>3. \A p \in CPUs : at[p] = "call" /\ pc[p] = "run" /\ flags[p] = {} /\ n[p] = 0
  BY <1>i DEF TestInit, Init, SmpInit
<1>4. Locals
  BY <1>3 DEF Locals, Local, HaltPlaces, WakePlaces, InHalt, InWakeup, InLoop
<1>5. Beginning
  BY <1>2, <1>3, MaskFacts DEF Beginning, Others, Unwoken, TestInit, Init
<1>6. Regions
  BY <1>3, <1>5 DEF Regions, InRegions, Places
<1> QED BY <1>2, <1>4, <1>6 DEF IInv

LEMMA StepIInv ==
  ASSUME Contiguous, IInv, [TestNext]_allVars
  PROVE  IInv'
<1>1. TypeOK' /\ TypeOK /\ Locals /\ (Regions \/ Testing)
  BY TypeStep DEF IInv
<1>2. CASE UNCHANGED allVars
  <2>1. AllButPend
    BY <1>2 DEF allVars, vars, smpVars, AllButPend
  <2> QED BY <1>1, <2>1, PendOnly DEF IInv
<1>3. CASE TestNext
  BY <1>1, <1>3, RegionNext, TestingNext DEF IInv
<1> QED BY <1>2, <1>3
-----------------------------------------------------------------------------
(* The theorems.                                                            *)

LEMMA AlwaysIInv ==
  ASSUME Contiguous
  PROVE  TestSpec => []IInv
<1>1. TestInit => IInv
  BY InitIInv
<1>2. IInv /\ [TestNext]_allVars => IInv'
  BY StepIInv
<1> QED BY <1>1, <1>2, PTL DEF TestSpec

LEMMA OwnsInv ==
  ASSUME Contiguous, IInv
  PROVE  WakerOwnsRound
<1>1. ASSUME NEW p \in CPUs, at[p] \in {"loop", "waking"}
      PROVE  owner = {p} /\ coll_mutex = 0 /\ coll_mask = mask
  <2>1. Regions
    BY <1>1, PlacesApart DEF IInv, Places
  <2> QED BY <1>1, <2>1, WakerIs DEF IInv, Releasing
<1> QED BY <1>1 DEF WakerOwnsRound

LEMMA HaltInv ==
  ASSUME Contiguous, IInv
  PROVE  OthersHalt
<1>1. ASSUME NEW p \in CPUs, BeforeEnd(p), NEW q \in CPUs \ mask
      PROVE  \/ at[q] = "call"
             \/ at[q] = "halt" /\ pc[q] \in {"h_load", "h_store", "h_test", "h_hlt", "h_asleep"}
  <2>1. at[p] \in {"try", "own", "work", "end"}
    BY <1>1 DEF BeforeEnd
  <2>2. Regions
    BY <2>1, PlacesApart DEF IInv, Places
  <2>3. Beginning \/ \E o \in mask : Holding(o)
    BY <1>1, <2>2, MaskFacts DEF BeforeEnd, Regions, InRegions, Releasing, Ending, IInv
  <2>4. at[q] \in {"call", "halt"} /\ Unwoken(q)
    BY <2>3 DEF Beginning, Holding, Others
  <2> QED BY <2>4 DEF Unwoken, InLoop
<1> QED BY <1>1 DEF OthersHalt

LEMMA FlagsInv ==
  ASSUME Contiguous, IInv
  PROVE  FlagsTellState
<1>1. ASSUME NEW p \in CPUs
      PROVE  /\ pc[p] \in {"h_test", "h_hlt", "h_asleep", "h_cload", "h_cstore"} => "HALTED" \in flags[p]
             /\ pc[p] \notin InHalt => flags[p] = {}
  <2>1. Local(p) /\ pc[p] \in {"run"} \cup InHalt \cup InWakeup
    BY DEF IInv, Locals, TypeOK
  <2> QED BY <2>1, BitFacts DEF Local, InHalt, InWakeup, InLoop
<1> QED BY <1>1 DEF FlagsTellState

LEMMA CallInv ==
  ASSUME Contiguous, IInv
  PROVE  SameCall
<1>0. 0 \in CPUs /\ CPUs \subseteq Nat /\ (cpu_online >= 2 => 1 \in CPUs)
  BY CpuFacts
<1>p. Pair(0) => 1 \in CPUs /\ Pair(1)
  BY <1>0 DEF Pair
<1> HIDE DEF cpu_online
<1>1. CASE Regions
  <2>1. \A p \in CPUs : at[p] \in Places
    BY <1>1 DEF Regions
  <2>2. at[0] \notin GlobalPlaces /\ at[0] # "t_barr2" /\ at[0] # "m_barr"
    BY <1>0, <2>1 DEF Places, GlobalPlaces
  <2> QED BY <1>0, <2>2 DEF SameCall
<1>2. CASE Testing
  <2>1. ASSUME \A p \in CPUs : at[p] \in GlobalPlaces
        PROVE  \A p, q \in CPUs : at[p] = at[q] /\ n[p] = n[q]
    BY <1>2, <2>1, Together DEF IInv, Meeting, Counting
  <2>2. at[0] = "t_barr2" /\ at[1] = "t_barr2" => n[0] = n[1]
    <3>1. at[0] = "t_barr2" => Pairing
      BY <1>0, <1>2, SegmentOf DEF IInv
    <3> QED BY <1>0, <1>p, <3>1 DEF Pairing
  <2>3. at[0] = "m_barr" /\ at[1] = "m_barr" => n[0] = n[1]
    <3>1. SUFFICES ASSUME at[0] = "m_barr", at[1] = "m_barr"
                   PROVE  n[0] = n[1]
      OBVIOUS
    <3>2. PICK l \in Ends : Working(l)
      BY <1>0, <1>2, <3>1, SegmentOf DEF IInv
    <3>3. Pair(0) /\ n[0] \in 0..4
      BY <1>0, <3>1, <3>2 DEF Working, Ends
    <3>4. Pair(1) /\ n[1] \in 0..4 /\ 1 \in CPUs
      BY <1>p, <3>1, <3>2, <3>3 DEF Working, Ends
    <3>5. n[0] > 0 \/ n[1] > 0 => n[0] = n[1]
      BY <1>0, <3>1, <3>2, <3>3, <3>4 DEF Working, MmPlaces
    <3> QED BY <3>3, <3>4, <3>5
  <2> QED BY <2>1, <2>2, <2>3 DEF SameCall
<1> QED BY <1>1, <1>2 DEF IInv

LEMMA UsedIs ==
  ASSUME NEW p \in {0, 1}, n[p] \in 1..4
  PROVE  /\ Used(p) \subseteq {1, 2, 3, 4}
         /\ n[p] = 1 => Used(p) \subseteq {1, 2}
         /\ n[p] = 2 => Used(p) \subseteq {1, 2}
<1>1. 0 # 1 /\ 1 # 2 /\ 1 # 3 /\ 1 # 4 /\ 2 # 3 /\ 2 # 4 /\ 3 # 4
  OBVIOUS
<1>2. /\ p = 0 /\ n[p] = 1 => Used(p) = {}
      /\ p = 0 /\ n[p] = 2 => Used(p) = {1, 2}
      /\ p = 0 /\ n[p] = 3 => Used(p) = {1, 2, 3}
      /\ p = 0 /\ n[p] = 4 => Used(p) = {4}
      /\ p = 1 /\ n[p] = 1 => Used(p) = {1, 2}
      /\ p = 1 /\ n[p] = 2 => Used(p) = {}
      /\ p = 1 /\ n[p] = 3 => Used(p) = {4}
      /\ p = 1 /\ n[p] = 4 => Used(p) = {1, 2, 3}
  BY <1>1, Zenon DEF Used
<1> QED BY <1>2

LEMMA SharedInv ==
  ASSUME Contiguous, IInv
  PROVE  SharedSet
<1>0. CPUs \subseteq Nat
  BY CpuFacts
<1>1. ASSUME NEW p \in CPUs, at[p] = "m_work"
      PROVE  Used(p) \subseteq shared
  <2>1. Testing
    BY <1>1, PlacesApart DEF IInv, Places
  <2>2. PICK l \in Ends : Working(l)
    BY <1>1, <2>1, SegmentOf DEF IInv
  <2>3. Pair(p) /\ n[p] \in 1..4
    BY <1>1, <2>2 DEF Working, Ends
  <2>4. p \in {0, 1}
    BY <1>0, <2>3 DEF Pair
  <2>5. {1, 2} \subseteq shared /\ (n[p] > 1 => {3, 4} \subseteq shared)
    BY <1>1, <2>2, <2>3 DEF Working, MmPlaces
  <2> QED BY <2>3, <2>4, <2>5, UsedIs
<1> QED BY <1>1 DEF SharedSet

\* The CPU that wakes up the others in collective_end() holds coll_mutex, and does
\* it for the mask of its own round.
THEOREM WakerOwns ==
  ASSUME Contiguous
  PROVE  TestSpec => []WakerOwnsRound
BY AlwaysIInv, OwnsInv, PTL

\* The CPUs outside the mask stay in smp_halt() until the master comes to
\* collective_end(), whatever IPIs are left over.
THEOREM OthersStay ==
  ASSUME Contiguous
  PROVE  TestSpec => []OthersHalt
BY AlwaysIInv, HaltInv, PTL

\* The HALTED bit is set all the while a CPU is in the loop of smp_halt(), and both
\* bits are clear while it runs: no unlocked update of the flags is lost.
THEOREM FlagsTell ==
  ASSUME Contiguous
  PROVE  TestSpec => []FlagsTellState
BY AlwaysIInv, FlagsInv, PTL

\* The CPUs a barrier of the self tests lets go have called it at the same place
\* and for the same time.
THEOREM CallsAgree ==
  ASSUME Contiguous
  PROVE  TestSpec => []SameCall
BY AlwaysIInv, CallInv, PTL

\* tests_mm() uses only memory allocated in the same execution.
THEOREM SharedFresh ==
  ASSUME Contiguous
  PROVE  TestSpec => []SharedSet
BY AlwaysIInv, SharedInv, PTL
=============================================================================
