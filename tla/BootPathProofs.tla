--------------------------- MODULE BootPathProofs --------------------------
(***************************************************************************)
(* The start of the APs for every number of CPUs, when each AP reaches its  *)
(* wakelock within the delay it is given: no AP takes the stack of another  *)
(* one, and all are counted, although neither the shared id nor the counter *)
(* is locked.  The same holds for the selection of APs that comes out of the *)
(* firmware's tables and the command line.                                 *)
(***************************************************************************)
EXTENDS BootPath, FiniteSetTheorems, WellFoundedInduction, TLAPS

BspLabels == {"wake", "poll", "load", "store", "setmax", "await", "main"} \cup InBarrier
ApLabels == {"off", "start", "load", "store", "lock", "init", "main"} \cup InBarrier
Labels == BspLabels \cup ApLabels

TypeInv ==
  /\ sel \subseteq APs
  /\ smp_apid \in Nat
  /\ pc \in [CPUs -> Labels]
  /\ pc[0] \in BspLabels /\ \A p \in APs : pc[p] \in ApLabels
  /\ stk \in [CPUs -> Nat]

\* An AP is between the start-up IPI and its wakelock only while the BSP waits
\* for this very AP: the delay serialises what no lock protects.
OneAtATime ==
  \A p \in APs : pc[p] \in {"start", "load", "store", "lock"} => pc[0] = "poll" /\ p = u

\* All that is needed for the stacks.
StackInv ==
  /\ TypeInv
  /\ OneAtATime
  /\ pc[0] = "poll" => u \in APs /\ smp_apid = u
  /\ \A p \in APs : pc[p] # "off" => p \in alive
  /\ OwnStack

LEMMA ZeroIsCpu == 0 \in CPUs /\ 0 \notin APs /\ APs \subseteq CPUs /\ CPUs = APs \cup {0} /\ CPUs \subseteq Nat
BY CountAssumption DEF CPUs, APs

-----------------------------------------------------------------------------
(* The stacks.                                                             *)

LEMMA ResetStackInv == AtReset /\ sel \subseteq APs => StackInv
<1> SUFFICES ASSUME AtReset, sel \subseteq APs PROVE StackInv
  OBVIOUS
<1>1. pc[0] = "wake" /\ (\A p \in APs : pc[p] = "off") /\ pc \in [CPUs -> Labels]
  BY ZeroIsCpu DEF AtReset, Labels, BspLabels, ApLabels
<1>2. smp_apid \in Nat /\ stk \in [CPUs -> Nat]
  BY DEF AtReset
<1>3. TypeInv
  BY <1>1, <1>2 DEF TypeInv, Labels, BspLabels, ApLabels
<1>. QED  BY <1>1, <1>3 DEF StackInv, OneAtATime, OwnStack, HasStack

LEMMA InitStackInv == Init => StackInv
<1>1. Init => sel \subseteq APs
  BY CountAssumption DEF Init, APs
<1>. QED  BY <1>1, ResetStackInv DEF Init

\* A step of one CPU that leaves the ids and the stacks alone, and does not bring
\* the BSP out of its wait or an AP among the unlocked instructions.
LEMMA HarmlessStep ==
  ASSUME StackInv, NEW p \in CPUs, NEW from, NEW to, Go(p, from, to),
         UNCHANGED <<sel, alive, u, smp_apid, stk>>,
         p = 0 => from # "poll" /\ to # "poll" /\ to \in BspLabels,
         p # 0 => /\ from # "off" /\ to # "off" /\ from # "start" /\ to \in ApLabels
                  /\ to \in {"start", "load", "store", "lock"} =>
                       from \in {"start", "load", "store", "lock"}
  PROVE  StackInv'
<1>. USE DEF StackInv, TypeInv, Go
<1>1. TypeInv'
  BY ZeroIsCpu DEF Labels
<1>2. OneAtATime'
  BY ZeroIsCpu DEF OneAtATime
<1>3. (pc[0] = "poll" => u \in APs /\ smp_apid = u)'
  BY ZeroIsCpu
<1>4. (\A q \in APs : pc[q] # "off" => q \in alive)'
  BY ZeroIsCpu
<1>5. OwnStack'
  BY ZeroIsCpu DEF OwnStack, HasStack
<1>. QED  BY <1>1, <1>2, <1>3, <1>4, <1>5

LEMMA StepStackInv == ~Late /\ StackInv /\ [Next]_vars => StackInv'
<1> SUFFICES ASSUME ~Late, StackInv, [Next]_vars PROVE StackInv'
  OBVIOUS
<1>. USE ZeroIsCpu
<1>1. CASE SkipAP
  <2>1. pc[0] = "wake" /\ UNCHANGED <<sel, alive, smp_apid, stk, pc>>
    BY <1>1 DEF SkipAP, inputs, bootVars
  <2>. QED  BY <2>1 DEF StackInv, TypeInv, OneAtATime, OwnStack, HasStack
<1>2. CASE WakeAP
  <2>1. /\ pc[0] = "wake" /\ u \in APs /\ u # 0 /\ smp_apid' = u /\ UNCHANGED <<sel, alive, u, stk>>
        /\ pc' = [pc EXCEPT ![0] = "poll", ![u] = IF u \in alive THEN "start" ELSE "off"]
    BY <1>2 DEF WakeAP, StackInv, TypeInv, inputs
  <2>2. /\ pc'[0] = "poll" /\ pc'[u] = IF u \in alive THEN "start" ELSE "off"
        /\ \A q \in APs : q # u => pc'[q] = pc[q]
        /\ pc' \in [CPUs -> Labels]
    BY <2>1 DEF StackInv, TypeInv, Labels, BspLabels, ApLabels
  <2>3. \A q \in APs : pc[q] \notin {"start", "load", "store", "lock"}
    BY <2>1 DEF StackInv, OneAtATime
  <2>4. TypeInv'
    BY <2>1, <2>2 DEF StackInv, TypeInv, Labels, BspLabels, ApLabels
  <2>5. OneAtATime'
    BY <2>1, <2>2, <2>3 DEF OneAtATime
  <2>6. OwnStack' /\ (\A q \in APs : pc[q] # "off" => q \in alive)'
    BY <2>1, <2>2 DEF StackInv, OwnStack, HasStack
  <2>. QED  BY <2>1, <2>2, <2>4, <2>5, <2>6 DEF StackInv
<1>3. CASE PollAP
  <2>1. /\ pc[0] = "poll" /\ pc' = [pc EXCEPT ![0] = "wake"]
        /\ UNCHANGED <<sel, alive, smp_apid, stk>>
    BY <1>3 DEF PollAP, Go, inputs
  <2>2. pc'[0] = "wake" /\ (\A q \in APs : pc'[q] = pc[q]) /\ pc' \in [CPUs -> Labels]
    BY <2>1 DEF StackInv, TypeInv, Labels, BspLabels
  <2>3. u \notin alive \/ HasLocked(u)
    BY <1>3 DEF PollAP, DelayOver
  <2>4. \A q \in APs : pc[q] \notin {"start", "load", "store", "lock"}
    BY <2>3 DEF StackInv, OneAtATime, HasLocked, InBarrier
  <2>5. TypeInv'
    BY <2>1, <2>2 DEF StackInv, TypeInv, Labels, BspLabels
  <2>. QED  BY <2>1, <2>2, <2>4, <2>5 DEF StackInv, OneAtATime, OwnStack, HasStack
<1>4. CASE AllCalled
  <2>1. Go(0, "wake", "load")
    BY <1>4 DEF AllCalled
  <2>2. UNCHANGED <<sel, alive, u, smp_apid, stk>>
    BY <1>4 DEF AllCalled, inputs, bootVars
  <2>3. "load" \in BspLabels
    BY DEF Labels, BspLabels
  <2>. QED  BY <2>1, <2>2, <2>3, HarmlessStep
<1>5. CASE BspLoad
  BY <1>5, HarmlessStep DEF BspLoad, inputs, bootVars, Labels, BspLabels
<1>6. CASE SetMax
  BY <1>6, HarmlessStep DEF SetMax, inputs, bootVars, Labels, BspLabels
<1>7. CASE Await
  BY <1>7, HarmlessStep DEF Await, inputs, bootVars, Labels, BspLabels, InBarrier
<1>8. ASSUME NEW p \in CPUs, Store(p) PROVE StackInv'
  BY <1>8, HarmlessStep DEF Store, inputs, bootVars, Labels, BspLabels, ApLabels
<1>9. ASSUME NEW p \in CPUs, BarrierArrive(p) PROVE StackInv'
  BY <1>9, HarmlessStep DEF BarrierArrive, inputs, bootVars, Labels, BspLabels, ApLabels, InBarrier
<1>10. ASSUME NEW p \in CPUs, BarrierTest(p) PROVE StackInv'
  <2>1. Go(p, "b_test", "main") \/ Go(p, "b_test", "b_spin")
    BY <1>10 DEF BarrierTest
  <2>2. UNCHANGED <<sel, alive, u, smp_apid, stk>>
    BY <1>10 DEF BarrierTest, inputs, bootVars
  <2>. QED  BY <2>1, <2>2, HarmlessStep DEF Labels, BspLabels, ApLabels, InBarrier
<1>11. ASSUME NEW p \in CPUs, BarrierLeave(p) PROVE StackInv'
  BY <1>11, HarmlessStep DEF BarrierLeave, inputs, bootVars, Labels, BspLabels, ApLabels
<1>12. ASSUME NEW p \in APs, TakeStack(p) PROVE StackInv'
  <2>1. /\ pc[p] = "start" /\ pc' = [pc EXCEPT ![p] = "load"] /\ stk' = [stk EXCEPT ![p] = smp_apid]
        /\ UNCHANGED <<sel, alive, u, smp_apid>>
    BY <1>12 DEF TakeStack, Go, inputs
  <2>2. pc[0] = "poll" /\ p = u /\ smp_apid = u
    BY <2>1 DEF StackInv, OneAtATime
  <2>3. /\ pc'[p] = "load" /\ (\A q \in CPUs : q # p => pc'[q] = pc[q]) /\ pc' \in [CPUs -> Labels]
        /\ stk'[p] = p /\ (\A q \in CPUs : q # p => stk'[q] = stk[q]) /\ stk' \in [CPUs -> Nat]
    BY <2>1, <2>2 DEF StackInv, TypeInv, Labels, ApLabels
  <2>4. TypeInv'
    BY <2>1, <2>3 DEF StackInv, TypeInv, Labels, ApLabels
  <2>. QED  BY <2>1, <2>2, <2>3, <2>4 DEF StackInv, OneAtATime, OwnStack, HasStack
<1>13. ASSUME NEW p \in APs, ApLoad(p) PROVE StackInv'
  BY <1>13, HarmlessStep DEF ApLoad, inputs, bootVars, Labels, ApLabels
<1>14. ASSUME NEW p \in APs, Lock(p) PROVE StackInv'
  BY <1>14, HarmlessStep DEF Lock, inputs, Labels, ApLabels
<1>15. ASSUME NEW p \in APs, InitAP(p) PROVE StackInv'
  BY <1>15, HarmlessStep DEF InitAP, inputs, bootVars, Labels, ApLabels, InBarrier
<1>16. CASE UNCHANGED vars
  BY <1>16 DEF vars, inputs, bootVars, StackInv, TypeInv, OneAtATime, OwnStack, HasStack
<1>. QED
  BY <1>1, <1>2, <1>3, <1>4, <1>5, <1>6, <1>7, <1>8, <1>9, <1>10, <1>11, <1>12, <1>13, <1>14, <1>15, <1>16
  DEF Next, BspStep, ApStep, InBarrierStep

\* Each AP runs on its own stack, whatever the number of CPUs, the options and
\* the CPUs that do not react, if none is late.
THEOREM OwnStacks == ASSUME ~Late PROVE Spec => []OwnStack
<1>1. StackInv /\ [Next]_vars => StackInv'
  BY StepStackInv
<1>2. StackInv => OwnStack
  BY DEF StackInv
<1>. QED  BY <1>1, <1>2, InitStackInv, PTL DEF Spec

-----------------------------------------------------------------------------
(* The counter.                                                            *)

CountLabels == {"lock", "init", "setmax", "await", "main"} \cup InBarrier
FixedLabels == {"await", "main"} \cup InBarrier

\* The CPUs whose increment of cpu_online is complete.
Counted == {p \in CPUs : pc[p] \in CountLabels}

\* The range of the loop of apic_init().
LoopInv ==
  /\ u \in Nat \ {0}
  /\ \A q \in sel : q < cpu_cnt
  /\ pc[0] = "poll" => u \in sel
  /\ pc[0] \notin {"wake", "poll"} => u = cpu_cnt

\* An AP is on its way if the loop has come to it.
CalledInv == \A q \in APs : pc[q] # "off" <=> q \in Up /\ (q < u \/ (q = u /\ pc[0] = "poll"))

\* No increment is lost: a CPU stores what is one more than the counter still.
OnlineInv ==
  /\ cpu_online \in Nat /\ old \in [CPUs -> Nat]
  /\ cpu_online = Cardinality(Counted)
  /\ \A p \in CPUs : pc[p] = "store" => old[p] = cpu_online
  /\ pc[0] \in FixedLabels => max = cpu_online

CountInv == StackInv /\ LoopInv /\ CalledInv /\ OnlineInv

LEMMA FiniteCPUs == IsFiniteSet(CPUs) /\ IsFiniteSet(APs) /\ IsFiniteSet(Counted)
<1>1. IsFiniteSet(CPUs) /\ IsFiniteSet(APs)
  BY CountAssumption, FS_Interval DEF CPUs, APs
<1>. QED  BY <1>1, FS_Subset DEF Counted

LEMMA ResetCountInv == AtReset /\ sel \subseteq APs /\ (\A q \in sel : q < cpu_cnt) => CountInv
<1> SUFFICES ASSUME AtReset, sel \subseteq APs, \A q \in sel : q < cpu_cnt
             PROVE  CountInv
  OBVIOUS
<1>1. StackInv
  BY ResetStackInv
<1>2. pc[0] = "wake" /\ (\A p \in APs : pc[p] = "off") /\ u = 1
  BY ZeroIsCpu DEF AtReset
<1>3. LoopInv
  BY <1>2 DEF LoopInv
<1>4. CalledInv
  BY <1>2 DEF CalledInv, APs
<1>5. \A p \in CPUs : pc[p] \in {"wake", "off"}
  BY <1>2, ZeroIsCpu
<1>6. Counted = {}
  BY <1>5 DEF Counted, CountLabels, InBarrier
<1>7. cpu_online = 0 /\ old \in [CPUs -> Nat]
  BY DEF AtReset
<1>8. cpu_online = Cardinality(Counted)
  BY <1>6, <1>7, FS_EmptySet
<1>9. OnlineInv
  BY <1>2, <1>5, <1>7, <1>8 DEF OnlineInv, FixedLabels, InBarrier
<1>. QED  BY <1>1, <1>3, <1>4, <1>9 DEF CountInv

\* A step of one CPU that is not one of the loop and completes no increment.
LEMMA KeepCount ==
  ASSUME CountInv, StackInv', NEW p \in CPUs, NEW from, NEW to, Go(p, from, to),
         UNCHANGED <<cpu_cnt, sel, alive, u, cpu_online>>, to \in Labels,
         from \in CountLabels <=> to \in CountLabels,
         p = 0 => /\ from # "poll" /\ to \notin {"poll", "wake"} /\ (from = "wake" => u = cpu_cnt)
                  /\ to \in FixedLabels => max' = cpu_online,
         p # 0 => from # "off" /\ to # "off" /\ max' = max,
         old' \in [CPUs -> Nat], \A q \in CPUs : q # p => old'[q] = old[q],
         to = "store" => old'[p] = cpu_online
  PROVE  CountInv'
<1>. USE ZeroIsCpu
<1>1. /\ pc[p] = from /\ pc'[p] = to /\ (\A q \in CPUs : q # p => pc'[q] = pc[q])
      /\ pc' \in [CPUs -> Labels]
  BY DEF Go, CountInv, StackInv, TypeInv
<1>2. LoopInv'
  BY <1>1 DEF CountInv, LoopInv
<1>3. CalledInv'
  BY <1>1 DEF CountInv, CalledInv, Up
<1>4. Counted' = Counted
  BY <1>1 DEF Counted
<1>5. OnlineInv'
  BY <1>1, <1>4 DEF CountInv, OnlineInv
<1>. QED  BY <1>2, <1>3, <1>5 DEF CountInv

LEMMA StepCountInv == ~Late /\ CountInv /\ [Next]_vars => CountInv'
<1> SUFFICES ASSUME ~Late, CountInv, [Next]_vars PROVE CountInv'
  OBVIOUS
<1>. USE ZeroIsCpu
<1>0. StackInv'
  BY StepStackInv DEF CountInv
<1>t. pc \in [CPUs -> Labels] /\ old \in [CPUs -> Nat] /\ cpu_online \in Nat
  BY DEF CountInv, StackInv, TypeInv, OnlineInv
<1>1. CASE SkipAP
  <2>1. /\ pc[0] = "wake" /\ u < cpu_cnt /\ u \notin sel /\ u' = u + 1
        /\ UNCHANGED <<cpu_cnt, sel, alive, pc, cpu_online, old, max>>
    BY <1>1 DEF SkipAP, inputs, countVars, barrierVars
  <2>2. LoopInv'
    BY <2>1 DEF CountInv, LoopInv
  <2>3. CalledInv'
    BY <2>1 DEF CountInv, LoopInv, CalledInv, Up, APs
  <2>4. OnlineInv'
    BY <2>1 DEF CountInv, OnlineInv, Counted
  <2>. QED  BY <1>0, <2>2, <2>3, <2>4 DEF CountInv
<1>2. CASE WakeAP
  <2>1. /\ pc[0] = "wake" /\ u \in sel /\ u \in APs /\ u # 0
        /\ UNCHANGED <<cpu_cnt, sel, alive, u, cpu_online, old, max>>
        /\ pc' = [pc EXCEPT ![0] = "poll", ![u] = IF u \in alive THEN "start" ELSE "off"]
    BY <1>2 DEF WakeAP, CountInv, StackInv, TypeInv, inputs, countVars, barrierVars
  <2>2. /\ pc'[0] = "poll" /\ pc'[u] = IF u \in alive THEN "start" ELSE "off"
        /\ \A q \in APs : q # u => pc'[q] = pc[q]
    BY <1>t, <2>1
  <2>3. pc[u] = "off"
    BY <2>1 DEF CountInv, CalledInv, LoopInv
  <2>4. LoopInv'
    BY <2>1, <2>2 DEF CountInv, LoopInv
  <2>5. CalledInv'
    <3> SUFFICES ASSUME NEW q \in APs
                 PROVE  pc'[q] # "off" <=> q \in Up' /\ (q < u \/ q = u)
      BY <2>1, <2>2 DEF CalledInv
    <3>1. Up' = Up /\ u \in Nat
      BY <2>1 DEF Up, CountInv, LoopInv
    <3>2. pc[q] # "off" <=> q \in Up /\ q < u
      BY <2>1 DEF CountInv, CalledInv
    <3>3. CASE q = u
      BY <2>1, <2>2, <3>1, <3>3 DEF Up
    <3>4. CASE q # u
      BY <2>2, <3>1, <3>2, <3>4
    <3>. QED  BY <3>3, <3>4
  <2>6. /\ \A q \in CPUs : pc'[q] # pc[q] => pc[q] \in {"wake", "off"} /\ pc'[q] \in {"poll", "start", "off"}
    BY <2>1, <2>2, <2>3
  <2>7. Counted' = Counted
    BY <2>6 DEF Counted, CountLabels, InBarrier
  <2>8. OnlineInv'
    BY <2>1, <2>2, <2>6, <2>7 DEF CountInv, OnlineInv, FixedLabels, InBarrier
  <2>. QED  BY <1>0, <2>4, <2>5, <2>8 DEF CountInv
<1>3. CASE PollAP
  <2>1. /\ pc[0] = "poll" /\ pc' = [pc EXCEPT ![0] = "wake"] /\ u' = u + 1
        /\ UNCHANGED <<cpu_cnt, sel, alive, cpu_online, old, max>>
    BY <1>3 DEF PollAP, Go, inputs, countVars, barrierVars
  <2>2. pc'[0] = "wake" /\ (\A q \in APs : pc'[q] = pc[q])
    BY <1>t, <2>1
  <2>3. u \in sel /\ u \in Nat \ {0}
    BY <2>1 DEF CountInv, LoopInv
  <2>4. LoopInv'
    BY <2>1, <2>2, <2>3 DEF CountInv, LoopInv
  <2>5. CalledInv'
    BY <2>1, <2>2, <2>3 DEF CountInv, CalledInv, Up
  <2>6. Counted' = Counted
    BY <2>1, <2>2 DEF Counted, CountLabels, InBarrier
  <2>7. OnlineInv'
    BY <2>1, <2>2, <2>6 DEF CountInv, OnlineInv, FixedLabels, InBarrier
  <2>. QED  BY <1>0, <2>4, <2>5, <2>7 DEF CountInv
<1>4. CASE AllCalled
  <2>1. Go(0, "wake", "load") /\ u = cpu_cnt
    BY <1>4 DEF AllCalled
  <2>2. UNCHANGED <<cpu_cnt, sel, alive, u, cpu_online, old, max>>
    BY <1>4 DEF AllCalled, inputs, bootVars, countVars, barrierVars
  <2>. QED  BY <1>0, <1>t, <2>1, <2>2, KeepCount DEF Labels, BspLabels, CountLabels, FixedLabels, InBarrier
<1>5. CASE BspLoad
  <2>1. Go(0, "load", "store") /\ old' = [old EXCEPT ![0] = cpu_online]
    BY <1>5 DEF BspLoad
  <2>2. UNCHANGED <<cpu_cnt, sel, alive, u, cpu_online, max>>
    BY <1>5 DEF BspLoad, inputs, bootVars, barrierVars
  <2>3. old' \in [CPUs -> Nat] /\ old'[0] = cpu_online /\ \A q \in CPUs : q # 0 => old'[q] = old[q]
    BY <1>t, <2>1
  <2>. QED  BY <1>0, <2>1, <2>2, <2>3, KeepCount DEF Labels, BspLabels, CountLabels, FixedLabels, InBarrier
<1>6. CASE SetMax
  <2>1. Go(0, "setmax", "await") /\ max' = cpu_online
    BY <1>6 DEF SetMax
  <2>2. UNCHANGED <<cpu_cnt, sel, alive, u, cpu_online, old>>
    BY <1>6 DEF SetMax, inputs, bootVars, countVars
  <2>. QED  BY <1>0, <1>t, <2>1, <2>2, KeepCount DEF Labels, BspLabels, CountLabels, FixedLabels, InBarrier
<1>7. CASE Await
  <2>1. Go(0, "await", "b_arrive") /\ max = cpu_online
    BY <1>7 DEF Await, Go, CountInv, OnlineInv, FixedLabels
  <2>2. UNCHANGED <<cpu_cnt, sel, alive, u, cpu_online, old, max>>
    BY <1>7 DEF Await, inputs, bootVars, countVars, barrierVars
  <2>. QED  BY <1>0, <1>t, <2>1, <2>2, KeepCount DEF Labels, BspLabels, CountLabels, FixedLabels, InBarrier
<1>8. ASSUME NEW p \in CPUs, Store(p) PROVE CountInv'
  <2>1. /\ pc[p] = "store" /\ pc' = [pc EXCEPT ![p] = IF p = 0 THEN "setmax" ELSE "lock"]
        /\ cpu_online' = old[p] + 1 /\ UNCHANGED <<cpu_cnt, sel, alive, u, old, max>>
    BY <1>8 DEF Store, Go, inputs, bootVars, barrierVars
  <2>2. pc'[p] = (IF p = 0 THEN "setmax" ELSE "lock") /\ \A q \in CPUs : q # p => pc'[q] = pc[q]
    BY <1>t, <2>1
  <2>3. cpu_online' = cpu_online + 1 /\ cpu_online' \in Nat
    BY <1>t, <2>1 DEF CountInv, OnlineInv
  <2>4. Counted' = Counted \cup {p} /\ p \notin Counted
    BY <2>1, <2>2 DEF Counted, CountLabels, InBarrier
  <2>5. cpu_online' = Cardinality(Counted')
    BY <2>3, <2>4, FiniteCPUs, FS_AddElement DEF CountInv, OnlineInv
  <2>6. \A q \in CPUs : q # p => pc[q] # "store"
    BY <2>1 DEF CountInv, StackInv, OneAtATime
  <2>7. pc[0] \notin FixedLabels /\ pc'[0] \notin FixedLabels
    BY <2>1, <2>2 DEF CountInv, StackInv, OneAtATime, FixedLabels, InBarrier
  <2>8. OnlineInv'
    BY <1>t, <2>1, <2>2, <2>3, <2>5, <2>6, <2>7 DEF OnlineInv
  <2>9. LoopInv' /\ CalledInv'
    BY <2>1, <2>2 DEF CountInv, LoopInv, CalledInv, Up
  <2>. QED  BY <1>0, <2>8, <2>9 DEF CountInv
<1>9. ASSUME NEW p \in CPUs, BarrierArrive(p) PROVE CountInv'
  <2>1. Go(p, "b_arrive", "b_test") /\ (p = 0 => max = cpu_online)
    BY <1>9 DEF BarrierArrive, Go, CountInv, OnlineInv, FixedLabels, InBarrier
  <2>2. UNCHANGED <<cpu_cnt, sel, alive, u, cpu_online, old, max>>
    BY <1>9 DEF BarrierArrive, inputs, bootVars, countVars
  <2>. QED  BY <1>0, <1>t, <2>1, <2>2, KeepCount DEF Labels, BspLabels, CountLabels, FixedLabels, InBarrier
<1>10. ASSUME NEW p \in CPUs, BarrierTest(p) PROVE CountInv'
  <2>1. Go(p, "b_test", "main") \/ Go(p, "b_test", "b_spin")
    BY <1>10 DEF BarrierTest
  <2>2. p = 0 => max = cpu_online
    BY <2>1 DEF Go, CountInv, OnlineInv, FixedLabels, InBarrier
  <2>3. UNCHANGED <<cpu_cnt, sel, alive, u, cpu_online, old, max>>
    BY <1>10 DEF BarrierTest, inputs, bootVars, countVars
  <2>4. ASSUME NEW to \in {"main", "b_spin"}, Go(p, "b_test", to) PROVE CountInv'
    BY <1>0, <1>t, <2>2, <2>3, <2>4, KeepCount DEF Labels, BspLabels, CountLabels, FixedLabels, InBarrier
  <2>. QED  BY <2>1, <2>4
<1>11. ASSUME NEW p \in CPUs, BarrierLeave(p) PROVE CountInv'
  <2>1. Go(p, "b_spin", "main") /\ (p = 0 => max = cpu_online)
    BY <1>11 DEF BarrierLeave, Go, CountInv, OnlineInv, FixedLabels, InBarrier
  <2>2. UNCHANGED <<cpu_cnt, sel, alive, u, cpu_online, old, max>>
    BY <1>11 DEF BarrierLeave, inputs, bootVars, countVars, barrierVars
  <2>. QED  BY <1>0, <1>t, <2>1, <2>2, KeepCount DEF Labels, BspLabels, CountLabels, FixedLabels, InBarrier
<1>12. ASSUME NEW p \in APs, TakeStack(p) PROVE CountInv'
  <2>1. Go(p, "start", "load")
    BY <1>12 DEF TakeStack
  <2>2. UNCHANGED <<cpu_cnt, sel, alive, u, cpu_online, old, max>>
    BY <1>12 DEF TakeStack, inputs, countVars, barrierVars
  <2>. QED  BY <1>0, <1>t, <2>1, <2>2, KeepCount DEF Labels, ApLabels, CountLabels, InBarrier
<1>13. ASSUME NEW p \in APs, ApLoad(p) PROVE CountInv'
  <2>1. Go(p, "load", "store") /\ old' = [old EXCEPT ![p] = cpu_online]
    BY <1>13 DEF ApLoad
  <2>2. UNCHANGED <<cpu_cnt, sel, alive, u, cpu_online, max>>
    BY <1>13 DEF ApLoad, inputs, bootVars, barrierVars
  <2>3. old' \in [CPUs -> Nat] /\ old'[p] = cpu_online /\ \A q \in CPUs : q # p => old'[q] = old[q]
    BY <1>t, <2>1
  <2>. QED  BY <1>0, <2>1, <2>2, <2>3, KeepCount DEF Labels, ApLabels, CountLabels, InBarrier
<1>14. ASSUME NEW p \in APs, Lock(p) PROVE CountInv'
  <2>1. Go(p, "lock", "init")
    BY <1>14 DEF Lock
  <2>2. UNCHANGED <<cpu_cnt, sel, alive, u, cpu_online, old, max>>
    BY <1>14 DEF Lock, inputs, countVars, barrierVars
  <2>. QED  BY <1>0, <1>t, <2>1, <2>2, KeepCount DEF Labels, ApLabels, CountLabels, InBarrier
<1>15. ASSUME NEW p \in APs, InitAP(p) PROVE CountInv'
  <2>1. Go(p, "init", "b_arrive")
    BY <1>15 DEF InitAP
  <2>2. UNCHANGED <<cpu_cnt, sel, alive, u, cpu_online, old, max>>
    BY <1>15 DEF InitAP, inputs, bootVars, countVars, barrierVars
  <2>. QED  BY <1>0, <1>t, <2>1, <2>2, KeepCount DEF Labels, ApLabels, CountLabels, InBarrier
<1>16. CASE UNCHANGED vars
  BY <1>16, <1>0 DEF vars, inputs, bootVars, countVars, barrierVars, CountInv, LoopInv, CalledInv, OnlineInv, Counted, Up
<1>. QED
  BY <1>1, <1>2, <1>3, <1>4, <1>5, <1>6, <1>7, <1>8, <1>9, <1>10, <1>11, <1>12, <1>13, <1>14, <1>15, <1>16
  DEF Next, BspStep, ApStep, InBarrierStep

LEMMA CountInvExact == CountInv => OnlineExact
<1> SUFFICES ASSUME CountInv, pc[0] \in FixedLabels
             PROVE  cpu_online = 1 + Cardinality(Up) /\ max = cpu_online
  BY DEF OnlineExact, FixedLabels
<1>. USE ZeroIsCpu
<1>1. pc[0] \in CountLabels /\ pc[0] \notin {"wake", "poll"}
  BY DEF FixedLabels, CountLabels, InBarrier
<1>2. u = cpu_cnt /\ (\A q \in sel : q < u) /\ sel \subseteq APs
  BY <1>1 DEF CountInv, LoopInv, StackInv, TypeInv
<1>3. \A q \in APs : pc[q] # "off" <=> q \in Up
  BY <1>1, <1>2 DEF CountInv, CalledInv, Up
<1>4. \A q \in APs : pc[q] \in ApLabels /\ pc[q] \notin {"start", "load", "store"}
  BY <1>1 DEF CountInv, StackInv, OneAtATime, TypeInv
<1>5. \A q \in APs : pc[q] \in CountLabels <=> q \in Up
  BY <1>3, <1>4 DEF CountLabels, ApLabels, InBarrier
<1>6. Counted = Up \cup {0} /\ 0 \notin Up /\ IsFiniteSet(Up)
  BY <1>1, <1>2, <1>5, FiniteCPUs, FS_Subset DEF Counted, Up
<1>7. Cardinality(Counted) = Cardinality(Up) + 1 /\ Cardinality(Up) \in Nat
  BY <1>6, FS_AddElement, FS_CardinalityType
<1>. QED  BY <1>7 DEF CountInv, OnlineInv

\* All CPUs that came up are counted once, without a lock, when the BSP fixes the
\* number of participants of the global barrier, if no AP is late.
THEOREM AllCounted == ASSUME ~Late PROVE Spec => []OnlineExact
<1>1. Init => CountInv
  <2> SUFFICES ASSUME Init PROVE CountInv
    OBVIOUS
  <2>1. sel \subseteq APs /\ \A q \in sel : q < cpu_cnt
    BY CountAssumption DEF Init, APs
  <2>. QED  BY <2>1, ResetCountInv DEF Init
<1>2. CountInv /\ [Next]_vars => CountInv'
  BY StepCountInv
<1>. QED  BY <1>1, <1>2, CountInvExact, PTL DEF Spec

-----------------------------------------------------------------------------
(* The first meeting.                                                      *)

ArrivedLabels == {"b_test", "b_spin", "main"}
Arrived == {p \in CPUs : pc[p] \in ArrivedLabels}

\* The counter of the barrier is the number of CPUs that have arrived, as long as
\* the episode lasts; before the BSP sets it the maximum cannot be reached, and
\* once the episode is over, nobody is left who could arrive.
MeetInv ==
  /\ cnt \in Nat /\ c \in [CPUs -> Nat] /\ epoch \in {0, 1}
  /\ \A p \in CPUs : c[p] > 0 <=> p \in Arrived
  /\ pc[0] \notin FixedLabels => max = MaxCpu + 1
  /\ \A p \in CPUs : pc[p] = "main" => epoch = 1
  /\ epoch = 0 => cnt = Cardinality(Arrived) /\ \A p \in CPUs : c[p] <= cnt
  /\ epoch = 1 => \A p \in Up \cup {0} : p \in Arrived

LEMMA ResetMeetInv == AtReset => MeetInv
<1> SUFFICES ASSUME AtReset PROVE MeetInv
  OBVIOUS
<1>1. /\ pc = [p \in CPUs |-> IF p = 0 THEN "wake" ELSE "off"]
      /\ cnt = 0 /\ epoch = 0 /\ c = [p \in CPUs |-> 0] /\ max = MaxCpu + 1
  BY DEF AtReset
<1>2. \A p \in CPUs : pc[p] \in {"wake", "off"}
  BY <1>1
<1>3. Arrived = {}
  BY <1>2 DEF Arrived, ArrivedLabels
<1>. QED  BY <1>1, <1>2, <1>3, FS_EmptySet DEF MeetInv

\* The CPUs that arrive were woken, and are not more than the BSP sets as maximum.
LEMMA ArrivedUp ==
  ASSUME CountInv
  PROVE  /\ Arrived \subseteq Up \cup {0} /\ Up \cup {0} \subseteq CPUs
         /\ IsFiniteSet(Arrived) /\ Cardinality(Arrived) \in Nat
         /\ Cardinality(Arrived) <= MaxCpu
<1>. USE ZeroIsCpu
<1>1. Arrived \subseteq CPUs /\ Up \cup {0} \subseteq CPUs
  BY DEF Arrived, CountInv, StackInv, TypeInv, Up
<1>2. Arrived \subseteq Up \cup {0}
  BY <1>1 DEF Arrived, ArrivedLabels, CountInv, CalledInv
<1>3. IsFiniteSet(Arrived) /\ Cardinality(Arrived) \in Nat /\ Cardinality(Arrived) <= Cardinality(CPUs)
  BY <1>1, FiniteCPUs, FS_Subset, FS_CardinalityType
<1>4. Cardinality(CPUs) = MaxCpu
  BY CountAssumption, FS_Interval DEF CPUs
<1>. QED  BY <1>1, <1>2, <1>3, <1>4

\* A step of a CPU that neither arrives nor leaves.
LEMMA KeepMeeting ==
  ASSUME CountInv, MeetInv, NEW p \in CPUs, NEW from, NEW to, Go(p, from, to),
         UNCHANGED <<sel, alive, cnt, epoch, c>>, to # "main",
         from \in ArrivedLabels <=> to \in ArrivedLabels,
         IF p = 0 THEN to \notin FixedLabels => max' = max /\ from \notin FixedLabels ELSE max' = max
  PROVE  MeetInv'
<1>1. /\ pc[p] = from /\ pc'[p] = to /\ (\A q \in CPUs : q # p => pc'[q] = pc[q])
  BY DEF Go, CountInv, StackInv, TypeInv
<1>2. Arrived' = Arrived
  BY <1>1 DEF Arrived
<1>3. Up' = Up
  BY DEF Up
<1>4. (pc[0] \notin FixedLabels => max = MaxCpu + 1)'
  BY <1>1, ZeroIsCpu DEF MeetInv
<1>. QED  BY <1>1, <1>2, <1>3, <1>4 DEF MeetInv

LEMMA StepMeetInv == CountInv /\ MeetInv /\ [Next]_vars => MeetInv'
<1> SUFFICES ASSUME CountInv, MeetInv, [Next]_vars PROVE MeetInv'
  OBVIOUS
<1>. USE ZeroIsCpu
<1>t. pc \in [CPUs -> Labels]
  BY DEF CountInv, StackInv, TypeInv
<1>0. sel \subseteq APs
  BY DEF CountInv, StackInv, TypeInv
<1>1. CASE SkipAP
  BY <1>1 DEF SkipAP, inputs, barrierVars, MeetInv, Arrived, Up
<1>2. CASE WakeAP
  <2>1. /\ u \in APs /\ u # 0 /\ pc[0] = "wake"
        /\ pc' = [pc EXCEPT ![0] = "poll", ![u] = IF u \in alive THEN "start" ELSE "off"]
        /\ UNCHANGED <<sel, alive, cnt, epoch, c, max>>
    BY <1>0, <1>2 DEF WakeAP, inputs, barrierVars
  <2>2. pc[u] = "off"
    BY <2>1 DEF CountInv, CalledInv, LoopInv
  <2>3. /\ pc'[0] = "poll" /\ pc'[u] \in {"start", "off"}
        /\ \A q \in CPUs : q # 0 /\ q # u => pc'[q] = pc[q]
    BY <1>t, <2>1
  <2>4. Arrived' = Arrived /\ Up' = Up
    BY <2>1, <2>2, <2>3 DEF Arrived, ArrivedLabels, Up
  <2>5. \A p \in CPUs : pc'[p] = "main" => pc[p] = "main"
    BY <2>3
  <2>6. max' = MaxCpu + 1
    BY <2>1 DEF MeetInv, FixedLabels, InBarrier
  <2>. QED  BY <2>1, <2>4, <2>5, <2>6 DEF MeetInv
<1>3. CASE PollAP
  <2>1. UNCHANGED <<sel, alive, cnt, epoch, c, max>> /\ Go(0, "poll", "wake")
    BY <1>3 DEF PollAP, inputs, barrierVars
  <2>. QED  BY <2>1, KeepMeeting DEF ArrivedLabels, FixedLabels, InBarrier
<1>4. CASE AllCalled
  <2>1. UNCHANGED <<sel, alive, cnt, epoch, c, max>> /\ Go(0, "wake", "load")
    BY <1>4 DEF AllCalled, inputs, barrierVars
  <2>. QED  BY <2>1, KeepMeeting DEF ArrivedLabels, FixedLabels, InBarrier
<1>5. CASE BspLoad
  <2>1. UNCHANGED <<sel, alive, cnt, epoch, c, max>> /\ Go(0, "load", "store")
    BY <1>5 DEF BspLoad, inputs, barrierVars
  <2>. QED  BY <2>1, KeepMeeting DEF ArrivedLabels, FixedLabels, InBarrier
<1>6. CASE SetMax
  <2>1. UNCHANGED <<sel, alive, cnt, epoch, c>> /\ Go(0, "setmax", "await")
    BY <1>6 DEF SetMax, inputs
  <2>. QED  BY <2>1, KeepMeeting DEF ArrivedLabels, FixedLabels, InBarrier
<1>7. CASE Await
  <2>1. UNCHANGED <<sel, alive, cnt, epoch, c, max>> /\ Go(0, "await", "b_arrive")
    BY <1>7 DEF Await, inputs, barrierVars
  <2>. QED  BY <2>1, KeepMeeting DEF ArrivedLabels, FixedLabels, InBarrier
<1>8. ASSUME NEW p \in CPUs, Store(p) PROVE MeetInv'
  <2>1. UNCHANGED <<sel, alive, cnt, epoch, c, max>> /\ Go(p, "store", IF p = 0 THEN "setmax" ELSE "lock")
    BY <1>8 DEF Store, inputs, barrierVars
  <2>. QED  BY <2>1, KeepMeeting DEF ArrivedLabels, FixedLabels, InBarrier
<1>9. ASSUME NEW p \in CPUs, BarrierArrive(p) PROVE MeetInv'
  <2>1. /\ pc[p] = "b_arrive" /\ pc' = [pc EXCEPT ![p] = "b_test"]
        /\ cnt' = cnt + 1 /\ c' = [c EXCEPT ![p] = cnt + 1]
        /\ UNCHANGED <<sel, alive, epoch, max>>
    BY <1>9 DEF BarrierArrive, Go, inputs
  <2>2. /\ pc'[p] = "b_test" /\ (\A q \in CPUs : q # p => pc'[q] = pc[q])
        /\ c' \in [CPUs -> Nat] /\ c'[p] = cnt + 1 /\ (\A q \in CPUs : q # p => c'[q] = c[q])
    BY <1>t, <2>1 DEF MeetInv
  <2>3. Arrived' = Arrived \cup {p} /\ p \notin Arrived
    BY <2>1, <2>2 DEF Arrived, ArrivedLabels
  <2>4. p \in Up \cup {0}
    BY <2>1 DEF CountInv, CalledInv
  <2>5. epoch = 0
    BY <2>3, <2>4 DEF MeetInv
  <2>6. cnt' = Cardinality(Arrived')
    BY <2>1, <2>3, <2>5, ArrivedUp, FS_AddElement DEF MeetInv
  <2>7. (\A q \in CPUs : c[q] > 0 <=> q \in Arrived)'
    BY <2>2, <2>3 DEF MeetInv
  <2>8. (pc[0] \notin FixedLabels => max = MaxCpu + 1)'
    BY <2>1, <2>2 DEF MeetInv, FixedLabels, InBarrier
  <2>9. \A q \in CPUs : pc'[q] # "main"
    BY <2>2, <2>5 DEF MeetInv
  <2>10. \A q \in CPUs : c'[q] <= cnt'
    BY <2>1, <2>2, <2>5 DEF MeetInv
  <2>. QED  BY <2>1, <2>2, <2>5, <2>6, <2>7, <2>8, <2>9, <2>10 DEF MeetInv
<1>10. ASSUME NEW p \in CPUs, BarrierTest(p) PROVE MeetInv'
  <2>0. pc[p] = "b_test" /\ UNCHANGED <<sel, alive, c, max>>
    BY <1>10 DEF BarrierTest, Go, inputs
  <2>1. CASE c[p] # max
    <3>1. Go(p, "b_test", "b_spin") /\ UNCHANGED <<cnt, epoch>>
      BY <1>10, <2>1 DEF BarrierTest
    <3>. QED  BY <2>0, <3>1, KeepMeeting DEF ArrivedLabels, FixedLabels, InBarrier
  <2>2. CASE c[p] = max
    <3>1. pc' = [pc EXCEPT ![p] = "main"] /\ cnt' = 0 /\ epoch' = 1
      BY <1>10, <2>2 DEF BarrierTest, Go
    <3>2. pc'[p] = "main" /\ \A q \in CPUs : q # p => pc'[q] = pc[q]
      BY <1>t, <3>1
    <3>3. Arrived' = Arrived /\ Up' = Up
      BY <2>0, <3>2 DEF Arrived, ArrivedLabels, Up
    <3>4. (pc[0] \notin FixedLabels => max = MaxCpu + 1)'
      BY <2>0, <3>2 DEF MeetInv, FixedLabels, InBarrier
    <3>5. \A q \in Up \cup {0} : q \in Arrived
      <4>1. CASE epoch = 1
        BY <4>1 DEF MeetInv
      <4>2. CASE epoch = 0
        <5>1. max <= Cardinality(Arrived)
          BY <2>2, <4>2 DEF MeetInv
        <5>2. pc[0] \in FixedLabels
          BY <5>1, ArrivedUp, CountAssumption DEF MeetInv
        <5>3. max = 1 + Cardinality(Up)
          BY <5>2, CountInvExact DEF OnlineExact, FixedLabels
        <5>4. IsFiniteSet(Up \cup {0}) /\ Cardinality(Up \cup {0}) = 1 + Cardinality(Up)
          <6>1. 0 \notin Up /\ IsFiniteSet(Up)
            BY <1>0, FiniteCPUs, FS_Subset DEF Up
          <6>2. Cardinality(Up) \in Nat
            BY <6>1, FS_CardinalityType
          <6>3. IsFiniteSet(Up \cup {0}) /\ Cardinality(Up \cup {0}) = Cardinality(Up) + 1
            BY <6>1, FS_AddElement
          <6>. QED  BY <6>2, <6>3
        <5>. QED  BY <5>1, <5>3, <5>4, ArrivedUp, FS_Subset, FS_CardinalityType
      <4>. QED  BY <4>1, <4>2 DEF MeetInv
    <3>. QED  BY <2>0, <3>1, <3>2, <3>3, <3>4, <3>5 DEF MeetInv
  <2>. QED  BY <2>1, <2>2
<1>11. ASSUME NEW p \in CPUs, BarrierLeave(p) PROVE MeetInv'
  <2>1. /\ pc[p] = "b_spin" /\ pc' = [pc EXCEPT ![p] = "main"] /\ epoch = 1
        /\ UNCHANGED <<sel, alive, cnt, epoch, c, max>>
    BY <1>11 DEF BarrierLeave, Go, inputs, barrierVars
  <2>2. pc'[p] = "main" /\ \A q \in CPUs : q # p => pc'[q] = pc[q]
    BY <1>t, <2>1
  <2>3. Arrived' = Arrived /\ Up' = Up
    BY <2>1, <2>2 DEF Arrived, ArrivedLabels, Up
  <2>4. (pc[0] \notin FixedLabels => max = MaxCpu + 1)'
    BY <2>1, <2>2 DEF MeetInv, FixedLabels, InBarrier
  <2>. QED  BY <2>1, <2>2, <2>3, <2>4 DEF MeetInv
<1>12. ASSUME NEW p \in APs, TakeStack(p) PROVE MeetInv'
  <2>1. UNCHANGED <<sel, alive, cnt, epoch, c, max>> /\ Go(p, "start", "load")
    BY <1>12 DEF TakeStack, inputs, barrierVars
  <2>. QED  BY <2>1, KeepMeeting DEF ArrivedLabels
<1>13. ASSUME NEW p \in APs, ApLoad(p) PROVE MeetInv'
  <2>1. UNCHANGED <<sel, alive, cnt, epoch, c, max>> /\ Go(p, "load", "store")
    BY <1>13 DEF ApLoad, inputs, barrierVars
  <2>. QED  BY <2>1, KeepMeeting DEF ArrivedLabels
<1>14. ASSUME NEW p \in APs, Lock(p) PROVE MeetInv'
  <2>1. UNCHANGED <<sel, alive, cnt, epoch, c, max>> /\ Go(p, "lock", "init")
    BY <1>14 DEF Lock, inputs, barrierVars
  <2>. QED  BY <2>1, KeepMeeting DEF ArrivedLabels
<1>15. ASSUME NEW p \in APs, InitAP(p) PROVE MeetInv'
  <2>1. UNCHANGED <<sel, alive, cnt, epoch, c, max>> /\ Go(p, "init", "b_arrive")
    BY <1>15 DEF InitAP, inputs, barrierVars
  <2>. QED  BY <2>1, KeepMeeting DEF ArrivedLabels
<1>16. CASE UNCHANGED vars
  BY <1>16 DEF vars, inputs, barrierVars, MeetInv, Arrived, Up
<1>. QED
  BY <1>1, <1>2, <1>3, <1>4, <1>5, <1>6, <1>7, <1>8, <1>9, <1>10, <1>11, <1>12, <1>13, <1>14, <1>15, <1>16
  DEF Next, BspStep, ApStep, InBarrierStep

LEMMA MeetInvRendezvous == MeetInv => BootRendezvous
<1> SUFFICES ASSUME MeetInv, NEW p \in CPUs, pc[p] = "main", NEW q \in Up \cup {0}
             PROVE  pc[q] = "main" \/ c[q] > 0
  BY DEF BootRendezvous
<1>1. q \in Arrived
  BY DEF MeetInv
<1>. QED  BY <1>1 DEF MeetInv, Arrived

-----------------------------------------------------------------------------
(* The whole way: the CPUs that get_info() found and the options it parsed. *)

\* Until the kernel is entered nothing of it has run.
PathInv == CountInv /\ MeetInv /\ (ph # "kernel" => AtReset)

LEMMA PathInitInv == PathInit => PathInv
<1> SUFFICES ASSUME PathInit PROVE PathInv
  OBVIOUS
<1>1. AtReset /\ sel = {}
  BY DEF PathInit
<1>. QED  BY <1>1, ResetCountInv, ResetMeetInv DEF PathInv

LEMMA InfoBeforeKernel == InfoStep => ph # "kernel"
BY DEF InfoStep, IntelCache, AmdCaches, NoCacheInfo, ParseWord, CmdlineEnd, ReadBda, ReadRsdp, StartMadt,
       MadtEntry, ReadMcfg, SkipTable, RsdtEnd, SkipMps, MpsExtdBad, StartMps, MpsEntry, CheckInfo

LEMMA SameAtReset == AtReset /\ UNCHANGED <<alive, bootVars, pc, countVars, barrierVars>> => AtReset'
BY DEF AtReset, bootVars, countVars, barrierVars

LEMMA PathStepInv == ~Late /\ PathInv /\ [PathNext]_pathVars => PathInv'
<1> SUFFICES ASSUME ~Late, PathInv, [PathNext]_pathVars PROVE PathInv'
  OBVIOUS
<1>1. CASE Info
  <2>1. ph # "kernel" /\ UNCHANGED vars
    BY <1>1, InfoBeforeKernel DEF Info
  <2>2. CountInv' /\ MeetInv'
    BY <2>1, StepCountInv, StepMeetInv DEF PathInv
  <2>. QED  BY <2>1, <2>2, SameAtReset DEF PathInv, vars, inputs
<1>2. CASE EnterKernel
  <2>1. ph' = "kernel" /\ AtReset'
    BY <1>2, SameAtReset DEF EnterKernel, PathInv
  <2>2. sel' \subseteq APs /\ \A q \in sel' : q < cpu_cnt'
    BY <1>2 DEF EnterKernel, Wanted
  <2>3. (AtReset /\ sel \subseteq APs /\ (\A q \in sel : q < cpu_cnt) => CountInv)'
    BY ResetCountInv, PTL
  <2>4. APs' = APs
    BY DEF APs
  <2>5. (AtReset => MeetInv)'
    BY ResetMeetInv, PTL
  <2>. QED  BY <2>1, <2>2, <2>3, <2>4, <2>5 DEF PathInv
<1>3. ASSUME ph = "kernel", Next, UNCHANGED infoVars PROVE PathInv'
  <2>1. ph' = "kernel"
    BY <1>3 DEF infoVars
  <2>2. CountInv' /\ MeetInv'
    BY <1>3, StepCountInv, StepMeetInv DEF PathInv
  <2>. QED  BY <2>1, <2>2 DEF PathInv
<1>4. CASE Kernel(BspStep)
  BY <1>3, <1>4 DEF Kernel, Next
<1>5. ASSUME NEW p \in APs, Kernel(ApStep(p)) PROVE PathInv'
  BY <1>3, <1>5 DEF Kernel, Next
<1>6. CASE UNCHANGED pathVars
  <2>1. UNCHANGED vars /\ ph' = ph
    BY <1>6 DEF pathVars, infoVars
  <2>2. CountInv' /\ MeetInv'
    BY <2>1, StepCountInv, StepMeetInv DEF PathInv
  <2>. QED  BY <2>1, <2>2, SameAtReset DEF PathInv, vars, inputs
<1>. QED  BY <1>1, <1>2, <1>4, <1>5, <1>6 DEF PathNext

\* From the boot loader on, whatever the tables and the command line say: each AP
\* runs on its own stack, if none is late.
THEOREM PathOwnStack == ASSUME ~Late PROVE PathSpec => []OwnStack
<1>1. PathInv /\ [PathNext]_pathVars => PathInv'
  BY PathStepInv
<1>2. PathInv => OwnStack
  BY DEF PathInv, CountInv, StackInv
<1>. QED  BY <1>1, <1>2, PathInitInv, PTL DEF PathSpec

\* From the boot loader on: cpu_online, which is counted up without a lock, is the
\* number of the CPUs that are wanted and react, and so is global_barrier.max.
THEOREM PathOnlineExact == ASSUME ~Late PROVE PathSpec => []OnlineExact
<1>1. PathInv /\ [PathNext]_pathVars => PathInv'
  BY PathStepInv
<1>2. PathInv => OnlineExact
  BY CountInvExact DEF PathInv
<1>. QED  BY <1>1, <1>2, PathInitInv, PTL DEF PathSpec

\* From the boot loader on: no CPU is in main() before all CPUs that came up have
\* arrived at the barrier, although its number of participants is set while the
\* APs arrive already.
THEOREM PathRendezvous == ASSUME ~Late PROVE PathSpec => []BootRendezvous
<1>1. PathInv /\ [PathNext]_pathVars => PathInv'
  BY PathStepInv
<1>2. PathInv => BootRendezvous
  BY MeetInvRendezvous DEF PathInv
<1>. QED  BY <1>1, <1>2, PathInitInv, PTL DEF PathSpec

-----------------------------------------------------------------------------
(* get_info(): what is read from the firmware and the command line.         *)

\* A step of the whole way is one of get_info(), the start of the kernel, or one
\* of the kernel, which does not touch hw_info any more.
LEMMA PathStepIs ==
  ASSUME [PathNext]_pathVars
  PROVE  \/ InfoStep
         \/ ph = "done" /\ ph' = "kernel" /\ UNCHANGED <<fw, i, j, opts, cache, ebda, tables>>
         \/ UNCHANGED infoVars
BY DEF PathNext, Info, EnterKernel, Kernel, pathVars

LEMMA AfterIs ==
  /\ After("start") = "cpuid" /\ After("cpuid") = "cmdline"
  /\ After("cmdline") = "bda" /\ After("bda") = "rsdp"
BY DEF After

\* The address of the EBDA, which the CPUID leaves of an Intel processor with more
\* than four caches overwrite, is the one of the BIOS data area again when the
\* search for the tables begins.
THEOREM EbdaIntact == PathSpec => []EbdaOfBios
<1>1. PathInit => EbdaOfBios
  BY AfterIs DEF PathInit, InfoInit, EbdaOfBios
<1>2. EbdaOfBios /\ [PathNext]_pathVars => EbdaOfBios'
  <2> SUFFICES ASSUME EbdaOfBios, [PathNext]_pathVars PROVE EbdaOfBios'
    OBVIOUS
  <2>1. CASE IntelCache \/ AmdCaches \/ NoCacheInfo
    <3>1. ph = "cpuid" /\ ph' \in {"cpuid", "cmdline"}
      BY <2>1, AfterIs DEF IntelCache, AmdCaches, NoCacheInfo
    <3>. QED  BY <3>1 DEF EbdaOfBios
  <2>2. CASE ParseWord \/ CmdlineEnd
    <3>1. ph' \in {"cmdline", "bda"}
      BY <2>2, AfterIs DEF ParseWord, CmdlineEnd
    <3>. QED  BY <3>1 DEF EbdaOfBios
  <2>3. CASE ReadBda
    BY <2>3 DEF ReadBda, EbdaOfBios
  <2>4. CASE ReadRsdp
    BY <2>4 DEF ReadRsdp, EbdaOfBios
  <2>5. CASE StartMadt \/ MadtEntry \/ ReadMcfg \/ SkipTable \/ RsdtEnd
    <3>1. UNCHANGED <<fw, ebda>> /\ ph \in {"rsdt", "madt"}
      BY <2>5 DEF StartMadt, MadtEntry, ReadMcfg, SkipTable, RsdtEnd, tables
    <3>. QED  BY <3>1 DEF EbdaOfBios
  <2>6. CASE SkipMps \/ MpsExtdBad \/ StartMps \/ MpsEntry \/ CheckInfo
    <3>1. UNCHANGED <<fw, ebda>> /\ ph \in {"mps", "mpsloop", "check"}
      BY <2>6 DEF SkipMps, MpsExtdBad, StartMps, MpsEntry, CheckInfo
    <3>. QED  BY <3>1 DEF EbdaOfBios
  <2>7. CASE ph = "done" /\ ph' = "kernel" /\ UNCHANGED <<fw, i, j, opts, cache, ebda, tables>>
    BY <2>7 DEF EbdaOfBios
  <2>8. CASE UNCHANGED infoVars
    BY <2>8 DEF infoVars, EbdaOfBios
  <2>. QED  BY <2>1, <2>2, <2>3, <2>4, <2>5, <2>6, <2>7, <2>8, PathStepIs DEF InfoStep
<1>. QED  BY <1>1, <1>2, PTL DEF PathSpec

-----------------------------------------------------------------------------
(* The command line.                                                       *)

OptsType == [maxcpu : Nat, cpumask : Nat, noacpi : BOOLEAN, nomps : BOOLEAN]

\* The options among the first n words are in force.
TakenUpTo(n) ==
  /\ \A k \in LastOf("maxcpu=") : k <= n => opts.maxcpu = fw.text[k].val
  /\ \A k \in LastOf("cpumask=") : k <= n => opts.cpumask = fw.text[k].val

\* The cursor never stands at the end of a string.
CursorInv ==
  /\ fw \in Machines
  /\ opts \in OptsType
  /\ ph = "cmdline" => /\ i \in Nat \ {0}
                       /\ i <= Len(fw.text) => fw.text[i] # Nul
                       /\ TakenUpTo(i)
  /\ ph \notin {"cpuid", "cmdline"} => TakenUpTo(Len(fw.text))

LEMMA TextIs ==
  ASSUME fw \in Machines
  PROVE  /\ fw.text \in Seq(Words \cup {Nul}) /\ Len(fw.text) \in Nat /\ Ended(fw.text)
         /\ \A k \in 1..Len(fw.text) : fw.text[k] = Nul \/ fw.text[k] \in Words
<1>1. fw.text \in Seq(Words \cup {Nul}) /\ Ended(fw.text)
  BY MachineAssumption DEF MachineType
<1>. QED  BY <1>1

LEMMA LastOfIs ==
  ASSUME fw \in Machines, NEW opt, NEW k \in LastOf(opt)
  PROVE  /\ k \in 2..Len(fw.text) /\ fw.text[k].opt = opt
         /\ fw.text[k - 1] # Nul /\ fw.text[k - 1].opt \notin Flags
         /\ \A n \in 2..Len(fw.text) : fw.text[n].opt = opt /\ fw.text[n - 1] # Nul => n <= k
<1> DEFINE all == {n \in 2..Len(fw.text) : fw.text[n].opt = opt /\ fw.text[n - 1] # Nul}
<1>1. k \in all /\ Follows(fw.text, k) /\ \A n \in all : n <= k
  BY DEF LastOf
<1>2. k \in 2..Len(fw.text) /\ fw.text[k].opt = opt
  BY <1>1
<1>3. fw.text[k - 1] # Nul /\ fw.text[k - 1].opt \notin Flags
  BY <1>1 DEF Follows
<1>. QED  BY <1>1, <1>2, <1>3

LEMMA SettingIs ==
  ASSUME opts \in OptsType, NEW w \in Words
  PROVE  /\ Setting(w) \in OptsType
         /\ Setting(w).maxcpu = IF w.opt = "maxcpu=" THEN w.val ELSE opts.maxcpu
         /\ Setting(w).cpumask = IF w.opt = "cpumask=" THEN w.val ELSE opts.cpumask
<1>1. w.opt \in {"maxcpu=", "cpumask=", "noacpi", "nomps", "other"} /\ w.val \in Nat
  BY DEF Words
<1>2. CASE w.opt = "maxcpu="
  <2>1. Setting(w) = [opts EXCEPT !.maxcpu = w.val]
    BY <1>2 DEF Setting
  <2>. QED  BY <1>1, <1>2, <2>1 DEF OptsType
<1>3. CASE w.opt = "cpumask="
  <2>1. Setting(w) = [opts EXCEPT !.cpumask = w.val]
    BY <1>3 DEF Setting
  <2>. QED  BY <1>1, <1>3, <2>1 DEF OptsType
<1>4. CASE w.opt = "noacpi"
  <2>1. Setting(w) = [opts EXCEPT !.noacpi = TRUE]
    BY <1>4 DEF Setting
  <2>. QED  BY <1>1, <1>4, <2>1 DEF OptsType
<1>5. CASE w.opt = "nomps"
  <2>1. Setting(w) = [opts EXCEPT !.nomps = TRUE]
    BY <1>5 DEF Setting
  <2>. QED  BY <1>1, <1>5, <2>1 DEF OptsType
<1>6. CASE w.opt = "other"
  <2>1. Setting(w) = opts
    BY <1>6 DEF Setting
  <2>. QED  BY <1>1, <1>6, <2>1 DEF OptsType
<1>. QED  BY <1>1, <1>2, <1>3, <1>4, <1>5, <1>6

\* A turn of the loop: the word behind the cursor is taken if it is an option, and
\* the cursor passes over no option but one that follows a flag or a zero.
LEMMA WordTaken ==
  ASSUME CursorInv, ParseWord
  PROVE  CursorInv'
<1> DEFINE text == fw.text
           w == text[i + 1]
<1>1. /\ fw' = fw /\ fw \in Machines /\ ph = "cmdline" /\ ph' = "cmdline"
      /\ i \in Nat \ {0} /\ i <= Len(text) /\ text[i] # Nul
      /\ TakenUpTo(i) /\ opts \in OptsType
  BY DEF ParseWord, CursorInv
<1>2. /\ Len(text) \in Nat /\ Ended(text)
      /\ \A k \in 1..Len(text) : text[k] = Nul \/ text[k] \in Words
  BY <1>1, TextIs
<1>3. \A opt : LastOf(opt)' = LastOf(opt)
  BY <1>1 DEF LastOf, Follows
<1>4. CASE ~Blank(i)
  <2>1. i' = i + 2 /\ opts' = opts
    BY <1>4 DEF ParseWord
  <2>2. i + 1 > Len(text) \/ text[i + 1] = Nul
    BY <1>1, <1>4 DEF Blank
  <2>3. i + 2 <= Len(text) => text[i + 2] # Nul
    <3> SUFFICES ASSUME i + 2 <= Len(text), text[i + 2] = Nul PROVE FALSE
      OBVIOUS
    <3>1. i + 2 \in DOMAIN text
      BY <1>1, <1>2, TextIs
    <3>2. text[(i + 2) - 1] # Nul
      BY <1>2, <3>1 DEF Ended
    <3>. QED  BY <1>1, <2>2, <3>2
  <2>4. ASSUME NEW opt \in {"maxcpu=", "cpumask="}, NEW k \in LastOf(opt), k <= i + 2 PROVE k <= i
    <3>1. k \in 2..Len(text) /\ text[k].opt = opt /\ text[k - 1] # Nul
      BY <1>1, LastOfIs
    <3>2. k # i + 1
      BY <1>1, <2>2, <3>1 DEF Nul
    <3>3. k # i + 2
      BY <1>1, <2>2, <3>1
    <3>. QED  BY <1>1, <2>4, <3>1, <3>2, <3>3
  <2>5. TakenUpTo(i)'
    BY <1>1, <1>3, <2>1, <2>4 DEF TakenUpTo
  <2>. QED  BY <1>1, <2>1, <2>3, <2>5 DEF CursorInv
<1>5. CASE Blank(i)
  <2>1. i + 1 <= Len(text) /\ w # Nul /\ w \in Words
    BY <1>1, <1>2, <1>5 DEF Blank
  <2> DEFINE match == w.opt \notin Flags \/ Blank(i + 1)
  <2>2. /\ opts' = IF match THEN Setting(w) ELSE opts
        /\ i' = i + 1 + (IF match THEN Taken(w) ELSE 0)
    BY <1>5 DEF ParseWord
  <2>3. \/ i' = i + 1
        \/ i' = i + 2 /\ w.opt \in Flags /\ i + 2 <= Len(text) /\ text[i + 2] # Nul
    BY <1>1, <2>2 DEF Taken, Blank
  <2>4. /\ opts' \in OptsType
        /\ opts'.maxcpu = IF w.opt = "maxcpu=" THEN w.val ELSE opts.maxcpu
        /\ opts'.cpumask = IF w.opt = "cpumask=" THEN w.val ELSE opts.cpumask
    <3>1. w.opt \in {"maxcpu=", "cpumask="} => match
      BY DEF Flags
    <3>. QED  BY <1>1, <2>1, <2>2, <3>1, SettingIs
  <2>5. ASSUME NEW opt \in {"maxcpu=", "cpumask="}, NEW k \in LastOf(opt), k <= i'
        PROVE  (k <= i /\ w.opt # opt) \/ (k = i + 1 /\ w.opt = opt)
    <3>1. /\ k \in 2..Len(text) /\ text[k].opt = opt /\ text[k - 1].opt \notin Flags
          /\ \A n \in 2..Len(text) : text[n].opt = opt /\ text[n - 1] # Nul => n <= k
      BY <1>1, LastOfIs
    <3>2. k # i + 2
      BY <1>1, <2>3, <2>5, <3>1
    <3>3. w.opt = opt => i + 1 <= k
      <4>1. i + 1 \in 2..Len(text) /\ text[(i + 1) - 1] # Nul
        BY <1>1, <1>2, <2>1
      <4>. QED  BY <3>1, <4>1
    <3>. QED  BY <1>1, <2>3, <2>5, <3>1, <3>2, <3>3
  <2>6. TakenUpTo(i)'
    BY <1>1, <1>3, <2>4, <2>5 DEF TakenUpTo
  <2>. QED  BY <1>1, <2>1, <2>3, <2>4, <2>6 DEF CursorInv
<1>. QED  BY <1>4, <1>5

\* The options of the command line are in force: the last maxcpu= and the last
\* cpumask=, if they do not follow a flag without a blank of their own, whatever
\* other words and strings are in the memory.
THEOREM OptionsInForce == PathSpec => []OptionsTaken
<1>1. PathInit => CursorInv
  BY AfterIs, MachineAssumption DEF PathInit, InfoInit, CursorInv, OptsType
<1>2. CursorInv /\ [PathNext]_pathVars => CursorInv'
  <2> SUFFICES ASSUME CursorInv, [PathNext]_pathVars PROVE CursorInv'
    OBVIOUS
  <2>0. ASSUME UNCHANGED <<fw, opts>>, ph \notin {"cpuid", "cmdline"}, ph' \notin {"cpuid", "cmdline"}
        PROVE  CursorInv'
    BY <2>0 DEF CursorInv, TakenUpTo, LastOf, Follows
  <2>1. CASE IntelCache \/ AmdCaches \/ NoCacheInfo
    <3>1. /\ ph = "cpuid" /\ UNCHANGED <<fw, opts>>
          /\ ph' = "cpuid" \/ (ph' = "cmdline" /\ i' = 1)
      BY <2>1, AfterIs DEF IntelCache, AmdCaches, NoCacheInfo
    <3>2. 1 <= Len(fw.text) => fw.text[1] # Nul
      <4>1. fw.text \in Seq(Words \cup {Nul}) /\ Ended(fw.text)
        BY TextIs DEF CursorInv
      <4>2. 1 <= Len(fw.text) => 1 \in DOMAIN fw.text
        BY <4>1
      <4>. QED  BY <4>1, <4>2 DEF Ended
    <3>3. i' = 1 => TakenUpTo(i)'
      BY <3>1, LastOfIs, TextIs DEF CursorInv, TakenUpTo, LastOf, Follows
    <3>. QED  BY <3>1, <3>2, <3>3 DEF CursorInv
  <2>2. CASE ParseWord
    BY <2>2, WordTaken
  <2>3. CASE CmdlineEnd
    <3>1. ph = "cmdline" /\ ph' = "bda" /\ i > Len(fw.text) /\ UNCHANGED <<fw, opts>>
      BY <2>3, AfterIs DEF CmdlineEnd
    <3>2. TakenUpTo(Len(fw.text))
      BY <3>1, TextIs, LastOfIs DEF CursorInv, TakenUpTo
    <3>3. TakenUpTo(Len(fw.text))'
      BY <3>1, <3>2 DEF TakenUpTo, LastOf, Follows
    <3>. QED  BY <3>1, <3>3 DEF CursorInv
  <2>4. CASE ReadBda \/ ReadRsdp
    BY <2>0, <2>4, AfterIs DEF ReadBda, ReadRsdp
  <2>5. CASE StartMadt \/ MadtEntry \/ ReadMcfg \/ SkipTable \/ RsdtEnd
    <3>1. UNCHANGED <<fw, opts>> /\ ph \in {"rsdt", "madt"} /\ ph' \in {"rsdt", "madt", "halted", "check", "mps"}
      BY <2>5 DEF StartMadt, MadtEntry, ReadMcfg, SkipTable, RsdtEnd
    <3>. QED  BY <2>0, <3>1
  <2>6. CASE SkipMps \/ MpsExtdBad \/ StartMps \/ MpsEntry \/ CheckInfo
    <3>1. /\ UNCHANGED <<fw, opts>> /\ ph \in {"mps", "mpsloop", "check"}
          /\ ph' \in {"mpsloop", "check", "done"}
      BY <2>6 DEF SkipMps, MpsExtdBad, StartMps, MpsEntry, CheckInfo
    <3>. QED  BY <2>0, <3>1
  <2>7. CASE ph = "done" /\ ph' = "kernel" /\ UNCHANGED <<fw, i, j, opts, cache, ebda, tables>>
    BY <2>0, <2>7
  <2>8. CASE UNCHANGED infoVars
    BY <2>8 DEF infoVars, CursorInv, TakenUpTo, LastOf, Follows
  <2>. QED  BY <2>1, <2>2, <2>3, <2>4, <2>5, <2>6, <2>7, <2>8, PathStepIs DEF InfoStep
<1>3. CursorInv => OptionsTaken
  <2> SUFFICES ASSUME CursorInv, Known PROVE OptionsTaken
    BY DEF OptionsTaken
  <2>1. TakenUpTo(Len(fw.text)) /\ fw \in Machines
    BY DEF CursorInv, Known
  <2>2. \A opt : \A k \in LastOf(opt) : k <= Len(fw.text)
    BY <2>1, LastOfIs
  <2>. QED  BY <2>1, <2>2 DEF TakenUpTo, OptionsTaken
<1>. QED  BY <1>1, <1>2, <1>3, PTL DEF PathSpec

-----------------------------------------------------------------------------
(* The tables.  What the entries of a list amount to is defined by recursion; *)
(* induction over the numbers is taken from the fact that each set of them    *)
(* has a least element.                                                    *)

LEMMA LeastNumber == ASSUME NEW T \in SUBSET Nat, T # {} PROVE \E x \in T : \A y \in T : x <= y
<1> DEFINE R == OpToRel(<, Nat)
<1>1. \E x \in T : \A y \in T : ~(<<y, x>> \in R)
  BY NatLessThanWellFounded, WFMin, Zenon
<1>2. \A x, y \in Nat : y < x => <<y, x>> \in R
  BY Zenon DEF OpToRel
<1> HIDE DEF R
<1>3. \E x \in T : \A y \in T : ~(y < x)
  BY <1>1, <1>2, Zenon
<1>. QED  BY <1>3

LEMMA SetInduction ==
  ASSUME NEW T \in SUBSET Nat, 0 \in T, \A n \in T : n + 1 \in T
  PROVE  T = Nat
<1> SUFFICES ASSUME T # Nat PROVE FALSE
  OBVIOUS
<1> DEFINE U == Nat \ T
<1>1. PICK x \in U : \A y \in U : x <= y
  <2>1. U \in SUBSET Nat /\ U # {}
    OBVIOUS
  <2> HIDE DEF U
  <2>. QED  BY <2>1, LeastNumber
<1>2. x # 0 /\ x - 1 \in Nat /\ x - 1 \notin U
  BY <1>1
<1>. QED  BY <1>2

\* The equation of IdsUpTo has a solution, so IdsUpTo is one.
LEMMA IdsUpToIs ==
  ASSUME NEW es, NEW kind, NEW flags, Len(es) \in Nat
  PROVE  /\ IdsUpTo(es, kind, flags)[0] = <<>>
         /\ \A n \in 1..Len(es) :
              IdsUpTo(es, kind, flags)[n] =
                IF es[n].kind = kind /\ es[n].en \in flags
                THEN Append(IdsUpTo(es, kind, flags)[n - 1], es[n].id)
                ELSE IdsUpTo(es, kind, flags)[n - 1]
<1> DEFINE Ext(f, n) == IF n = 0 THEN <<>>
                        ELSE IF es[n].kind = kind /\ es[n].en \in flags THEN Append(f[n - 1], es[n].id)
                        ELSE f[n - 1]
           Solves(f, n) == f = [m \in 0..n |-> Ext(f, m)]
           T == {n \in Nat : \E f : Solves(f, n)}
<1>1. 0 \in T
  <2>1. Solves([m \in 0..0 |-> <<>>], 0)
    OBVIOUS
  <2>. QED  BY <2>1
<1>2. ASSUME NEW n \in T PROVE n + 1 \in T
  <2>1. PICK f : Solves(f, n)
    OBVIOUS
  <2> DEFINE g == [m \in 0..(n + 1) |-> IF m = n + 1 THEN Ext(f, n + 1) ELSE f[m]]
  <2>2. n \in Nat
    OBVIOUS
  <2>3. ASSUME NEW m \in 0..(n + 1) PROVE g[m] = Ext(g, m)
    <3>1. CASE m = n + 1
      <4>0. (n + 1) - 1 = n /\ n \in 0..(n + 1) /\ n # n + 1
        BY <2>2
      <4>1. g[m] = Ext(f, n + 1) /\ g[n] = f[n]
        BY <3>1, <4>0
      <4>2. Ext(g, n + 1) = Ext(f, n + 1)
        BY <4>0, <4>1
      <4>. QED  BY <3>1, <4>1, <4>2
    <3>2. CASE m \in 0..n
      <4>1. g[m] = f[m] /\ f[m] = Ext(f, m)
        BY <2>1, <2>2, <3>2
      <4>2. m # 0 => m - 1 \in 0..n /\ g[m - 1] = f[m - 1]
        BY <2>2, <3>2
      <4>. QED  BY <4>1, <4>2
    <3>. QED  BY <2>2, <3>1, <3>2
  <2>4. Solves(g, n + 1)
    <3> HIDE DEF Ext
    <3>. QED  BY <2>3
  <2> HIDE DEF g, Solves
  <2>. QED  BY <2>2, <2>4
<1>3. T = Nat
  <2> HIDE DEF T
  <2>0. T \in SUBSET Nat
    BY DEF T
  <2>. QED  BY <1>1, <1>2, <2>0, SetInduction
<1>4. PICK f : Solves(f, Len(es))
  BY <1>3
<1>5. Solves(IdsUpTo(es, kind, flags), Len(es))
  BY <1>4 DEF IdsUpTo
<1> HIDE DEF Solves
<1>6. \A n \in 0..Len(es) : IdsUpTo(es, kind, flags)[n] = Ext(IdsUpTo(es, kind, flags), n)
  BY <1>5 DEF Solves
<1>. QED  BY <1>6

LEMMA IdsZero ==
  ASSUME NEW es, NEW kind, NEW flags, Len(es) \in Nat
  PROVE  IdsUpTo(es, kind, flags)[0] = <<>>
BY IdsUpToIs

LEMMA IdsNext ==
  ASSUME NEW es, NEW kind, NEW flags, Len(es) \in Nat, NEW n \in 1..Len(es)
  PROVE  IdsUpTo(es, kind, flags)[n] =
           IF es[n].kind = kind /\ es[n].en \in flags
           THEN Append(IdsUpTo(es, kind, flags)[n - 1], es[n].id)
           ELSE IdsUpTo(es, kind, flags)[n - 1]
BY IdsUpToIs

\* The list is a sequence of numbers, and empty only if no entry is listed.
LEMMA IdsUpToType ==
  ASSUME NEW es \in Entries, NEW kind, NEW flags, NEW n \in 0..Len(es)
  PROVE  /\ IdsUpTo(es, kind, flags)[n] \in Seq(Nat)
         /\ IdsUpTo(es, kind, flags)[n] = <<>> => \A k \in 1..n : ~(es[k].kind = kind /\ es[k].en \in flags)
<1> DEFINE f == IdsUpTo(es, kind, flags)
           Listed(k) == es[k].kind = kind /\ es[k].en \in flags
           Good(m) == f[m] \in Seq(Nat) /\ (f[m] = <<>> => \A k \in 1..m : ~Listed(k))
           T == {m \in Nat : m <= Len(es) => Good(m)}
<1>1. Len(es) \in Nat /\ \A k \in 1..Len(es) : es[k].id \in Nat
  <2> DEFINE E == [kind : {"cpu", "ioapic", "other"}, id : Nat, en : BOOLEAN]
  <2>1. es \in Seq(E) /\ \A e \in E : e.id \in Nat
    BY DEF Entries
  <2> HIDE DEF E
  <2>. QED  BY <2>1
<1>2. f[0] = <<>> /\ \A m \in 1..Len(es) : f[m] = IF Listed(m) THEN Append(f[m - 1], es[m].id) ELSE f[m - 1]
  BY <1>1, IdsUpToIs
<1> HIDE DEF f, Listed
<1>3. 0 \in T
  <2>1. <<>> \in Seq(Nat) /\ 1..0 = {}
    OBVIOUS
  <2>2. Good(0)
    BY <1>2, <2>1, Zenon
  <2>. QED  BY <2>2
<1>4. ASSUME NEW m \in T PROVE m + 1 \in T
  <2> SUFFICES ASSUME m + 1 <= Len(es) PROVE Good(m + 1)
    OBVIOUS
  <2>1. m \in Nat /\ m + 1 \in 1..Len(es) /\ (m + 1) - 1 = m /\ Good(m)
    BY <1>1
  <2>2. f[m + 1] = IF Listed(m + 1) THEN Append(f[m], es[m + 1].id) ELSE f[m]
    BY <1>2, <2>1
  <2>3. f[m] \in Seq(Nat) /\ es[m + 1].id \in Nat
    BY <1>1, <2>1
  <2>4. CASE Listed(m + 1)
    <3>1. f[m + 1] \in Seq(Nat) /\ Len(f[m + 1]) = Len(f[m]) + 1
      BY <2>2, <2>3, <2>4
    <3>2. f[m + 1] # <<>>
      BY <2>3, <3>1
    <3>. QED  BY <3>1, <3>2
  <2>5. CASE ~Listed(m + 1)
    <3>1. f[m + 1] = f[m]
      BY <2>2, <2>5
    <3>2. \A k \in 1..(m + 1) : k \in 1..m \/ k = m + 1
      BY <2>1
    <3>. QED  BY <2>1, <2>5, <3>1, <3>2
  <2>. QED  BY <2>4, <2>5
<1>5. T = Nat
  <2>0. T \in SUBSET Nat
    OBVIOUS
  <2> HIDE DEF T
  <2>. QED  BY <1>3, <1>4, <2>0, SetInduction
<1>6. Good(n)
  BY <1>1, <1>5
<1>. QED  BY <1>6 DEF f, Listed

\* hw_info has what the first n entries of a list say, and no more.
Read(es, n, flags) == cpu = IdsUpTo(es, "cpu", {TRUE})[n] /\ ioapic = IdsUpTo(es, "ioapic", flags)[n]
Fresh == cpu = <<>> /\ ioapic = <<>> /\ lapic_adr = 0
FromMadt == \E t \in Madts : Read(t.entries, Len(t.entries), BOOLEAN)
FromMps(n) == MpsUsable /\ fw.mps.extdOK /\ lapic_adr = fw.mps.lapic_adr /\ Read(fw.mps.entries, n, {TRUE})

TablesInv ==
  /\ fw \in Machines
  /\ ph \in {"cpuid", "cmdline", "bda", "rsdp"} => Fresh /\ j = 1
  /\ ph = "rsdt" => i \in Nat \ {0} /\ (Fresh \/ FromMadt)
  /\ ph = "madt" => /\ i \in 1..Len(fw.rsdt) /\ fw.rsdt[i] \in Madts
                    /\ j \in 1..(Len(fw.rsdt[i].entries) + 1)
                    /\ Read(fw.rsdt[i].entries, j - 1, BOOLEAN)
  /\ ph = "mps" => Fresh \/ FromMadt
  /\ ph = "mpsloop" => j \in 1..(Len(fw.mps.entries) + 1) /\ FromMps(j - 1)
  /\ ph = "check" => \/ FromMadt
                     \/ FromMps(Len(fw.mps.entries))
                     \/ cpu = <<>> /\ ioapic = <<>> /\ ~(MpsUsable /\ fw.mps.extdOK)
  /\ OneTable

LEMMA ListsOfMachine ==
  ASSUME fw \in Machines
  PROVE  /\ fw.mps.entries \in Entries /\ Len(fw.mps.entries) \in Nat
         /\ Len(fw.rsdt) \in Nat
         /\ \A t \in Madts : t.entries \in Entries /\ Len(t.entries) \in Nat
<1>1. /\ fw.mps \in MpsTable /\ fw.rsdt \in Seq(MadtTable \cup McfgTable \cup OtherTable)
  BY MachineAssumption DEF MachineType
<1>2. fw.mps.entries \in Entries
  BY <1>1 DEF MpsTable
<1>3. ASSUME NEW t \in Madts PROVE t.entries \in Entries
  <2>1. t \in MadtTable \cup McfgTable \cup OtherTable /\ t.sig = "APIC"
    BY <1>1 DEF Madts
  <2>2. t \in MadtTable
    BY <2>1 DEF McfgTable, OtherTable
  <2>. QED  BY <2>2 DEF MadtTable
<1>4. \A es \in Entries : Len(es) \in Nat
  BY DEF Entries
<1>. QED  BY <1>1, <1>2, <1>3, <1>4

LEMMA FlagType == \A es \in Entries : \A n \in 1..Len(es) : es[n].en \in BOOLEAN
<1> DEFINE E == [kind : {"cpu", "ioapic", "other"}, id : Nat, en : BOOLEAN]
<1>1. Entries = Seq(E) /\ \A e \in E : e.en \in BOOLEAN
  BY DEF Entries
<1> HIDE DEF E
<1>. QED  BY <1>1

\* One entry more.
LEMMA EntryRead ==
  ASSUME NEW es, Len(es) \in Nat, NEW flags, j \in 1..Len(es), Read(es, j - 1, flags),
         cpu' = IF es[j].kind = "cpu" /\ es[j].en \in {TRUE} THEN Append(cpu, es[j].id) ELSE cpu,
         ioapic' = IF es[j].kind = "ioapic" /\ es[j].en \in flags THEN Append(ioapic, es[j].id) ELSE ioapic
  PROVE  cpu' = IdsUpTo(es, "cpu", {TRUE})[j] /\ ioapic' = IdsUpTo(es, "ioapic", flags)[j]
<1>0. ASSUME NEW kind, NEW fl
      PROVE  IdsUpTo(es, kind, fl)[j] =
               IF es[j].kind = kind /\ es[j].en \in fl
               THEN Append(IdsUpTo(es, kind, fl)[j - 1], es[j].id) ELSE IdsUpTo(es, kind, fl)[j - 1]
  BY IdsNext
<1>1. IdsUpTo(es, "cpu", {TRUE})[j] =
        IF es[j].kind = "cpu" /\ es[j].en \in {TRUE}
        THEN Append(IdsUpTo(es, "cpu", {TRUE})[j - 1], es[j].id) ELSE IdsUpTo(es, "cpu", {TRUE})[j - 1]
  BY <1>0, Zenon
<1>2. IdsUpTo(es, "ioapic", flags)[j] =
        IF es[j].kind = "ioapic" /\ es[j].en \in flags
        THEN Append(IdsUpTo(es, "ioapic", flags)[j - 1], es[j].id) ELSE IdsUpTo(es, "ioapic", flags)[j - 1]
  BY <1>0, Zenon
<1>. QED  BY <1>1, <1>2 DEF Read

\* The guess of a single CPU is made only if there is no other way.
LEMMA GuessNeeded ==
  ASSUME fw \in Machines, FromMps(Len(fw.mps.entries)), lapic_adr = 0 \/ cpu = <<>> \/ ioapic = <<>>
  PROVE  ~MpsComplete
<1> DEFINE es == fw.mps.entries
<1>1. es \in Entries /\ Len(es) \in Nat /\ DOMAIN es = 1..Len(es)
  BY ListsOfMachine DEF Entries
<1>2. CASE lapic_adr = 0
  BY <1>2 DEF FromMps, MpsComplete
<1>3. CASE cpu = <<>>
  <2>1. IdsUpTo(es, "cpu", {TRUE})[Len(es)] = <<>>
    BY <1>3 DEF FromMps, Read
  <2>2. \A n \in 1..Len(es) : ~(es[n].kind = "cpu" /\ es[n].en \in {TRUE})
    <3>1. Len(es) \in 0..Len(es)
      BY <1>1
    <3>2. ASSUME NEW kind, NEW fl, IdsUpTo(es, kind, fl)[Len(es)] = <<>>
          PROVE  \A n \in 1..Len(es) : ~(es[n].kind = kind /\ es[n].en \in fl)
      BY <1>1, <3>1, <3>2, IdsUpToType
    <3>. QED  BY <2>1, <3>2, Zenon
  <2>. QED  BY <1>1, <2>2 DEF MpsComplete
<1>4. CASE ioapic = <<>>
  <2>1. IdsUpTo(es, "ioapic", {TRUE})[Len(es)] = <<>>
    BY <1>4 DEF FromMps, Read
  <2>2. \A n \in 1..Len(es) : ~(es[n].kind = "ioapic" /\ es[n].en \in {TRUE})
    <3>1. Len(es) \in 0..Len(es)
      BY <1>1
    <3>2. ASSUME NEW kind, NEW fl, IdsUpTo(es, kind, fl)[Len(es)] = <<>>
          PROVE  \A n \in 1..Len(es) : ~(es[n].kind = kind /\ es[n].en \in fl)
      BY <1>1, <3>1, <3>2, IdsUpToType
    <3>. QED  BY <2>1, <3>2, Zenon
  <2>. QED  BY <1>1, <2>2 DEF MpsComplete
<1>. QED  BY <1>2, <1>3, <1>4

LEMMA SameLists ==
  ASSUME UNCHANGED <<fw, cpu, ioapic>>
  PROVE  FromMadt' <=> FromMadt
BY DEF FromMadt, Read, Madts

LEMMA SameUsable == UNCHANGED <<fw, opts, ebda>> => (MpsUsable' <=> MpsUsable) /\ (MpsComplete' <=> MpsComplete)
BY DEF MpsUsable, MpsComplete, FpFound

LEMMA NotKnown == ph \notin {"done", "kernel"} => OneTable
BY DEF OneTable, Known

LEMMA TablesStep == TablesInv /\ [PathNext]_pathVars => TablesInv'
<1> SUFFICES ASSUME TablesInv, [PathNext]_pathVars PROVE TablesInv'
  OBVIOUS
<1>l. /\ fw \in Machines /\ fw.mps.entries \in Entries /\ Len(fw.mps.entries) \in Nat
      /\ Len(fw.rsdt) \in Nat
      /\ \A t \in Madts : t.entries \in Entries /\ Len(t.entries) \in Nat
  BY ListsOfMachine DEF TablesInv
<1>n. ph' \notin {"done", "kernel"} => OneTable'
  BY DEF OneTable, Known
<1>z. \A es : Len(es) \in Nat =>
        \A kind, flags : IdsUpTo(es, kind, flags)[0] = <<>>
  BY IdsZero
<1>0. ASSUME UNCHANGED <<fw, lapic_adr, cpu, ioapic, j>>, ph \in {"cpuid", "cmdline", "bda", "rsdp"},
             ph' \in {"cpuid", "cmdline", "bda", "rsdp", "mps"} \/ (ph' = "rsdt" /\ i' = 1)
      PROVE  TablesInv'
  <2>1. Fresh /\ Fresh'
    BY <1>0 DEF TablesInv, Fresh
  <2>2. ph' # "rsdt" => ph' \in {"cpuid", "cmdline", "bda", "rsdp", "mps"}
    BY <1>0
  <2>3. ph' = "rsdt" => i' = 1
    BY <1>0
  <2>4. fw' \in Machines /\ j' = 1 /\ OneTable'
    BY <1>0, <1>n, <1>l DEF TablesInv
  <2>. QED  BY <2>1, <2>2, <2>3, <2>4 DEF TablesInv
<1>1. CASE IntelCache \/ AmdCaches \/ NoCacheInfo
  <2>1. UNCHANGED <<fw, j, tables>> /\ ph = "cpuid" /\ ph' \in {"cpuid", "cmdline"}
    BY <1>1, AfterIs DEF IntelCache, AmdCaches, NoCacheInfo
  <2>. QED  BY <1>0, <2>1 DEF tables
<1>2. CASE ParseWord \/ CmdlineEnd
  <2>1. UNCHANGED <<fw, j, tables>> /\ ph = "cmdline" /\ ph' \in {"cmdline", "bda"}
    BY <1>2, AfterIs DEF ParseWord, CmdlineEnd
  <2>. QED  BY <1>0, <2>1 DEF tables
<1>3. CASE ReadBda \/ ReadRsdp
  <2>1. /\ UNCHANGED <<fw, j, tables>> /\ ph \in {"bda", "rsdp"}
        /\ ph' \in {"rsdp", "mps"} \/ (ph' = "rsdt" /\ i' = 1)
    BY <1>3, AfterIs DEF ReadBda, ReadRsdp
  <2>. QED  BY <1>0, <2>1 DEF tables
<1>4. CASE StartMadt
  <2>1. ph = "rsdt" /\ i \in 1..Len(fw.rsdt) /\ fw.rsdt[i].sig = "APIC" /\ fw' = fw
    BY <1>4, <1>l DEF StartMadt, TablesInv
  <2>2. CASE fw.rsdt[i].sumOK
    <3>1. /\ ph' = "madt" /\ j' = 1 /\ i' = i /\ cpu' = <<>> /\ ioapic' = <<>>
      BY <1>4, <2>2 DEF StartMadt
    <3>2. fw.rsdt[i] \in Madts /\ Madts' = Madts
      BY <2>1, <2>2 DEF Madts
    <3>3. Read(fw.rsdt[i].entries, j - 1, BOOLEAN)'
      <4>1. /\ IdsUpTo(fw.rsdt[i].entries, "cpu", {TRUE})[0] = <<>>
            /\ IdsUpTo(fw.rsdt[i].entries, "ioapic", BOOLEAN)[0] = <<>>
        BY <1>l, <1>z, <3>2
      <4>2. j' - 1 = 0
        BY <3>1
      <4>. QED  BY <2>1, <3>1, <4>1, <4>2 DEF Read
    <3>4. 1 \in 1..(Len(fw.rsdt[i].entries) + 1)
      BY <1>l, <3>2
    <3>. QED  BY <1>n, <1>l, <2>1, <3>1, <3>2, <3>3, <3>4 DEF TablesInv
  <2>3. CASE ~fw.rsdt[i].sumOK
    <3>1. i' = i + 1 /\ UNCHANGED <<ph, j, lapic_adr, cpu, ioapic>>
      BY <1>4, <2>3 DEF StartMadt
    <3>. QED  BY <1>n, <2>1, <3>1, SameLists DEF TablesInv, Fresh
  <2>. QED  BY <2>2, <2>3
<1>5. CASE MadtEntry
  <2> DEFINE t == fw.rsdt[i]
  <2>1. /\ ph = "madt" /\ fw' = fw /\ i \in 1..Len(fw.rsdt) /\ t \in Madts
        /\ j \in 1..(Len(t.entries) + 1) /\ Read(t.entries, j - 1, BOOLEAN) /\ Len(t.entries) \in Nat
    BY <1>5, <1>l DEF MadtEntry, TablesInv
  <2>2. CASE j <= Len(t.entries)
    <3>1. /\ j' = j + 1 /\ UNCHANGED <<ph, i>>
          /\ cpu' = IF t.entries[j].kind = "cpu" /\ t.entries[j].en THEN Append(cpu, t.entries[j].id) ELSE cpu
          /\ ioapic' = IF t.entries[j].kind = "ioapic" THEN Append(ioapic, t.entries[j].id) ELSE ioapic
      BY <1>5, <2>2 DEF MadtEntry
    <3>2. cpu' = IdsUpTo(t.entries, "cpu", {TRUE})[j] /\ ioapic' = IdsUpTo(t.entries, "ioapic", BOOLEAN)[j]
      <4>1. j \in 1..Len(t.entries)
        BY <2>1, <2>2
      <4>f. t.entries[j].en \in BOOLEAN
        BY <1>l, <2>1, <4>1, FlagType
      <4>3. cpu' = IF t.entries[j].kind = "cpu" /\ t.entries[j].en \in {TRUE}
                   THEN Append(cpu, t.entries[j].id) ELSE cpu
        BY <3>1, <4>f
      <4>2. ioapic' = IF t.entries[j].kind = "ioapic" /\ t.entries[j].en \in BOOLEAN
                      THEN Append(ioapic, t.entries[j].id) ELSE ioapic
        BY <3>1, <4>f
      <4> HIDE DEF t
      <4>. QED  BY <2>1, <4>1, <4>2, <4>3, EntryRead, Zenon
    <3>3. j' - 1 = j /\ j' \in 1..(Len(t.entries) + 1)
      <4>1. Len(t.entries) \in Nat /\ j \in 1..Len(t.entries) /\ j' = j + 1
        BY <2>1, <2>2, <3>1
      <4> HIDE DEF t
      <4>. QED  BY <4>1
    <3>4. Read(fw.rsdt[i].entries, j - 1, BOOLEAN)'
      BY <2>1, <3>1, <3>2, <3>3 DEF Read
    <3>5. Madts' = Madts
      BY <2>1 DEF Madts
    <3>. QED  BY <1>n, <1>l, <2>1, <3>1, <3>3, <3>4, <3>5 DEF TablesInv
  <2>3. CASE ~(j <= Len(t.entries))
    <3>1. ph' = "rsdt" /\ i' = i + 1 /\ UNCHANGED <<j, cpu, ioapic>>
      BY <1>5, <2>3 DEF MadtEntry
    <3>2. j - 1 = Len(t.entries)
      BY <2>1, <2>3
    <3>3. FromMadt
      BY <2>1, <3>2 DEF FromMadt
    <3>. QED  BY <1>n, <1>l, <2>1, <3>1, <3>3, SameLists DEF TablesInv
  <2>. QED  BY <2>2, <2>3
<1>6. CASE ReadMcfg \/ SkipTable
  <2>1. /\ ph = "rsdt" /\ UNCHANGED <<fw, lapic_adr, cpu, ioapic>>
        /\ ph' = "halted" \/ (ph' = "rsdt" /\ i' = i + 1)
    BY <1>6 DEF ReadMcfg, SkipTable, tables
  <2>2. i \in Nat \ {0} /\ (Fresh' \/ FromMadt')
    BY <2>1, SameLists DEF TablesInv, Fresh
  <2>3. ph' = "rsdt" => i' \in Nat \ {0}
    BY <2>1, <2>2
  <2>4. OneTable' /\ fw' \in Machines
    BY <1>n, <1>l, <2>1
  <2>. QED  BY <2>1, <2>2, <2>3, <2>4 DEF TablesInv
<1>7. CASE RsdtEnd
  <2>1. /\ ph = "rsdt" /\ UNCHANGED <<fw, lapic_adr, cpu, ioapic>>
        /\ ph' = IF lapic_adr # 0 THEN "check" ELSE "mps"
    BY <1>7 DEF RsdtEnd, tables
  <2>. QED  BY <1>n, <1>l, <2>1, SameLists DEF TablesInv, Fresh
<1>8. CASE SkipMps \/ MpsExtdBad
  <2>1. /\ ph = "mps" /\ ph' = "check" /\ UNCHANGED <<fw, opts, ebda, cpu, ioapic>>
        /\ ~(MpsUsable /\ fw.mps.extdOK)
    BY <1>8 DEF SkipMps, MpsExtdBad, tables
  <2>2. ~(MpsUsable /\ fw.mps.extdOK)'
    BY <2>1, SameUsable
  <2>3. FromMadt \/ (cpu = <<>> /\ ioapic = <<>>)
    BY <2>1 DEF TablesInv, Fresh
  <2>. QED  BY <1>n, <1>l, <2>1, <2>2, <2>3, SameLists DEF TablesInv
<1>9. CASE StartMps
  <2>1. /\ ph = "mps" /\ ph' = "mpsloop" /\ j' = 1 /\ MpsUsable /\ fw.mps.extdOK
        /\ lapic_adr' = fw.mps.lapic_adr /\ cpu' = <<>> /\ ioapic' = <<>> /\ UNCHANGED <<fw, opts, ebda>>
    BY <1>9 DEF StartMps
  <2>2. FromMps(j - 1)'
    <3>1. /\ IdsUpTo(fw.mps.entries, "cpu", {TRUE})[0] = <<>>
          /\ IdsUpTo(fw.mps.entries, "ioapic", {TRUE})[0] = <<>>
      BY <1>l, <1>z
    <3>2. j' - 1 = 0
      BY <2>1
    <3>. QED  BY <2>1, <3>1, <3>2, SameUsable DEF FromMps, Read
  <2>3. 1 \in 1..(Len(fw.mps.entries) + 1)
    BY <1>l
  <2>. QED  BY <1>n, <1>l, <2>1, <2>2, <2>3 DEF TablesInv
<1>10. CASE MpsEntry
  <2> DEFINE es == fw.mps.entries
  <2>1. /\ ph = "mpsloop" /\ UNCHANGED <<fw, opts, ebda, lapic_adr>> /\ j \in 1..(Len(es) + 1) /\ FromMps(j - 1)
    BY <1>10 DEF MpsEntry, TablesInv
  <2>2. CASE j <= Len(es)
    <3>1. /\ j' = j + 1 /\ ph' = ph
          /\ cpu' = IF es[j].kind = "cpu" /\ es[j].en THEN Append(cpu, es[j].id) ELSE cpu
          /\ ioapic' = IF es[j].kind = "ioapic" /\ es[j].en THEN Append(ioapic, es[j].id) ELSE ioapic
      BY <1>10, <2>2 DEF MpsEntry
    <3>2. cpu' = IdsUpTo(es, "cpu", {TRUE})[j] /\ ioapic' = IdsUpTo(es, "ioapic", {TRUE})[j]
      <4>1. j \in 1..Len(es) /\ Len(es) \in Nat
        BY <1>l, <2>1, <2>2
      <4>3. Read(es, j - 1, {TRUE})
        BY <2>1 DEF FromMps
      <4>f. es[j].en \in BOOLEAN
        BY <1>l, <4>1, FlagType
      <4>2. ioapic' = IF es[j].kind = "ioapic" /\ es[j].en \in {TRUE} THEN Append(ioapic, es[j].id) ELSE ioapic
        BY <3>1, <4>f
      <4>4. cpu' = IF es[j].kind = "cpu" /\ es[j].en \in {TRUE} THEN Append(cpu, es[j].id) ELSE cpu
        BY <3>1, <4>f
      <4> HIDE DEF es
      <4>. QED  BY <4>1, <4>2, <4>3, <4>4, EntryRead, Zenon
    <3>3. j' - 1 = j /\ j' \in 1..(Len(es) + 1)
      BY <1>l, <2>1, <2>2, <3>1
    <3>4. FromMps(j - 1)'
      BY <2>1, <3>2, <3>3, SameUsable DEF FromMps, Read
    <3>. QED  BY <1>n, <1>l, <2>1, <3>1, <3>3, <3>4 DEF TablesInv
  <2>3. CASE ~(j <= Len(es))
    <3>1. ph' = "check" /\ UNCHANGED <<j, cpu, ioapic>>
      BY <1>10, <2>3 DEF MpsEntry
    <3>2. j - 1 = Len(es)
      BY <1>l, <2>1, <2>3
    <3>3. FromMps(Len(fw.mps.entries))'
      BY <2>1, <3>1, <3>2, SameUsable DEF FromMps, Read
    <3>. QED  BY <1>n, <1>l, <2>1, <3>1, <3>3 DEF TablesInv
  <2>. QED  BY <2>2, <2>3
<1>11. CASE CheckInfo
  <2>1. ph = "check" /\ ph' = "done" /\ UNCHANGED <<fw, opts, ebda>>
    BY <1>11 DEF CheckInfo
  <2>2. OneTable'
    <3>1. Madts' = Madts /\ (MpsComplete' <=> MpsComplete)
      BY <2>1, SameUsable DEF Madts
    <3>2. CASE lapic_adr = 0 \/ cpu = <<>> \/ ioapic = <<>>
      <4>1. cpu' = <<0>> /\ ioapic' = <<>>
        BY <1>11, <3>2 DEF CheckInfo
      <4>2. Madts # {} \/ ~MpsComplete
        <5>1. CASE FromMadt
          BY <5>1 DEF FromMadt
        <5>2. CASE FromMps(Len(fw.mps.entries))
          BY <1>l, <3>2, <5>2, GuessNeeded
        <5>3. CASE ~(MpsUsable /\ fw.mps.extdOK)
          BY <5>3 DEF MpsComplete
        <5>. QED  BY <2>1, <5>1, <5>2, <5>3 DEF TablesInv
      <4>. QED  BY <3>1, <4>1, <4>2 DEF OneTable
    <3>3. CASE ~(lapic_adr = 0 \/ cpu = <<>> \/ ioapic = <<>>)
      <4>1. UNCHANGED <<cpu, ioapic>>
        BY <1>11, <3>3 DEF CheckInfo
      <4>2. CASE FromMadt
        BY <2>1, <3>1, <4>1, <4>2 DEF FromMadt, Read, OneTable, Ids
      <4>3. CASE FromMps(Len(fw.mps.entries))
        BY <2>1, <4>1, <4>3 DEF FromMps, MpsUsable, Read, OneTable, Ids
      <4>. QED  BY <2>1, <3>3, <4>2, <4>3 DEF TablesInv
    <3>. QED  BY <3>2, <3>3
  <2>. QED  BY <1>l, <2>1, <2>2 DEF TablesInv
<1>12. CASE ph = "done" /\ ph' = "kernel" /\ UNCHANGED <<fw, i, j, opts, cache, ebda, tables>>
  <2>1. Madts' = Madts /\ (MpsComplete' <=> MpsComplete)
    BY <1>12, SameUsable DEF Madts
  <2>2. OneTable'
    BY <1>12, <2>1 DEF OneTable, Known, TablesInv, tables
  <2>. QED  BY <1>12, <1>l, <2>2 DEF TablesInv
<1>13. CASE UNCHANGED infoVars
  <2>1. UNCHANGED <<fw, ph, i, j, opts, ebda, lapic_adr, cpu, ioapic>>
    BY <1>13 DEF infoVars, tables
  <2>2. /\ Madts' = Madts /\ (MpsUsable' <=> MpsUsable) /\ (MpsComplete' <=> MpsComplete)
        /\ (FromMadt' <=> FromMadt) /\ (Fresh' <=> Fresh)
    BY <2>1, SameUsable, SameLists DEF Madts, Fresh
  <2>3. OneTable' <=> OneTable
    BY <2>1, <2>2 DEF OneTable, Known
  <2>. QED  BY <2>1, <2>2, <2>3 DEF TablesInv, FromMps, Read
<1>. QED
  BY <1>1, <1>2, <1>3, <1>4, <1>5, <1>6, <1>7, <1>8, <1>9, <1>10, <1>11, <1>12, <1>13, PathStepIs DEF InfoStep

\* The CPUs and the I/O APICs the kernel works with come from one intact table,
\* complete and in its order, and the guess of a single CPU is made only if there
\* is no such table, for all contents of the tables.
THEOREM TablesAgree == PathSpec => []OneTable
<1>1. PathInit => TablesInv
  BY AfterIs DEF PathInit, InfoInit, TablesInv, Fresh, OneTable, Known
<1>2. TablesInv => OneTable
  BY DEF TablesInv
<1>. QED  BY <1>1, <1>2, TablesStep, PTL DEF PathSpec
=============================================================================
