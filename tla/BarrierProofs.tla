--------------------------- MODULE BarrierProofs ---------------------------
(***************************************************************************)
(* The barrier of sync.c is a rendezvous for every number of CPUs and every *)
(* width of the epoch: its invariants, and its refinement of BarrierSpec.   *)
(***************************************************************************)
EXTENDS Barrier, FiniteSetTheorems, TLAPS

\* The inductive invariant is the conjunction of the invariants TLC checks.
IInv ==
  /\ TypeOK
  /\ SameEpoch
  /\ UniqueNumber
  /\ MasterIsLast
  /\ CounterExact
  /\ NumberBound

-----------------------------------------------------------------------------
(* Counting.                                                               *)

\* b->max is a positive number.
LEMMA MaxType == Max \in Nat \ {0}
BY CPUsAssumption, FS_CardinalityType, FS_EmptySet DEF Max

\* A set of CPUs has at most max members, and max only if it is all of them.
LEMMA CountBound ==
  ASSUME NEW S \in SUBSET CPUs
  PROVE  /\ Cardinality(S) \in 0..Max
         /\ Cardinality(S) = Max => S = CPUs
<1>1. IsFiniteSet(S) /\ Cardinality(S) <= Max /\ (Max = Cardinality(S) => CPUs = S)
  BY CPUsAssumption, FS_Subset DEF Max
<1>2. Cardinality(S) \in Nat
  BY <1>1, FS_CardinalityType
<1>. QED  BY <1>1, <1>2, MaxType

\* One more CPU makes the count one larger.
LEMMA CountOneMore ==
  ASSUME NEW S \in SUBSET CPUs, NEW p \in CPUs, p \notin S
  PROVE  Cardinality(S \cup {p}) = Cardinality(S) + 1
<1>1. IsFiniteSet(S)
  BY CPUsAssumption, FS_Subset
<1>. QED  BY <1>1, FS_AddElement

\* The next epoch is an epoch, and another one.
LEMMA NextEpoch ==
  ASSUME NEW x \in 0..(EpochMod - 1)
  PROVE  /\ (x + 1) % EpochMod \in 0..(EpochMod - 1)
         /\ (x + 1) % EpochMod # x
<1>1. CASE x + 1 < EpochMod
  <2>1. (x + 1) % EpochMod = x + 1
    BY <1>1, EpochModAssumption
  <2>. QED  BY <2>1, <1>1, EpochModAssumption
<1>2. CASE x + 1 = EpochMod
  <2>1. (x + 1) % EpochMod = 0
    BY <1>2, EpochModAssumption
  <2>. QED  BY <2>1, <1>2, EpochModAssumption
<1>. QED  BY <1>1, <1>2, EpochModAssumption

-----------------------------------------------------------------------------
(* The inductive invariant.                                                *)

LEMMA InitInv == Init => IInv
<1>. SUFFICES ASSUME Init PROVE IInv
  OBVIOUS
<1>1. \A p \in CPUs : ~ Counted(p) /\ pc[p] = "idle"
  BY DEF Init, Counted
<1>2. {p \in CPUs : Counted(p)} = {}
  BY <1>1
<1>3. CounterExact
  BY <1>1, <1>2, FS_EmptySet DEF CounterExact, Init
<1>4. TypeOK
  BY MaxType, EpochModAssumption DEF Init, TypeOK, Labels
<1>. QED  BY <1>1, <1>3, <1>4 DEF IInv, SameEpoch, UniqueNumber, MasterIsLast, NumberBound, Released, Counted

\* A step that leaves the counter alone and changes no CPU's membership of the
\* running episode keeps the count, if no master appears or goes.
LEMMA SameCount ==
  ASSUME CounterExact, cnt' = cnt,
         \A q \in CPUs : Counted(q)' = Counted(q),
         \A q \in CPUs : pc'[q] = "bump" <=> pc[q] = "bump"
  PROVE  CounterExact'
<1>1. {q \in CPUs : Counted(q)}' = {q \in CPUs : Counted(q)}
  OBVIOUS
<1>. QED  BY <1>1 DEF CounterExact

LEMMA NextInv == IInv /\ [Next]_vars => IInv'
<1>. SUFFICES ASSUME IInv, [Next]_vars PROVE IInv'
  OBVIOUS
<1>. USE DEF IInv
<1>1. ASSUME NEW p \in CPUs, Call(p) PROVE IInv'
  <2>. USE <1>1 DEF Call, Go
  <2>1. TypeOK'
    BY DEF TypeOK, Labels
  <2>2. \A q \in CPUs : q # p => pc'[q] = pc[q]
    BY DEF TypeOK
  <2>3. pc'[p] = "read" /\ pc[p] = "idle"
    BY DEF TypeOK
  <2>4. \A q \in CPUs : Counted(q)' = Counted(q) /\ Released(q)' = Released(q)
    BY <2>2, <2>3 DEF Counted, Released
  <2>5. CounterExact'
    BY <2>2, <2>3, <2>4, SameCount
  <2>. QED  BY <2>1, <2>2, <2>3, <2>4, <2>5 DEF SameEpoch, UniqueNumber, MasterIsLast, NumberBound
<1>2. ASSUME NEW p \in CPUs, ReadEpoch(p) PROVE IInv'
  <2>. USE <1>2 DEF ReadEpoch, Go
  <2>1. TypeOK'
    BY DEF TypeOK, Labels
  <2>2. \A q \in CPUs : q # p => pc'[q] = pc[q] /\ e'[q] = e[q]
    BY DEF TypeOK
  <2>3. pc'[p] = "arrive" /\ pc[p] = "read" /\ e'[p] = epoch'
    BY DEF TypeOK
  <2>4. \A q \in CPUs : Counted(q)' = Counted(q) /\ Released(q)' = Released(q)
    BY <2>2, <2>3 DEF Counted, Released
  <2>5. CounterExact'
    BY <2>2, <2>3, <2>4, SameCount
  <2>. QED  BY <2>1, <2>2, <2>3, <2>4, <2>5 DEF SameEpoch, UniqueNumber, MasterIsLast, NumberBound
<1>3. ASSUME NEW p \in CPUs, Arrive(p) PROVE IInv'
  <2>. USE <1>3 DEF Arrive, Go
  <2>. DEFINE Here == {q \in CPUs : Counted(q)}
  <2>1. pc[p] = "arrive" /\ e[p] = epoch /\ ~ Counted(p)
    BY DEF SameEpoch, Counted
  <2>2. \A q \in CPUs : pc[q] \notin {"reset", "bump"}
    BY <2>1 DEF MasterIsLast
  <2>3. cnt = Cardinality(Here)
    BY <2>2 DEF CounterExact
  <2>4. \A q \in CPUs : q # p => pc'[q] = pc[q] /\ c'[q] = c[q]
    BY DEF TypeOK
  <2>5. pc'[p] = "test" /\ c'[p] = cnt + 1
    BY DEF TypeOK
  <2>6. \A q \in CPUs : q # p => Counted(q)' = Counted(q) /\ Released(q)' = Released(q)
    BY <2>4 DEF Counted, Released
  <2>7. Counted(p)' /\ ~ Released(p)'
    BY <2>1, <2>5 DEF Counted, Released
  <2>8. {q \in CPUs : Counted(q)}' = Here \cup {p}
    BY <2>6, <2>7
  <2>9. Cardinality(Here \cup {p}) = cnt + 1
    BY <2>1, <2>3, CountOneMore
  <2>10. \A q \in CPUs : pc'[q] \notin {"reset", "bump"}
    BY <2>2, <2>4, <2>5
  <2>11. CounterExact'
    BY <2>8, <2>9, <2>10 DEF CounterExact
  <2>12. cnt' \in 0..Max
    BY <2>9, CountBound
  <2>13. TypeOK'
    BY <2>12, <2>5, MaxType DEF TypeOK, Labels
  <2>14. \A q \in CPUs : Counted(q) => c[q] <= cnt /\ c[q] > 0 /\ c[q] \in 0..Max
    BY <2>2 DEF NumberBound, TypeOK
  <2>15. UniqueNumber'
    BY <2>4, <2>5, <2>6, <2>14 DEF UniqueNumber, TypeOK
  <2>16. SameEpoch'
    BY <2>4, <2>5 DEF SameEpoch
  <2>17. NumberBound'
    BY <2>4, <2>5, <2>6, <2>7, <2>10, <2>14 DEF NumberBound, TypeOK
  <2>. QED  BY <2>10, <2>11, <2>13, <2>15, <2>16, <2>17 DEF MasterIsLast
<1>4. ASSUME NEW p \in CPUs, Test(p) PROVE IInv'
  <2>. USE <1>4 DEF Test, Go
  <2>. DEFINE Here == {q \in CPUs : Counted(q)}
  <2>1. TypeOK'
    BY DEF TypeOK, Labels
  <2>2. pc[p] = "test" /\ pc'[p] = IF c[p] = Max THEN "reset" ELSE "spin"
    BY DEF TypeOK
  <2>3. \A q \in CPUs : q # p => pc'[q] = pc[q]
    BY DEF TypeOK
  <2>4. c[p] = Max => Counted(p)
    BY <2>2 DEF NumberBound, Released, Counted
  <2>5. \A q \in CPUs : Counted(q)' = Counted(q)
    BY <2>2, <2>3, <2>4 DEF Counted
  <2>6. \A q \in CPUs : Released(q)' /\ pc'[q] = "test" => Released(q) /\ pc[q] = "test"
    BY <2>2, <2>3 DEF Released
  <2>7. CounterExact'
    BY <2>2, <2>3, <2>5, SameCount
  <2>8. ASSUME c[p] = Max PROVE \A q \in CPUs : Counted(q)
    <3>1. \A q \in CPUs : pc[q] \notin {"reset", "bump"}
      BY <2>2, <2>4, <2>8 DEF UniqueNumber, NumberBound, Counted
    <3>2. cnt = Cardinality(Here) /\ Max <= cnt
      BY <3>1, <2>4, <2>8 DEF CounterExact, NumberBound
    <3>3. Cardinality(Here) = Max
      BY <3>2, MaxType DEF TypeOK
    <3>. QED  BY <3>3, CountBound
  <2>9. MasterIsLast'
    BY <2>2, <2>3, <2>5, <2>8 DEF MasterIsLast
  <2>10. SameEpoch'
    BY <2>2, <2>3, <2>4 DEF SameEpoch, Counted
  <2>11. UniqueNumber'
    BY <2>5 DEF UniqueNumber
  <2>12. NumberBound'
    BY <2>2, <2>3, <2>5, <2>6 DEF NumberBound
  <2>. QED  BY <2>1, <2>7, <2>9, <2>10, <2>11, <2>12
<1>5. ASSUME NEW p \in CPUs, Reset(p) PROVE IInv'
  <2>. USE <1>5 DEF Reset, Go
  <2>1. TypeOK'
    BY MaxType DEF TypeOK, Labels
  <2>2. pc[p] = "reset" /\ pc'[p] = "bump"
    BY DEF TypeOK
  <2>3. \A q \in CPUs : q # p => pc'[q] = pc[q]
    BY DEF TypeOK
  <2>4. \A q \in CPUs : Counted(q)' = Counted(q) /\ Released(q)' = Released(q)
    BY <2>2, <2>3 DEF Counted, Released
  <2>5. CounterExact'
    BY <2>2 DEF CounterExact
  <2>. QED  BY <2>1, <2>2, <2>3, <2>4, <2>5 DEF SameEpoch, UniqueNumber, MasterIsLast, NumberBound
<1>6. ASSUME NEW p \in CPUs, Bump(p) PROVE IInv'
  <2>. USE <1>6 DEF Bump, Go
  <2>1. epoch' \in 0..(EpochMod - 1) /\ epoch' # epoch
    BY NextEpoch DEF TypeOK
  <2>2. TypeOK'
    BY <2>1 DEF TypeOK, Labels
  <2>3. pc[p] = "bump" /\ pc'[p] = "done" /\ cnt = 0
    BY DEF TypeOK, CounterExact
  <2>4. \A q \in CPUs : Counted(q)
    BY <2>3 DEF MasterIsLast
  <2>5. \A q \in CPUs : q # p => pc[q] \in {"test", "spin"} /\ c[q] # Max
    BY <2>3, <2>4 DEF Counted, UniqueNumber, NumberBound
  <2>6. \A q \in CPUs : q # p => pc'[q] = pc[q] /\ e[q] = epoch
    BY <2>4, <2>5 DEF TypeOK, Counted
  <2>7. \A q \in CPUs : ~ Counted(q)'
    BY <2>1, <2>3, <2>5, <2>6 DEF Counted
  <2>8. {q \in CPUs : Counted(q)}' = {}
    BY <2>7
  <2>9. CounterExact'
    BY <2>3, <2>7, <2>8, FS_EmptySet DEF CounterExact
  <2>. QED  BY <2>2, <2>3, <2>5, <2>6, <2>7, <2>9 DEF SameEpoch, UniqueNumber, MasterIsLast, NumberBound
<1>7. ASSUME NEW p \in CPUs, Exit(p) PROVE IInv'
  <2>. USE <1>7 DEF Exit, Go
  <2>1. TypeOK'
    BY DEF TypeOK, Labels
  <2>2. pc[p] = "spin" /\ pc'[p] = "done" /\ e[p] # epoch
    BY DEF TypeOK
  <2>3. \A q \in CPUs : q # p => pc'[q] = pc[q]
    BY DEF TypeOK
  <2>4. \A q \in CPUs : Counted(q)' = Counted(q) /\ Released(q)' = Released(q)
    BY <2>2, <2>3 DEF Counted, Released
  <2>5. CounterExact'
    BY <2>2, <2>3, <2>4, SameCount
  <2>. QED  BY <2>1, <2>2, <2>3, <2>4, <2>5 DEF SameEpoch, UniqueNumber, MasterIsLast, NumberBound
<1>8. ASSUME NEW p \in CPUs, Return(p) PROVE IInv'
  <2>. USE <1>8 DEF Return, Go
  <2>1. TypeOK'
    BY DEF TypeOK, Labels
  <2>2. pc[p] = "done" /\ pc'[p] = "idle"
    BY DEF TypeOK
  <2>3. \A q \in CPUs : q # p => pc'[q] = pc[q]
    BY DEF TypeOK
  <2>4. \A q \in CPUs : Counted(q)' = Counted(q)
    BY <2>2, <2>3 DEF Counted
  <2>5. \A q \in CPUs : Released(q)' => Released(q)
    BY <2>2, <2>3 DEF Released
  <2>6. CounterExact'
    BY <2>2, <2>3, <2>4, SameCount
  <2>. QED  BY <2>1, <2>2, <2>3, <2>4, <2>5, <2>6 DEF SameEpoch, UniqueNumber, MasterIsLast, NumberBound
<1>9. CASE UNCHANGED vars
  BY <1>9 DEF vars, TypeOK, SameEpoch, UniqueNumber, MasterIsLast, CounterExact, NumberBound, Counted, Released
<1>. QED  BY <1>1, <1>2, <1>3, <1>4, <1>5, <1>6, <1>7, <1>8, <1>9 DEF Next, Step

\* Every state of the barrier satisfies the inductive invariant, whatever the
\* number of CPUs and the width of the epoch.
THEOREM Invariance == Spec => []IInv
BY InitInv, NextInv, PTL DEF Spec

\* The counter never exceeds max and the epoch stays within its width.
THEOREM TypeCorrect == Spec => []TypeOK
BY Invariance, PTL DEF IInv

\* When the master clears the counter and advances the epoch, everybody waits in
\* the episode: barrier() never erases an arrival.
THEOREM NoArrivalErased == Spec => []MasterIsLast
BY Invariance, PTL DEF IInv

\* Within an episode the CPUs hold different numbers.
THEOREM NumbersUnique == Spec => []UniqueNumber
BY Invariance, PTL DEF IInv

-----------------------------------------------------------------------------
(* The barrier implements the rendezvous.                                  *)

LEMMA InitMaps == Init => Abstract!Init
<1>. SUFFICES ASSUME Init PROVE Abstract!Init
  OBVIOUS
<1>1. \A p \in CPUs : ~ Counted(p) /\ ~ Released(p)
  BY DEF Init, Counted, Released
<1>. QED  BY <1>1 DEF Abstract!Init, Place

\* A step that keeps everybody's membership is invisible to the rendezvous.
LEMMA Invisible ==
  ASSUME \A q \in CPUs : Counted(q)' = Counted(q) /\ Released(q)' = Released(q)
  PROVE  Place' = Place
BY DEF Place

LEMMA StepMaps == IInv /\ IInv' /\ [Next]_vars => [Abstract!Next]_Place
<1>. SUFFICES ASSUME IInv, IInv', [Next]_vars PROVE [Abstract!Next]_Place
  OBVIOUS
<1>. USE DEF IInv
<1>0. Place \in [CPUs -> {"waiting", "released", "outside"}]
  BY DEF Place
<1>1. ASSUME NEW p \in CPUs, Call(p) PROVE Place' = Place
  <2>1. /\ pc'[p] = "read" /\ pc[p] = "idle"
        /\ \A q \in CPUs : q # p => pc'[q] = pc[q]
    BY <1>1 DEF Call, Go, TypeOK
  <2>2. \A q \in CPUs : Counted(q)' = Counted(q) /\ Released(q)' = Released(q)
    BY <1>1, <2>1 DEF Call, Counted, Released
  <2>. QED  BY <2>2, Invisible
<1>2. ASSUME NEW p \in CPUs, ReadEpoch(p) PROVE Place' = Place
  <2>1. /\ pc'[p] = "arrive" /\ pc[p] = "read"
        /\ \A q \in CPUs : q # p => pc'[q] = pc[q] /\ e'[q] = e[q]
    BY <1>2 DEF ReadEpoch, Go, TypeOK
  <2>2. \A q \in CPUs : Counted(q)' = Counted(q) /\ Released(q)' = Released(q)
    BY <1>2, <2>1 DEF ReadEpoch, Counted, Released
  <2>. QED  BY <2>2, Invisible
<1>3. ASSUME NEW p \in CPUs, Arrive(p) PROVE Abstract!Arrive(p)
  <2>1. pc[p] = "arrive" /\ pc'[p] = "test" /\ e[p] = epoch
    BY <1>3 DEF Arrive, Go, TypeOK, SameEpoch
  <2>2. \A q \in CPUs : q # p => pc'[q] = pc[q]
    BY <1>3 DEF Arrive, Go, TypeOK
  <2>3. ~ Counted(p) /\ ~ Released(p) /\ Counted(p)'
    BY <1>3, <2>1 DEF Arrive, Counted, Released
  <2>4. \A q \in CPUs : q # p => Counted(q)' = Counted(q) /\ Released(q)' = Released(q)
    BY <1>3, <2>2 DEF Arrive, Counted, Released
  <2>5. Place[p] = "outside" /\ Place' = [Place EXCEPT ![p] = "waiting"]
    BY <2>3, <2>4 DEF Place
  <2>. QED  BY <2>5 DEF Abstract!Arrive
<1>4. ASSUME NEW p \in CPUs, Test(p) PROVE Place' = Place
  <2>1. pc[p] = "test" /\ pc'[p] = IF c[p] = Max THEN "reset" ELSE "spin"
    BY <1>4 DEF Test, Go, TypeOK
  <2>2. \A q \in CPUs : q # p => pc'[q] = pc[q]
    BY <1>4 DEF Test, Go, TypeOK
  <2>3. c[p] = Max => Counted(p)
    BY <2>1 DEF NumberBound, Released, Counted
  <2>4. \A q \in CPUs : Counted(q)' = Counted(q) /\ Released(q)' = Released(q)
    BY <1>4, <2>1, <2>2, <2>3 DEF Test, Counted, Released
  <2>. QED  BY <2>4, Invisible
<1>5. ASSUME NEW p \in CPUs, Reset(p) PROVE Place' = Place
  <2>1. /\ pc[p] = "reset" /\ pc'[p] = "bump"
        /\ \A q \in CPUs : q # p => pc'[q] = pc[q]
    BY <1>5 DEF Reset, Go, TypeOK
  <2>2. \A q \in CPUs : Counted(q)' = Counted(q) /\ Released(q)' = Released(q)
    BY <1>5, <2>1 DEF Reset, Counted, Released
  <2>. QED  BY <2>2, Invisible
<1>6. ASSUME NEW p \in CPUs, Bump(p) PROVE Abstract!Open
  <2>1. pc[p] = "bump" /\ pc'[p] = "done"
    BY <1>6 DEF Bump, Go, TypeOK
  <2>2. \A q \in CPUs : q # p => pc'[q] = pc[q]
    BY <1>6 DEF Bump, Go, TypeOK
  <2>3. \A q \in CPUs : Counted(q)
    BY <2>1 DEF MasterIsLast
  <2>4. epoch' # epoch
    BY <1>6, NextEpoch DEF Bump, TypeOK
  <2>5. \A q \in CPUs : q # p => pc[q] \in {"test", "spin"} /\ e[q] = epoch
    BY <2>1, <2>3 DEF Counted, UniqueNumber, NumberBound
  <2>6. \A q \in CPUs : ~ Counted(q)' /\ Released(q)'
    BY <1>6, <2>1, <2>2, <2>4, <2>5 DEF Bump, Counted, Released
  <2>7. \A q \in CPUs : Place[q] = "waiting"
    BY <2>3 DEF Place
  <2>8. Place' = [q \in CPUs |-> "released"]
    BY <2>6 DEF Place
  <2>. QED  BY <2>7, <2>8 DEF Abstract!Open
<1>7. ASSUME NEW p \in CPUs, Exit(p) PROVE Place' = Place
  <2>1. /\ pc[p] = "spin" /\ pc'[p] = "done" /\ e[p] # epoch
        /\ \A q \in CPUs : q # p => pc'[q] = pc[q]
    BY <1>7 DEF Exit, Go, TypeOK
  <2>2. \A q \in CPUs : Counted(q)' = Counted(q) /\ Released(q)' = Released(q)
    BY <1>7, <2>1 DEF Exit, Counted, Released
  <2>. QED  BY <2>2, Invisible
<1>8. ASSUME NEW p \in CPUs, Return(p) PROVE Abstract!Leave(p)
  <2>1. pc[p] = "done" /\ pc'[p] = "idle"
    BY <1>8 DEF Return, Go, TypeOK
  <2>2. \A q \in CPUs : q # p => pc'[q] = pc[q]
    BY <1>8 DEF Return, Go, TypeOK
  <2>3. Released(p) /\ ~ Counted(p) /\ ~ Released(p)' /\ ~ Counted(p)'
    BY <2>1 DEF Counted, Released
  <2>4. \A q \in CPUs : q # p => Counted(q)' = Counted(q) /\ Released(q)' = Released(q)
    BY <1>8, <2>2 DEF Return, Counted, Released
  <2>5. Place[p] = "released" /\ Place' = [Place EXCEPT ![p] = "outside"]
    BY <2>3, <2>4 DEF Place
  <2>. QED  BY <2>5 DEF Abstract!Leave
<1>9. CASE UNCHANGED vars
  BY <1>9 DEF vars, Place, Counted, Released
<1>. QED
  BY <1>1, <1>2, <1>3, <1>4, <1>5, <1>6, <1>7, <1>8, <1>9 DEF Next, Step, Abstract!Next

\* barrier() is a reusable rendezvous for any number of CPUs: nobody returns from
\* an episode before everybody has come to it, and the CPUs that come back early
\* never mix with those still leaving.
THEOREM Refinement == Spec => Rendezvous
BY InitMaps, StepMaps, Invariance, PTL DEF Spec, Rendezvous, Abstract!Spec
=============================================================================
