------------------------------ MODULE Barrier ------------------------------
(***************************************************************************)
(* barrier() of sync.c: a counting barrier made reusable by an epoch.      *)
(* Every access to a shared field of barrier_t is a step of its own.  The  *)
(* counter is advanced by a locked instruction and the code puts a full    *)
(* fence between its other accesses, so the steps are interleaved under    *)
(* sequential consistency.                                                 *)
(***************************************************************************)
EXTENDS Integers, FiniteSets

CONSTANTS CPUs,       \* the CPUs that use this barrier; b->max is their number
          EpochMod    \* the epoch wraps around after this many episodes (2^32)

ASSUME CPUsAssumption == IsFiniteSet(CPUs) /\ CPUs # {}
ASSUME EpochModAssumption == EpochMod \in Nat /\ EpochMod > 1

VARIABLES cnt,     \* b->cnt
          epoch,   \* b->epoch
          pc,      \* the next access each CPU makes
          e,       \* the local e of barrier(): the epoch the CPU entered under
          c        \* the local c of barrier(): the CPU's number in the episode

vars == <<cnt, epoch, pc, e, c>>

Max == Cardinality(CPUs)

Labels == {"idle", "read", "arrive", "test", "reset", "bump", "spin", "done"}

-----------------------------------------------------------------------------
(* The barrier.                                                            *)

Init ==
  /\ cnt = 0
  /\ epoch = 0
  /\ pc = [p \in CPUs |-> "idle"]
  /\ e = [p \in CPUs |-> 0]
  /\ c = [p \in CPUs |-> 0]

Go(p, from, to) ==
  /\ pc[p] = from
  /\ pc' = [pc EXCEPT ![p] = to]

-----------------------------------------------------------------------------
(* Plausible defects, one definition each, for the mutation runs.          *)

TestOffByOne(p) ==
  /\ IF c[p] >= Max - 1 THEN Go(p, "test", "reset") ELSE Go(p, "test", "spin")
  /\ UNCHANGED <<cnt, epoch, e, c>>

ResetForgotten(p) ==
  /\ Go(p, "reset", "bump")
  /\ UNCHANGED <<cnt, epoch, e, c>>

ExitOnCounter(p) ==
  /\ cnt = 0
  /\ Go(p, "spin", "done")
  /\ UNCHANGED <<cnt, epoch, e, c>>

-----------------------------------------------------------------------------
(* The code.                                                               *)

\* A CPU, busy with its own work until now, calls barrier().
Call(p) ==
  /\ Go(p, "idle", "read")
  /\ UNCHANGED <<cnt, epoch, e, c>>

\* e = b->epoch
ReadEpoch(p) ==
  /\ Go(p, "read", "arrive")
  /\ e' = [e EXCEPT ![p] = epoch]
  /\ UNCHANGED <<cnt, epoch, c>>

\* c = __sync_add_and_fetch(&(b->cnt), 1)
Arrive(p) ==
  /\ Go(p, "arrive", "test")
  /\ cnt' = cnt + 1
  /\ c' = [c EXCEPT ![p] = cnt + 1]
  /\ UNCHANGED <<epoch, e>>

\* if (c == b->max): the last one to arrive becomes the master of the episode.
Test(p) ==
  /\ IF c[p] = Max THEN Go(p, "test", "reset") ELSE Go(p, "test", "spin")
  /\ UNCHANGED <<cnt, epoch, e, c>>

\* b->cnt = 0
Reset(p) ==
  /\ Go(p, "reset", "bump")
  /\ cnt' = 0
  /\ UNCHANGED <<epoch, e, c>>

\* b->epoch++ ends the episode.
Bump(p) ==
  /\ Go(p, "bump", "done")
  /\ epoch' = (epoch + 1) % EpochMod
  /\ UNCHANGED <<cnt, e, c>>

\* The loop while (e == b->epoch) ends.
Exit(p) ==
  /\ epoch # e[p]
  /\ Go(p, "spin", "done")
  /\ UNCHANGED <<cnt, epoch, e, c>>

\* smp_status(STATUS_RUNNING), and back to the caller.
Return(p) ==
  /\ Go(p, "done", "idle")
  /\ UNCHANGED <<cnt, epoch, e, c>>

\* What a CPU does once it has called barrier().
Step(p) ==
  \/ ReadEpoch(p) \/ Arrive(p) \/ Test(p)
  \/ Reset(p) \/ Bump(p) \/ Exit(p) \/ Return(p)

Next == \E p \in CPUs : Call(p) \/ Step(p)

Spec == Init /\ [][Next]_vars

\* A CPU inside barrier() keeps executing; whether a CPU calls barrier() again
\* is up to its program.
FairSpec == Spec /\ \A p \in CPUs : WF_vars(Step(p))

-----------------------------------------------------------------------------
(* Correctness.                                                            *)

\* The CPU has its number and waits for the end of the running episode.
Counted(p) ==
  \/ pc[p] \in {"test", "spin"} /\ e[p] = epoch
  \/ pc[p] \in {"reset", "bump"}

\* The episode the CPU waited in is over, and the CPU has not returned yet.
Released(p) ==
  \/ pc[p] \in {"test", "spin"} /\ e[p] # epoch
  \/ pc[p] = "done"

\* The values the fields of barrier_t and the locals of barrier() range over:
\* the counter never passes max, in particular.
TypeOK ==
  /\ cnt \in 0..Max
  /\ epoch \in 0..(EpochMod - 1)
  /\ pc \in [CPUs -> Labels]
  /\ e \in [CPUs -> 0..(EpochMod - 1)]
  /\ c \in [CPUs -> 0..Max]

\* "As no participant can leave the episode, every member gets the same e here"
\* (sync.c, line 123): a CPU that is about to be counted, or leads the episode,
\* sampled the epoch that still runs.
SameEpoch == \A p \in CPUs : pc[p] \in {"arrive", "reset", "bump"} => e[p] = epoch

\* "every participant increments the counter and gets a unique ID into c"
\* (line 132): within an episode, and although the counter is reset under way.
UniqueNumber ==
  \A p, q \in CPUs : Counted(p) /\ Counted(q) /\ c[p] = c[q] => p = q

\* "all others have already their ID and wait in the episode for the epoch to
\* change" (line 135): nobody is outside, entering or still leaving when the
\* counter is reset and the epoch advanced, so no arrival is ever erased.
MasterIsLast ==
  \A p \in CPUs : pc[p] \in {"reset", "bump"} => \A q \in CPUs : Counted(q)

\* The counter is the number of CPUs waiting in the running episode, until its
\* master has cleared it for the next one.
CounterExact ==
  IF \E p \in CPUs : pc[p] = "bump"
  THEN cnt = 0
  ELSE cnt = Cardinality({p \in CPUs : Counted(p)})

\* A number never exceeds the counter, the master's is max, and nobody who got
\* max goes on to wait: so every full episode has exactly one master.
NumberBound ==
  /\ \A p \in CPUs : Counted(p) => c[p] > 0
  /\ (\A p \in CPUs : pc[p] # "bump") => \A p \in CPUs : Counted(p) => c[p] <= cnt
  /\ \A p \in CPUs : pc[p] \in {"reset", "bump"} => c[p] = Max
  /\ \A p \in CPUs : pc[p] = "spin" \/ (Released(p) /\ pc[p] = "test") => c[p] # Max

\* The rendezvous of BarrierSpec: the master's b->epoch++ is its Open, so nobody
\* leaves an episode before everybody came, and nobody is left behind in it.
Place == [p \in CPUs |-> IF Counted(p) THEN "waiting"
                         ELSE IF Released(p) THEN "released"
                         ELSE "outside"]
Abstract == INSTANCE BarrierSpec WITH place <- Place
Rendezvous == Abstract!Spec

\* Once everybody has arrived, everybody returns, without another call being
\* needed: no CPU misses the change of the epoch, even when it wraps around.
AllCounted == \A p \in CPUs : Counted(p)
EpisodeEnds == \A p \in CPUs : AllCounted ~> pc[p] = "idle"
=============================================================================
