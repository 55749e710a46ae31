------------------------------ MODULE SmpHalt ------------------------------
(***************************************************************************)
(* smp_halt() and smp_wakeup() of smp.c: how a CPU puts itself to sleep and *)
(* how another one wakes it, with the HALT and HALTED bits of its flags word *)
(* and an inter-processor interrupt.                                        *)
(*                                                                         *)
(* The module is a library: it has the steps of the two functions and the  *)
(* hardware's, and leaves it to a module that extends it to say who calls  *)
(* them when.  A call sets pc to the function's first label and is over    *)
(* when pc is "run" again.  MASK_SET and MASK_CLEAR are plain read-modify-  *)
(* writes of a word two CPUs write to, so each is a load and a store.       *)
(***************************************************************************)
EXTENDS Naturals, FiniteSets

CONSTANT CPUs      \* the ids of the CPUs that came up

ASSUME CPUsAssumption == CPUs \subseteq Nat /\ IsFiniteSet(CPUs) /\ 0 \in CPUs

VARIABLES flags,   \* stack[u].info.flags: the bits that are set
          pend,    \* CPUs with an undelivered IPI (one vector: one bit)
          pc,      \* where each CPU is in smp_halt() or smp_wakeup()
          old,     \* the word a CPU loaded and is about to store back, modified
          tgt      \* the argument cpu_id of smp_wakeup()

smpVars == <<flags, pend, pc, old, tgt>>

cpu_online == Cardinality(CPUs)

\* stack[] has an entry for every id, whether or not a CPU uses it.
Ids == CPUs \cup 0..(cpu_online - 1)

Bits == {"HALT", "HALTED"}

InHalt == {"h_load", "h_store", "h_test", "h_hlt", "h_asleep", "h_cload", "h_cstore"}
InWakeup == {"w_wait", "w_load", "w_store", "w_test", "w_send"}

\* smp_init()
SmpInit ==
  /\ flags = [u \in Ids |-> {}]
  /\ pend = {}
  /\ pc = [p \in CPUs |-> "run"]
  /\ old = [p \in CPUs |-> {}]
  /\ tgt = [p \in CPUs |-> 0]

Go(p, from, to) ==
  /\ pc[p] = from
  /\ pc' = [pc EXCEPT ![p] = to]

\* The register with the loaded word is free again.
Forget(p) == old' = [old EXCEPT ![p] = {}]

-----------------------------------------------------------------------------
(* Plausible defects, one definition each, for the mutation runs.          *)

WakeAtOnce(p) ==
  /\ Go(p, "w_wait", "w_load")
  /\ UNCHANGED <<flags, pend, old, tgt>>

SendOnce(p) ==
  /\ Go(p, "w_send", "run")
  /\ pend' = pend \cup {tgt[p]}
  /\ UNCHANGED <<flags, old, tgt>>

HaltForgotten(p) ==
  /\ Go(p, "h_store", "h_test")
  /\ flags' = [flags EXCEPT ![p] = old[p] \cup {"HALTED"}]
  /\ Forget(p)
  /\ UNCHANGED <<pend, tgt>>

-----------------------------------------------------------------------------
(* smp_halt()                                                              *)

\* MASK_SET(flags, HALT|HALTED): load ...
HaltLoad(p) ==
  /\ Go(p, "h_load", "h_store")
  /\ old' = [old EXCEPT ![p] = flags[p]]
  /\ UNCHANGED <<flags, pend, tgt>>

\* ... and store; then sti().
HaltStore(p) ==
  /\ Go(p, "h_store", "h_test")
  /\ flags' = [flags EXCEPT ![p] = old[p] \cup Bits]
  /\ Forget(p)
  /\ UNCHANGED <<pend, tgt>>

\* while (IS_MASK_SET(flags, HALT))
HaltTest(p) ==
  /\ IF "HALT" \in flags[p] THEN Go(p, "h_test", "h_hlt") ELSE Go(p, "h_test", "h_cload")
  /\ UNCHANGED <<flags, pend, old, tgt>>

\* hlt
Sleep(p) ==
  /\ Go(p, "h_hlt", "h_asleep")
  /\ UNCHANGED <<flags, pend, old, tgt>>

\* MASK_CLEAR(flags, HALTED): load ...
ClearLoad(p) ==
  /\ Go(p, "h_cload", "h_cstore")
  /\ old' = [old EXCEPT ![p] = flags[p]]
  /\ UNCHANGED <<flags, pend, tgt>>

\* ... and store; then cli(), as the callers run with interrupts off.
ClearStore(p) ==
  /\ Go(p, "h_cstore", "run")
  /\ flags' = [flags EXCEPT ![p] = old[p] \ {"HALTED"}]
  /\ Forget(p)
  /\ UNCHANGED <<pend, tgt>>

\* Between sti() and cli() the local APIC delivers a pending IPI.  A CPU that
\* sleeps returns from hlt to the test of the loop; for one that is not asleep
\* yet the interrupt is gone.  This is the 64 bit mode: isr_common_stub of jump64.asm
\* leaves ds alone and int_handler() returns.  That of start32.asm, line 259, loads
\* ds with a code segment, so the first store of the handler faults, it does not return,
\* and no CPU ever comes back from a hlt.
Interrupt(p) ==
  /\ p \in pend
  /\ pend' = pend \ {p}
  /\ \/ Go(p, "h_asleep", "h_test")
     \/ pc[p] \in {"h_test", "h_hlt", "h_cload", "h_cstore"} /\ UNCHANGED pc
  /\ UNCHANGED <<flags, old, tgt>>

-----------------------------------------------------------------------------
(* smp_wakeup(tgt[p])                                                      *)

\* The loop while (IS_MASK_CLEAR(flags, HALTED)) ends.
WakeWait(p) ==
  /\ Go(p, "w_wait", "w_load")
  /\ "HALTED" \in flags[tgt[p]]
  /\ UNCHANGED <<flags, pend, old, tgt>>

\* MASK_CLEAR(flags, HALT): load ...
WakeLoad(p) ==
  /\ Go(p, "w_load", "w_store")
  /\ old' = [old EXCEPT ![p] = flags[tgt[p]]]
  /\ UNCHANGED <<flags, pend, tgt>>

\* ... and store.
WakeStore(p) ==
  /\ Go(p, "w_store", "w_test")
  /\ flags' = [flags EXCEPT ![tgt[p]] = old[p] \ {"HALT"}]
  /\ Forget(p)
  /\ UNCHANGED <<pend, tgt>>

\* while (IS_MASK_SET(flags, HALTED))
WakeTest(p) ==
  /\ pc[p] = "w_test"
  /\ IF "HALTED" \in flags[tgt[p]] THEN Go(p, "w_test", "w_send") ELSE Go(p, "w_test", "run")
  /\ UNCHANGED <<flags, pend, old, tgt>>

\* send_ipi(cpu_id, 128); an interrupt that is pending already absorbs it.
SendIpi(p) ==
  /\ Go(p, "w_send", "w_test")
  /\ pend' = pend \cup {tgt[p]}
  /\ UNCHANGED <<flags, old, tgt>>

HaltStep(p) ==
  HaltLoad(p) \/ HaltStore(p) \/ HaltTest(p) \/ Sleep(p) \/ ClearLoad(p) \/ ClearStore(p)

WakeStep(p) ==
  WakeWait(p) \/ WakeLoad(p) \/ WakeStore(p) \/ WakeTest(p) \/ SendIpi(p)

\* A step inside the two functions.
SmpStep(p) == HaltStep(p) \/ WakeStep(p)
=============================================================================
