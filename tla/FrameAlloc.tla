----------------------------- MODULE FrameAlloc -----------------------------
(***************************************************************************)
(* The physical frames of mm.c: freemap[], filled by mm_init() from the     *)
(* memory map of the boot loader, and get_free_frame().                     *)
(* freemap[] has one bit per frame in words of type unsigned long, and the  *)
(* macros of lib.h that touch a bit shift the int 1: on x86 the shift       *)
(* count is taken modulo the width of an int, and a mask with the top bit   *)
(* of the int set is sign-extended to the width of the word.  In the 64 bit *)
(* build a word is twice as wide as an int.                                 *)
(* The callers hold pt_mutex, so each call is one step.                     *)
(***************************************************************************)
EXTENDS Integers

CONSTANTS IntBits,     \* the width of an int
          LongBits,    \* the width of an unsigned long
          MaxFrame,    \* MAX_MEM / PAGE_SIZE
          FirstPT,     \* 0x400: page tables are taken from here on
          First4k,     \* 0x800: and pages from here on
          Uppers,      \* the ends of the first block of memory (mem_upper)
          Maps         \* the memory maps a boot loader may report: sets of frames

ASSUME WidthAssumption ==
  IntBits \in Nat \ {0} /\ LongBits \in Nat \ {0} /\ LongBits % IntBits = 0
ASSUME FrameAssumption ==
  /\ MaxFrame \in Nat /\ FirstPT \in Nat /\ First4k \in Nat
  /\ FirstPT <= First4k /\ First4k < MaxFrame /\ MaxFrame % LongBits = 0
ASSUME MemoryAssumption == Uppers \subseteq 0..MaxFrame /\ Maps \subseteq SUBSET (0..(MaxFrame - 1))

VARIABLES freemap,      \* the bits that are set, numbered through all words
          upper, mmap,  \* the two descriptions of the memory, as far as not read yet
          last_frame,   \* last_frame_pt and last_frame_4k
          halted,       \* the type of frame a CPU stopped for: "out of memory"
          memory,       \* history: the memory, from FirstPT on
          given,        \* history: the frames that were handed out
          again         \* history: a frame was handed out a second time

vars == <<freemap, upper, mmap, last_frame, halted, memory, given, again>>

Types == {"pt", "4k"}
First == [t \in Types |-> IF t = "pt" THEN FirstPT ELSE First4k]
Frames == 0..(MaxFrame - 1)

\* A defect for the mutation runs: half of the bits are not told apart.
HalfMask(frame) ==
  {((frame \div LongBits) * LongBits) + ((frame % LongBits) % (LongBits \div 2))}

\* The bits of a frame's word that are 1 in (1 << (frame % LongBits)).
Mask(frame) ==
  LET word  == (frame \div LongBits) * LongBits
      shift == (frame % LongBits) % IntBits
      top   == IF shift = IntBits - 1 THEN LongBits - 1 ELSE shift
  IN  {word + b : b \in shift..top}

\* f is the first frame of a set that a loop over the frames comes to.
Comes1st(f, S) == f \in S /\ \A g \in S : f <= g

-----------------------------------------------------------------------------
(* Plausible defects, one definition each, for the mutation runs.          *)

NotCleared(bits, frame) == bits

-----------------------------------------------------------------------------
(* The code.                                                               *)

\* BIT_SET, BIT_CLEAR, IS_BIT_CLEAR
BitSet(bits, frame) == bits \cup Mask(frame)
BitClear(bits, frame) == bits \ Mask(frame)
IsBitClear(bits, frame) == bits \cap Mask(frame) = {}

\* mm_init() registers frames from 4 MB up to MAX_MEM.
InRange(f) == f >= FirstPT /\ f < MaxFrame

Init ==
  /\ \E limit \in Uppers : upper = {f \in Frames : InRange(f) /\ f < limit}
  /\ \E map \in Maps : mmap = {f \in map : InRange(f)}
  /\ memory = upper \cup mmap
  /\ freemap = {}
  /\ last_frame = First
  /\ halted = "no"
  /\ given = {} /\ again = FALSE

\* mm_init(): the next frame below mem_upper.
RegisterUpper ==
  /\ upper # {}
  /\ \E f \in upper :
       /\ Comes1st(f, upper)
       /\ upper' = upper \ {f}
       /\ freemap' = BitSet(freemap, f)
  /\ UNCHANGED <<mmap, last_frame, halted, memory, given, again>>

\* mm_init(): the next frame of the memory map, if its bit is not set already.
RegisterMap ==
  /\ upper = {} /\ mmap # {}
  /\ \E f \in mmap :
       /\ Comes1st(f, mmap)
       /\ mmap' = mmap \ {f}
       /\ freemap' = IF IsBitClear(freemap, f) THEN BitSet(freemap, f) ELSE freemap
  /\ UNCHANGED <<upper, last_frame, halted, memory, given, again>>

\* The frames the loop of get_free_frame() stops at; the first one it looks at
\* is the one it returned last.
Candidates(type) == {f \in last_frame[type]..(MaxFrame - 1) : ~IsBitClear(freemap, f)}

\* pt_mutex is free once mm_init() is through.
Ready == upper = {} /\ mmap = {} /\ halted = "no"

GetFreeFrame(type) ==
  /\ Ready
  /\ Candidates(type) # {}
  /\ \E f \in Candidates(type) :
       /\ Comes1st(f, Candidates(type))
       /\ last_frame' = [last_frame EXCEPT ![type] = f]
       /\ freemap' = BitClear(freemap, f)
       /\ again' = (again \/ f \in given)
       /\ given' = given \cup {f}
  /\ UNCHANGED <<upper, mmap, halted, memory>>

\* "ERROR: out of memory!"
OutOfMemory(type) ==
  /\ Ready
  /\ Candidates(type) = {}
  /\ last_frame' = [last_frame EXCEPT ![type] = MaxFrame]
  /\ halted' = type
  /\ UNCHANGED <<freemap, upper, mmap, memory, given, again>>

Next ==
  \/ RegisterUpper \/ RegisterMap
  \/ \E t \in Types : GetFreeFrame(t) \/ OutOfMemory(t)

Spec == Init /\ [][Next]_vars

-----------------------------------------------------------------------------
(* Correctness.                                                            *)

\* No frame is handed out twice, although page tables and pages are searched
\* for from two places of one map, and the searches may meet.
NeverTwice == ~again

\* Only memory is handed out, above the frames that hold the kernel.
OnlyMemory == given \subseteq memory

\* A CPU stops with "out of memory" only when every frame of the memory from
\* where its search began has been handed out, be it for the other type.
UsedUp == halted # "no" => \A f \in memory : f >= First[halted] => f \in given
=============================================================================
