-------------------------- MODULE FrameAllocProofs --------------------------
(* What is proved of FrameAlloc, for every width of the integer types, every *)
(* size of the memory and every memory map.                                  *)
EXTENDS FrameAlloc, TLAPS

\* A frame that was handed out looks used in freemap[], and stays so: bits are
\* set only before the first frame is handed out, and clearing the bits of one
\* frame, whichever they are, sets none of another's.
IInv ==
  /\ given # {} => upper = {} /\ mmap = {}
  /\ \A f \in given : IsBitClear(freemap, f)
  /\ NeverTwice

LEMMA InitIInv == Init => IInv
BY DEF Init, IInv, NeverTwice

LEMMA StepIInv == IInv /\ [Next]_vars => IInv'
<1> SUFFICES ASSUME IInv, [Next]_vars PROVE IInv'
  OBVIOUS
<1> USE DEF IInv, NeverTwice, IsBitClear
<1>1. CASE RegisterUpper
  <2>1. given = {} /\ given' = {} /\ again' = again
    BY <1>1 DEF RegisterUpper
  <2> QED BY <2>1
<1>2. CASE RegisterMap
  <2>1. given = {} /\ given' = {} /\ again' = again
    BY <1>2 DEF RegisterMap
  <2> QED BY <2>1
<1>3. ASSUME NEW t \in Types, GetFreeFrame(t) PROVE IInv'
  <2>1. PICK f \in Candidates(t) :
          /\ freemap' = BitClear(freemap, f)
          /\ again' = (again \/ f \in given)
          /\ given' = given \cup {f}
    BY <1>3 DEF GetFreeFrame
  <2>2. f \notin given
    BY <2>1 DEF Candidates
  <2>3. upper' = {} /\ mmap' = {}
    BY <1>3 DEF GetFreeFrame, Ready
  <2>4. \A g \in given' : freemap' \cap Mask(g) = {}
    BY <2>1 DEF BitClear
  <2> QED BY <2>1, <2>2, <2>3, <2>4
<1>4. ASSUME NEW t \in Types, OutOfMemory(t) PROVE IInv'
  BY <1>4 DEF OutOfMemory
<1>5. CASE UNCHANGED vars
  BY <1>5 DEF vars
<1> QED BY <1>1, <1>2, <1>3, <1>4, <1>5 DEF Next

\* No frame is handed out twice: get_free_frame() clears the bits it tested,
\* and both searches of it test before they return.  This holds in spite of the
\* shift of lib.h that makes frames share a bit.
THEOREM FramesUnique == Spec => []NeverTwice
<1>1. IInv => NeverTwice
  BY DEF IInv
<1> QED BY InitIInv, StepIInv, <1>1, PTL DEF Spec
-----------------------------------------------------------------------------
(* The 32 bit build, where an int is as wide as a word of the map.          *)

\* There the mask of a frame is the frame's own bit: the sign extension that
\* makes 32 frames share a bit needs a word that is wider than the int.
LEMMA OneBit ==
  ASSUME IntBits = LongBits, NEW f \in Nat
  PROVE  Mask(f) = {f}
<1> DEFINE word == (f \div LongBits) * LongBits
           shift == f % LongBits
<1>1. LongBits \in Nat \ {0}
  BY WidthAssumption
<1>2. shift \in 0..(LongBits - 1) /\ shift \in Nat
  BY <1>1
<1>3. shift % IntBits = shift
  BY <1>1, <1>2
<1>4. word \in Int /\ f = word + shift
  BY <1>1
<1>5. Mask(f) = {word + b : b \in shift..shift}
  BY <1>1, <1>2, <1>3, Z3 DEF Mask
<1>6. shift..shift = {shift}
  BY <1>2
<1> HIDE DEF word, shift
<1> QED BY <1>4, <1>5, <1>6

\* What is registered, handed out or still to be read is the memory, and a
\* search has left behind only frames that were handed out.
Accounted ==
  /\ memory \subseteq Frames
  /\ freemap \subseteq memory /\ upper \subseteq memory /\ mmap \subseteq memory
  /\ OnlyMemory
  /\ memory \subseteq freemap \cup upper \cup mmap \cup given
  /\ last_frame \in [Types -> Nat]
  /\ \A t \in Types : \A f \in memory :
       f >= First[t] /\ f < last_frame[t] => f \in given
  /\ halted # "no" => halted \in Types /\ last_frame[halted] = MaxFrame

LEMMA InitAccounted == Init => Accounted
<1> SUFFICES ASSUME Init PROVE Accounted
  OBVIOUS
<1>1. upper \subseteq Frames /\ mmap \subseteq Frames
  BY MemoryAssumption DEF Init, Frames
<1>2. First \in [Types -> Nat]
  BY FrameAssumption DEF First
<1>3. \A t \in Types : \A f \in memory : ~(f >= First[t] /\ f < last_frame[t])
  BY <1>1, <1>2 DEF Init, Frames
<1> QED BY <1>1, <1>2, <1>3 DEF Init, Accounted, OnlyMemory

LEMMA StepAccounted ==
  ASSUME IntBits = LongBits, Accounted, [Next]_vars
  PROVE  Accounted'
<1> USE DEF Accounted, OnlyMemory
<1>0. /\ memory \subseteq Nat
      /\ \A f \in memory : Mask(f) = {f} /\ f < MaxFrame /\ f <= MaxFrame - 1
  <2>1. memory \subseteq Nat /\ \A f \in memory : f < MaxFrame /\ f <= MaxFrame - 1
    BY FrameAssumption DEF Frames
  <2> QED BY <2>1, OneBit
<1>1. CASE RegisterUpper
  <2>1. PICK f \in upper : upper' = upper \ {f} /\ freemap' = freemap \cup {f}
    BY <1>1, <1>0 DEF RegisterUpper, BitSet
  <2> QED BY <1>1, <2>1 DEF RegisterUpper
<1>2. CASE RegisterMap
  <2>1. PICK f \in mmap : mmap' = mmap \ {f} /\ freemap' = freemap \cup {f}
    BY <1>2, <1>0 DEF RegisterMap, BitSet, IsBitClear
  <2> QED BY <1>2, <2>1 DEF RegisterMap
<1>3. ASSUME NEW t \in Types, GetFreeFrame(t) PROVE Accounted'
  <2>1. PICK f \in Candidates(t) :
          /\ Comes1st(f, Candidates(t))
          /\ last_frame' = [last_frame EXCEPT ![t] = f]
          /\ freemap' = BitClear(freemap, f)
          /\ given' = given \cup {f}
    BY <1>3 DEF GetFreeFrame
  <2>2. f \in Frames /\ f \in Nat
    BY <2>1, FrameAssumption DEF Candidates, Frames
  <2>3. Mask(f) = {f}
    BY <2>2, OneBit
  <2>4. f \in freemap /\ freemap' = freemap \ {f}
    BY <2>1, <2>3 DEF Candidates, IsBitClear, BitClear
  <2>5. /\ upper = {} /\ mmap = {} /\ UNCHANGED <<upper, mmap, halted, memory>>
        /\ halted = "no"
    BY <1>3 DEF GetFreeFrame, Ready
  <2>6. \A g \in memory : g >= last_frame[t] /\ g < f => g \in given
    <3>1. SUFFICES ASSUME NEW g \in memory, g >= last_frame[t], g < f, g \notin given
                   PROVE FALSE
      OBVIOUS
    <3>2. g \in freemap
      BY <3>1, <2>5
    <3>3. g \in last_frame[t]..(MaxFrame - 1)
      BY <3>1, <1>0, FrameAssumption
    <3>4. g \in Candidates(t)
      BY <3>2, <3>3, <1>0 DEF Candidates, IsBitClear
    <3> QED BY <3>4, <3>1, <2>1, <2>2, <1>0 DEF Comes1st
  <2>7. last_frame' \in [Types -> Nat]
    BY <2>1, <2>2
  <2>8. ASSUME NEW s \in Types, NEW g \in memory, g >= First[s], g < last_frame'[s]
        PROVE g \in given'
    <3>1. CASE s = t
      <4>1. last_frame'[s] = f
        BY <2>1, <3>1
      <4>2. g >= last_frame[t] \/ g < last_frame[t]
        BY <1>0
      <4> QED BY <4>1, <4>2, <2>8, <3>1, <2>6, <2>1
    <3>2. CASE s # t
      BY <2>8, <3>2, <2>1
    <3> QED BY <3>1, <3>2
  <2> QED BY <2>1, <2>4, <2>5, <2>7, <2>8
<1>4. ASSUME NEW t \in Types, OutOfMemory(t) PROVE Accounted'
  <2>1. /\ upper = {} /\ mmap = {} /\ halted' = t
        /\ UNCHANGED <<freemap, upper, mmap, memory, given>>
        /\ last_frame' = [last_frame EXCEPT ![t] = MaxFrame]
        /\ Candidates(t) = {}
    BY <1>4 DEF OutOfMemory, Ready
  <2>2. \A g \in memory : g >= last_frame[t] => g \in given
    <3>1. SUFFICES ASSUME NEW g \in memory, g >= last_frame[t], g \notin given
                   PROVE FALSE
      OBVIOUS
    <3>2. g \in last_frame[t]..(MaxFrame - 1)
      BY <3>1, <1>0, FrameAssumption
    <3>3. g \in freemap
      BY <3>1, <2>1
    <3> QED BY <3>2, <3>3, <1>0, <2>1 DEF Candidates, IsBitClear
  <2>3. last_frame' \in [Types -> Nat] /\ last_frame'[t] = MaxFrame
    BY <2>1, FrameAssumption
  <2>4. ASSUME NEW s \in Types, NEW g \in memory, g >= First[s], g < last_frame'[s]
        PROVE g \in given'
    <3>1. CASE s = t
      <4>1. g >= last_frame[t] \/ g < last_frame[t]
        BY <1>0
      <4> QED BY <4>1, <2>4, <3>1, <2>2, <2>1
    <3>2. CASE s # t
      BY <2>4, <3>2, <2>1
    <3> QED BY <3>1, <3>2
  <2> QED BY <2>1, <2>3, <2>4
<1>5. CASE UNCHANGED vars
  BY <1>5 DEF vars
<1> QED BY <1>1, <1>2, <1>3, <1>4, <1>5 DEF Next

\* get_free_frame() hands out nothing but memory, above the kernel, in a build
\* where int and unsigned long are equally wide.
THEOREM MemoryOnly ==
  ASSUME IntBits = LongBits
  PROVE  Spec => []OnlyMemory
<1>1. Accounted /\ [Next]_vars => Accounted'
  BY StepAccounted
<1>2. Accounted => OnlyMemory
  BY DEF Accounted
<1> QED BY InitAccounted, <1>1, <1>2, PTL DEF Spec

\* In that build "out of memory" means what it says: a search that ends without
\* a frame has seen that all memory from its start on is handed out.
THEOREM NothingLeft ==
  ASSUME IntBits = LongBits
  PROVE  Spec => []UsedUp
<1>1. Accounted /\ [Next]_vars => Accounted'
  BY StepAccounted
<1>2. Accounted => UsedUp
  BY FrameAssumption DEF Accounted, UsedUp, Frames, OnlyMemory
<1> QED BY InitAccounted, <1>1, <1>2, PTL DEF Spec
=============================================================================
