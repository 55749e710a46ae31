--------------------------- MODULE ConsoleProofs ---------------------------
(***************************************************************************)
(* stop() of cpu.c for every number of CPUs: one of them always stays awake  *)
(* to show the scrollback buffer and to reboot.  putch(), locate() and the    *)
(* viewer for every size of the screen: they stay within their rows, the      *)
(* screen is the end of the buffer, what they write is the page of Terminal,  *)
(* and the viewer finds the last line.  wait_for_key() for every set of keys, *)
(* and what menu() draws for every number of entries.                         *)
(***************************************************************************)
EXTENDS Console, FiniteSetTheorems, TLAPS

MainLabels == {"caption", "menu", "print"}
LockedLabels == {"load", "store", "unlock"}
HaltedLabels == {"unlock", "test", "hlt", "draw", "view", "reboot"}
Labels == MainLabels \cup {"wait", "stop"} \cup LockedLabels \cup HaltedLabels

\* The CPUs that have counted themselves.
Halted == {p \in CPUs : pc[p] \in HaltedLabels}

PlacesInv ==
  /\ pc \in [CPUs -> Labels]
  /\ pc[0] \in MainLabels => \A p \in CPUs : p # 0 => pc[p] = "wait"

MutexInv ==
  /\ \A p \in CPUs : pc[p] \in LockedLabels => m = FALSE
  /\ \A p, q \in CPUs : pc[p] \in LockedLabels /\ pc[q] \in LockedLabels => p = q

\* What the mutex is for: no count is lost.
HaltedInv ==
  /\ cpus_halted \in Nat /\ seen \in [CPUs -> Nat]
  /\ \A p \in CPUs : pc[p] = "store" => seen[p] = cpus_halted
  /\ cpus_halted = Cardinality(Halted)

StopInv == PlacesInv /\ MutexInv /\ HaltedInv /\ SomeoneStays

LEMMA CPUsFinite == 0 \in CPUs /\ IsFiniteSet(CPUs) /\ IsFiniteSet(Halted) /\ Cardinality(CPUs) \in Nat
BY ConsoleAssumption, FS_Subset, FS_CardinalityType DEF Halted

LEMMA InitStopInv == Init => StopInv
<1> SUFFICES ASSUME Init PROVE StopInv
  OBVIOUS
<1>1. /\ pc = [p \in CPUs |-> IF p = 0 THEN "caption" ELSE "wait"]
      /\ cpus_halted = 0 /\ seen = [p \in CPUs |-> 0]
  BY DEF Init
<1>2. Halted = {}
  BY <1>1 DEF Halted, HaltedLabels
<1>3. cpus_halted = Cardinality(Halted)
  BY <1>1, <1>2, FS_EmptySet
<1>. QED  BY <1>1, <1>3, CPUsFinite
     DEF StopInv, PlacesInv, MutexInv, HaltedInv, SomeoneStays, Labels, MainLabels, LockedLabels

\* A step of one CPU that counts nothing and leaves the mutex alone.
LEMMA KeepStop ==
  ASSUME StopInv, NEW p \in CPUs, NEW from, NEW to, Go(p, from, to),
         UNCHANGED <<m, cpus_halted, seen>>, from \in HaltedLabels, to \in HaltedLabels,
         to \notin LockedLabels, SomeoneStays'
  PROVE  StopInv'
<1>1. /\ pc[p] = from /\ pc'[p] = to /\ (\A q \in CPUs : q # p => pc'[q] = pc[q])
      /\ pc' \in [CPUs -> Labels]
  BY DEF Go, StopInv, PlacesInv, Labels
<1>2. PlacesInv'
  BY <1>1, CPUsFinite DEF StopInv, PlacesInv, MainLabels, HaltedLabels
<1>3. MutexInv'
  BY <1>1 DEF StopInv, MutexInv
<1>4. Halted' = Halted
  BY <1>1 DEF Halted
<1>5. HaltedInv'
  BY <1>1, <1>4 DEF StopInv, HaltedInv, HaltedLabels
<1>. QED  BY <1>2, <1>3, <1>5 DEF StopInv

\* A step of main() on CPU 0, before or when all CPUs go to stop().
LEMMA MainStep ==
  ASSUME StopInv, pc[0] \in MainLabels, UNCHANGED <<m, cpus_halted, seen>>,
         \/ pc' = pc
         \/ \E to \in MainLabels : pc' = [pc EXCEPT ![0] = to]
         \/ pc' = [p \in CPUs |-> IF p = 0 THEN "print" ELSE "wait"]
         \/ pc' = [p \in CPUs |-> "stop"]
  PROVE  StopInv'
<1>. USE CPUsFinite
<1>1. \A p \in CPUs : pc[p] \in MainLabels \cup {"wait"}
  BY DEF StopInv, PlacesInv
<1>2. /\ pc' \in [CPUs -> Labels] /\ \A p \in CPUs : pc'[p] \in MainLabels \cup {"wait", "stop"}
      /\ pc'[0] \in MainLabels => \A p \in CPUs : p # 0 => pc'[p] = "wait"
  BY <1>1 DEF StopInv, PlacesInv, MainLabels, Labels
<1>3. PlacesInv'
  BY <1>2 DEF PlacesInv
<1>4. Halted = {} /\ Halted' = {}
  BY <1>1, <1>2 DEF Halted, HaltedLabels, MainLabels
<1>5. MutexInv' /\ HaltedInv' /\ SomeoneStays'
  BY <1>2, <1>4 DEF StopInv, MutexInv, HaltedInv, SomeoneStays, MainLabels, LockedLabels
<1>. QED  BY <1>3, <1>5 DEF StopInv

LEMMA StepStopInv == StopInv /\ [Next]_vars => StopInv'
<1> SUFFICES ASSUME StopInv, [Next]_vars PROVE StopInv'
  OBVIOUS
<1>. USE CPUsFinite
<1>1. CASE DrawCaption
  <2>1. pc[0] = "caption" /\ (pc' = pc \/ pc' = [pc EXCEPT ![0] = "menu"]) /\ UNCHANGED <<m, cpus_halted, seen>>
    BY <1>1 DEF DrawCaption, Go, stopVars
  <2>. QED  BY <2>1, MainStep DEF MainLabels
<1>2. CASE DrawEntry
  <2>1. pc[0] = "menu" /\ pc' = pc /\ UNCHANGED <<m, cpus_halted, seen>>
    BY <1>2 DEF DrawEntry, stopVars
  <2>. QED  BY <2>1, MainStep DEF MainLabels
<1>3. CASE MenuKey
  <2>1. pc[0] = "menu" /\ UNCHANGED <<m, cpus_halted, seen>>
    BY <1>3 DEF MenuKey, stopVars
  <2>2. \/ pc' = pc
        \/ pc' = [p \in CPUs |-> IF selection = 0 THEN (IF p = 0 THEN "print" ELSE "wait") ELSE "stop"]
    BY <1>3 DEF MenuKey
  <2>3. \/ pc' = pc
        \/ pc' = [p \in CPUs |-> IF p = 0 THEN "print" ELSE "wait"]
        \/ pc' = [p \in CPUs |-> "stop"]
    BY <2>2
  <2>. QED  BY <2>1, <2>3, MainStep DEF MainLabels
<1>4. CASE Output
  <2>1. pc[0] = "print" /\ pc' = pc /\ UNCHANGED <<m, cpus_halted, seen>>
    BY <1>4 DEF Output, stopVars
  <2>. QED  BY <2>1, MainStep DEF MainLabels
<1>4a. CASE OutputEnd
  <2>1. pc[0] = "print" /\ pc' = [pc EXCEPT ![0] = "caption"] /\ UNCHANGED <<m, cpus_halted, seen>>
    BY <1>4a DEF OutputEnd, Go, stopVars
  <2>. QED  BY <2>1, MainStep DEF MainLabels
<1>5. ASSUME NEW p \in CPUs, LockStop(p) PROVE StopInv'
  <2>1. /\ m = TRUE /\ m' = FALSE /\ pc[p] = "stop" /\ pc' = [pc EXCEPT ![p] = "load"]
        /\ UNCHANGED <<cpus_halted, seen>>
    BY <1>5 DEF LockStop, Go
  <2>2. pc'[p] = "load" /\ (\A q \in CPUs : q # p => pc'[q] = pc[q]) /\ pc' \in [CPUs -> Labels]
    BY <2>1 DEF StopInv, PlacesInv, Labels, LockedLabels
  <2>3. Halted' = Halted
    BY <2>1, <2>2 DEF Halted, HaltedLabels
  <2>4. \A q \in CPUs : pc[q] \notin LockedLabels
    BY <2>1 DEF StopInv, MutexInv
  <2>. QED  BY <2>1, <2>2, <2>3, <2>4 DEF StopInv, PlacesInv, MutexInv, HaltedInv, SomeoneStays, MainLabels
<1>6. ASSUME NEW p \in CPUs, LoadHalted(p) PROVE StopInv'
  <2>1. /\ pc[p] = "load" /\ pc' = [pc EXCEPT ![p] = "store"] /\ seen' = [seen EXCEPT ![p] = cpus_halted]
        /\ UNCHANGED <<m, cpus_halted>>
    BY <1>6 DEF LoadHalted, Go
  <2>2. /\ pc'[p] = "store" /\ (\A q \in CPUs : q # p => pc'[q] = pc[q]) /\ pc' \in [CPUs -> Labels]
        /\ seen' \in [CPUs -> Nat] /\ seen'[p] = cpus_halted /\ \A q \in CPUs : q # p => seen'[q] = seen[q]
    BY <2>1 DEF StopInv, PlacesInv, HaltedInv, Labels, LockedLabels
  <2>3. Halted' = Halted
    BY <2>1, <2>2 DEF Halted, HaltedLabels
  <2>. QED  BY <2>1, <2>2, <2>3
       DEF StopInv, PlacesInv, MutexInv, HaltedInv, SomeoneStays, MainLabels, LockedLabels
<1>7. ASSUME NEW p \in CPUs, StoreHalted(p) PROVE StopInv'
  <2>1. /\ pc[p] = "store" /\ pc' = [pc EXCEPT ![p] = "unlock"] /\ cpus_halted' = seen[p] + 1
        /\ UNCHANGED <<m, seen>>
    BY <1>7 DEF StoreHalted, Go
  <2>2. pc'[p] = "unlock" /\ (\A q \in CPUs : q # p => pc'[q] = pc[q]) /\ pc' \in [CPUs -> Labels]
    BY <2>1 DEF StopInv, PlacesInv, Labels, LockedLabels
  <2>3. cpus_halted' = cpus_halted + 1 /\ cpus_halted' \in Nat
    BY <2>1 DEF StopInv, HaltedInv
  <2>4. Halted' = Halted \cup {p} /\ p \notin Halted
    BY <2>1, <2>2 DEF Halted, HaltedLabels
  <2>5. cpus_halted' = Cardinality(Halted')
    BY <2>3, <2>4, FS_AddElement DEF StopInv, HaltedInv
  <2>6. \A q \in CPUs : q # p => pc'[q] \notin LockedLabels
    BY <2>1, <2>2 DEF StopInv, MutexInv, LockedLabels
  <2>. QED  BY <2>1, <2>2, <2>3, <2>5, <2>6
       DEF StopInv, PlacesInv, MutexInv, HaltedInv, SomeoneStays, MainLabels, LockedLabels
<1>8. ASSUME NEW p \in CPUs, UnlockStop(p) PROVE StopInv'
  <2>1. /\ pc[p] = "unlock" /\ pc' = [pc EXCEPT ![p] = "test"] /\ UNCHANGED <<cpus_halted, seen>>
    BY <1>8 DEF UnlockStop, Go
  <2>2. pc'[p] = "test" /\ (\A q \in CPUs : q # p => pc'[q] = pc[q]) /\ pc' \in [CPUs -> Labels]
    BY <2>1 DEF StopInv, PlacesInv, Labels, HaltedLabels
  <2>3. Halted' = Halted
    BY <2>1, <2>2 DEF Halted, HaltedLabels
  <2>4. \A q \in CPUs : pc'[q] \notin LockedLabels
    BY <2>1, <2>2 DEF StopInv, MutexInv, LockedLabels
  <2>. QED  BY <2>1, <2>2, <2>3, <2>4
       DEF StopInv, PlacesInv, MutexInv, HaltedInv, SomeoneStays, MainLabels, LockedLabels
<1>9. ASSUME NEW p \in CPUs, TestHalted(p) PROVE StopInv'
  <2>1. UNCHANGED <<m, cpus_halted, seen>> /\ Go(p, "test", IF cpus_halted < cpu_online THEN "hlt" ELSE "draw")
    BY <1>9 DEF TestHalted, stopVars
  <2>2. /\ pc[p] = "test" /\ pc'[p] = (IF cpus_halted < cpu_online THEN "hlt" ELSE "draw")
        /\ \A q \in CPUs : q # p => pc'[q] = pc[q]
    BY <2>1 DEF Go, StopInv, PlacesInv
  <2>3. CASE cpus_halted < cpu_online
    <3>1. Halted # CPUs
      BY <2>3 DEF cpu_online, StopInv, HaltedInv
    <3>2. PICK q \in CPUs : pc[q] \notin HaltedLabels
      BY <3>1 DEF Halted
    <3>3. q # p /\ pc'[q] # "hlt"
      BY <2>2, <3>2 DEF HaltedLabels
    <3>4. SomeoneStays'
      BY <3>3 DEF SomeoneStays
    <3>. QED  BY <2>1, <2>3, <3>4, KeepStop DEF HaltedLabels, LockedLabels
  <2>4. CASE ~(cpus_halted < cpu_online)
    <3>1. SomeoneStays'
      BY <2>2, <2>4 DEF SomeoneStays
    <3>. QED  BY <2>1, <2>4, <3>1, KeepStop DEF HaltedLabels, LockedLabels
  <2>. QED  BY <2>3, <2>4
<1>10. ASSUME NEW p \in CPUs, Draw(p) PROVE StopInv'
  <2>1. UNCHANGED <<m, cpus_halted, seen>> /\ Go(p, "draw", "view")
    BY <1>10 DEF Draw, stopVars
  <2>2. SomeoneStays'
    BY <2>1 DEF Go, SomeoneStays, StopInv, PlacesInv
  <2>. QED  BY <2>1, <2>2, KeepStop DEF HaltedLabels, LockedLabels
<1>11. ASSUME NEW p \in CPUs, ViewKey(p) PROVE StopInv'
  <2>1. UNCHANGED <<m, cpus_halted, seen>> /\ pc[p] = "view"
    BY <1>11 DEF ViewKey
  <2>2. pc' = pc \/ \E to \in {"draw", "reboot"} : Go(p, "view", to)
    BY <1>11 DEF ViewKey, Go
  <2>3. SomeoneStays'
    BY <2>1, <2>2 DEF Go, SomeoneStays, StopInv, PlacesInv
  <2>4. ASSUME pc' = pc PROVE StopInv'
    BY <2>1, <2>3, <2>4 DEF StopInv, PlacesInv, MutexInv, HaltedInv, Halted
  <2>5. ASSUME NEW to \in {"draw", "reboot"}, Go(p, "view", to) PROVE StopInv'
    BY <2>1, <2>3, <2>5, KeepStop DEF HaltedLabels, LockedLabels
  <2>. QED  BY <2>2, <2>4, <2>5
<1>12. ASSUME NEW s \in Scancodes, Send(s) PROVE StopInv'
  BY <1>12 DEF Send, stopVars, StopInv, PlacesInv, MutexInv, HaltedInv, Halted, SomeoneStays
<1>13. CASE UNCHANGED vars
  BY <1>13 DEF vars, stopVars, StopInv, PlacesInv, MutexInv, HaltedInv, Halted, SomeoneStays
<1>. QED
  BY <1>1, <1>2, <1>3, <1>4, <1>4a, <1>5, <1>6, <1>7, <1>8, <1>9, <1>10, <1>11, <1>12, <1>13 DEF Next, Step

\* However many CPUs enter stop() and in whatever order they read the counter
\* again after they gave the mutex back, they do not all go to sleep.
THEOREM OneStaysAwake == Spec => []SomeoneStays
<1>1. StopInv => SomeoneStays
  BY DEF StopInv
<1>. QED  BY <1>1, InitStopInv, StepStopInv, PTL DEF Spec

-----------------------------------------------------------------------------
(* The screen.                                                             *)

\* The cursor is in one of the rows that scroll.
ScreenInv ==
  /\ csr_y \in 1..(H - 1)
  /\ DOMAIN text = 0..H
  /\ StatusKept

LEMMA SizeFacts == H \in Nat /\ H > 1 /\ Entries \in Nat
BY ScreenAssumption, ConsoleAssumption

\* The end of putch(), for a screen whose outer rows are still untouched.
LEMMA FinishKeeps ==
  ASSUME NEW x, NEW y \in 1..H, NEW l, NEW t,
         DOMAIN t = 0..H, t[0] = Row(Old), t[H] = Row(Old), Finish(x, y, l, t)
  PROVE  ScreenInv'
<1>. USE SizeFacts
<1>1. PICK r \in 1..(H + 1) : text' = Scrolled(t, r)
  <2>1. y + 0 \in 1..(H + 1) /\ y + 1 \in 1..(H + 1)
    OBVIOUS
  <2>2. text' = Scrolled(t, y + 0) \/ text' = Scrolled(t, y + 1)
    BY DEF Finish
  <2>. QED  BY <2>1, <2>2
<1>2. DOMAIN text' = 0..H /\ text'[0] = t[0] /\ text'[H] = t[H]
  BY <1>1 DEF Scrolled
<1>3. csr_y' \in 1..(H - 1)
  <2>1. CASE AtEdge(x)
    BY <2>1 DEF Finish
  <2>2. CASE ~AtEdge(x)
    BY <2>2 DEF Finish
  <2>. QED  BY <2>1, <2>2
<1>. QED  BY <1>2, <1>3 DEF ScreenInv, StatusKept, Row

LEMMA PutKeeps ==
  ASSUME ScreenInv,
         (\E ch : PutChar(ch)) \/ PutBackspace \/ PutTab \/ PutReturn \/ PutNewline
  PROVE  ScreenInv'
<1>. USE SizeFacts
<1>4a. csr_y \in 1..H /\ csr_y + 1 \in 1..H /\ DOMAIN text = 0..H /\ text[0] = Row(Old) /\ text[H] = Row(Old)
  BY DEF ScreenInv, StatusKept
<1>1. ASSUME NEW ch, PutChar(ch) PROVE ScreenInv'
  <2> DEFINE t == [text EXCEPT ![csr_y][csr_x] = ch]
  <2>1. DOMAIN t = 0..H /\ t[0] = text[0] /\ t[H] = text[H]
    BY <1>4a DEF ScreenInv
  <2>2. Finish(csr_x + 1, csr_y, buf_y, t)
    BY <1>1 DEF PutChar
  <2>. QED  BY <1>4a, <2>1, <2>2, FinishKeeps
<1>2. CASE PutBackspace
  <2>1. Finish(IF csr_x # 0 THEN csr_x - 1 ELSE 0, csr_y, buf_y, text)
    BY <1>2 DEF PutBackspace
  <2>. QED  BY <1>4a, <2>1, FinishKeeps
<1>3. CASE PutTab
  <2>1. Finish(((csr_x + Tab) \div Tab) * Tab, csr_y, buf_y, text)
    BY <1>3 DEF PutTab
  <2>. QED  BY <1>4a, <2>1, FinishKeeps
<1>4. CASE PutReturn
  <2>1. Finish(0, csr_y, buf_y, text)
    BY <1>4 DEF PutReturn
  <2>. QED  BY <1>4a, <2>1, FinishKeeps
<1>5. CASE PutNewline
  <2>1. Finish(0, csr_y + 1, buf_y + 1, text)
    BY <1>5 DEF PutNewline
  <2>. QED  BY <1>4a, <2>1, FinishKeeps
<1>. QED  BY <1>1, <1>2, <1>3, <1>4, <1>5

LEMMA SameScreen == ScreenInv /\ UNCHANGED screenVars => ScreenInv'
BY DEF ScreenInv, StatusKept, screenVars, Row

LEMMA StepScreenInv == ScreenInv /\ [Next]_vars => ScreenInv'
<1> SUFFICES ASSUME ScreenInv, [Next]_vars PROVE ScreenInv'
  OBVIOUS
<1>1. CASE DrawCaption
  BY <1>1, PutKeeps DEF DrawCaption
<1>2. CASE DrawEntry
  BY <1>2, PutKeeps DEF DrawEntry
<1>3. CASE MenuKey
  <2>1. UNCHANGED screenVars \/ Locate(Height)
    BY <1>3 DEF MenuKey
  <2>2. ASSUME Locate(Height) PROVE ScreenInv'
    <3>1. Entries < csr_y /\ csr_y' = csr_y - Entries /\ UNCHANGED text
      BY <2>2 DEF Locate, Height
    <3>. QED  BY <3>1, SizeFacts DEF ScreenInv, StatusKept, Row
  <2>. QED  BY <2>1, <2>2, SameScreen
<1>4. CASE Output
  BY <1>4, PutKeeps DEF Output
<1>4a. CASE OutputEnd
  BY <1>4a, SameScreen DEF OutputEnd
<1>5. ASSUME NEW p \in CPUs, Draw(p) PROVE ScreenInv'
  <2>1. /\ text' = [r \in 0..H |-> IF r \in 1..(H - 2) THEN Shown(offset_y + r - 1) ELSE text[r]]
        /\ csr_y' = csr_y
    BY <1>5 DEF Draw
  <2>2. DOMAIN text' = 0..H /\ text'[0] = text[0] /\ text'[H] = text[H]
    BY <2>1, SizeFacts
  <2>. QED  BY <2>1, <2>2 DEF ScreenInv, StatusKept, Row
<1>6. ASSUME NEW p \in CPUs,
             LockStop(p) \/ LoadHalted(p) \/ StoreHalted(p) \/ UnlockStop(p) \/ TestHalted(p) \/ ViewKey(p)
      PROVE  ScreenInv'
  <2>1. UNCHANGED screenVars
    BY <1>6 DEF LockStop, LoadHalted, StoreHalted, UnlockStop, TestHalted, ViewKey
  <2>. QED  BY <2>1, SameScreen
<1>7. ASSUME NEW s \in Scancodes, Send(s) PROVE ScreenInv'
  BY <1>7, SameScreen DEF Send
<1>8. CASE UNCHANGED vars
  BY <1>8, SameScreen DEF vars
<1>. QED  BY <1>1, <1>2, <1>3, <1>4, <1>4a, <1>5, <1>6, <1>7, <1>8 DEF Next, Step

\* "Scrolling does not touch the status monitor line" (screen.c, line 252): apart
\* from status_putch(), which is meant to, neither the output, nor the menu that goes
\* back over its lines, nor the rows of the viewer change it or what is behind the
\* screen, whatever the size of the screen.
THEOREM StatusLineKept == Spec => []StatusKept
<1>1. Init => ScreenInv
  <2> SUFFICES ASSUME Init PROVE ScreenInv
    OBVIOUS
  <2>1. csr_y \in 1..(H - 1) /\ text = [r \in 0..H |-> Row(IF r \in csr_y..(H - 1) THEN Blank ELSE Old)]
    BY DEF Init, ScreenInit
  <2>2. text[0] = Row(Old) /\ text[H] = Row(Old)
    BY <2>1, SizeFacts
  <2>. QED  BY <2>1, <2>2 DEF ScreenInv, StatusKept
<1>2. ScreenInv => StatusKept
  BY DEF ScreenInv
<1>. QED  BY <1>1, <1>2, StepScreenInv, PTL DEF Spec

-----------------------------------------------------------------------------
(* The screen and the scrollback buffer of screen.c for every size of the    *)
(* two: the screen shows the end of the buffer, and the buffer is the page    *)
(* that Terminal describes.                                                 *)

Lines == 0..MaxLines

\* The cursor of the screen and that of the buffer are in the same column, and
\* all lines that are written to are in the buffer.
CellInv ==
  /\ ScreenInv
  /\ csr_x \in Columns /\ buf_x = csr_x
  /\ buf_y \in Lines
  /\ DOMAIN buf = 0..(BufSize - 1)
  /\ \A r \in 0..H : DOMAIN text[r] = Columns

\* The rows of the screen are the lines of the buffer a fixed distance away, and
\* the lines the screen has not come to are blank.
TailInv ==
  /\ \A r \in 1..(H - 1) : buf_y - csr_y + r \in Lines => text[r] = BufRow(buf_y - csr_y + r)
  /\ \A l \in Lines : l > buf_y - csr_y + H - 1 => BufRow(l) = Row(Blank)

-----------------------------------------------------------------------------
(* The numbers.                                                            *)

\* Quotient and remainder are unique.
LEMMA Unique ==
  ASSUME NEW n \in Nat \ {0}, NEW a \in Nat, NEW b \in Nat, NEW x \in 0..(n - 1), NEW y \in 0..(n - 1),
         a * n + x = b * n + y
  PROVE  a = b /\ x = y
<1>1. ASSUME NEW c \in Nat, NEW d \in Nat, NEW v \in 0..(n - 1), NEW w \in 0..(n - 1), c < d
      PROVE  c * n + v # d * n + w
  <2>1. d - c - 1 \in Nat /\ d = c + 1 + (d - c - 1)
    BY <1>1
  <2>2. PICK k \in Nat : d = c + 1 + k
    BY <2>1
  <2>3. d * n = c * n + n + k * n /\ k * n \in Nat
    BY <2>2
  <2>. QED  BY <2>3
<1>2. ~(a < b) /\ ~(b < a)
  BY <1>1
<1>. QED  BY <1>2

LEMMA Sizes ==
  /\ H \in Nat /\ H > 1 /\ W \in Nat \ {0} /\ MaxLines \in Nat /\ BufSize \in Nat /\ Tab \in Nat \ {0}
  /\ Columns = 0..(W - 1) /\ Entries \in Nat
BY ScreenAssumption, SizeFacts DEF Columns

\* The lines the program writes to are in the buffer.
LEMMA CellInBuf ==
  ASSUME NEW l \in Lines, NEW x \in Columns
  PROVE  l * W + x \in 0..(BufSize - 1)
<1>. USE Sizes DEF Lines
<1>1. PICK k \in Nat : MaxLines = l + k
  <2>1. MaxLines - l \in Nat /\ MaxLines = l + (MaxLines - l)
    OBVIOUS
  <2>. QED  BY <2>1
<1>2. W * (MaxLines + 1) = l * W + k * W + W /\ k * W \in Nat /\ l * W \in Nat
  BY <1>1
<1>3. W * (MaxLines + 1) <= BufSize
  BY ScreenAssumption
<1>. QED  BY <1>2, <1>3

\* A character that is written changes one column of one line.
LEMMA BufPut ==
  ASSUME CellInv, NEW ch, buf' = [buf EXCEPT ![buf_y * W + buf_x] = ch]
  PROVE  /\ DOMAIN buf' = 0..(BufSize - 1)
         /\ \A l \in Lines : BufRow(l)' = IF l = buf_y THEN [BufRow(l) EXCEPT ![buf_x] = ch] ELSE BufRow(l)
<1>. USE Sizes DEF CellInv
<1>1. DOMAIN buf' = 0..(BufSize - 1)
  OBVIOUS
<1>2. buf_y * W + buf_x \in 0..(BufSize - 1)
  BY CellInBuf
<1>3. ASSUME NEW l \in Lines, NEW x \in Columns
      PROVE  buf'[l * W + x] = IF l = buf_y /\ x = buf_x THEN ch ELSE buf[l * W + x]
  <2>1. l * W + x \in 0..(BufSize - 1)
    BY CellInBuf
  <2>2. CASE l = buf_y /\ x = buf_x
    BY <1>2, <2>2
  <2>3. CASE ~(l = buf_y /\ x = buf_x)
    <3>1. l * W + x # buf_y * W + buf_x
      BY <2>3, Unique DEF Lines
    <3>. QED  BY <1>2, <2>1, <2>3, <3>1
  <2>. QED  BY <2>2, <2>3
<1>4. ASSUME NEW l \in Lines
      PROVE  BufRow(l)' = IF l = buf_y THEN [BufRow(l) EXCEPT ![buf_x] = ch] ELSE BufRow(l)
  <2>1. BufRow(l)' = [x \in Columns |-> buf'[l * W + x]]
    BY DEF BufRow, Columns
  <2>2. CASE l = buf_y
    BY <1>3, <2>1, <2>2 DEF BufRow
  <2>3. CASE l # buf_y
    BY <1>3, <2>1, <2>3 DEF BufRow
  <2>. QED  BY <2>2, <2>3
<1>. QED  BY <1>1, <1>4

-----------------------------------------------------------------------------
(* The end of putch(), for a cursor that has come to column x of row y and of *)
(* line l, and a screen t that has the same character as the buffer.          *)

LEMMA FinishCells ==
  ASSUME NEW x \in Nat, NEW y \in 1..H, NEW l \in Lines, NEW t, AtEdge(x) => l < MaxLines,
         DOMAIN t = 0..H, t[0] = Row(Old), t[H] = Row(Old), \A r \in 0..H : DOMAIN t[r] = Columns,
         DOMAIN buf' = 0..(BufSize - 1), Finish(x, y, l, t)
  PROVE  CellInv'
<1>. USE Sizes
<1>1. ScreenInv'
  BY FinishKeeps
<1>2. csr_x' \in Columns /\ buf_x' = csr_x'
  BY DEF Finish, AtEdge
<1>3. buf_y' \in Lines
  BY DEF Finish, Lines
<1>4. \A r \in 0..H : DOMAIN text'[r] = Columns
  <2>1. PICK n \in 1..(H + 1) : text' = Scrolled(t, n)
    <3>1. text' = Scrolled(t, y + 0) \/ text' = Scrolled(t, y + 1)
      BY DEF Finish
    <3>. QED  BY <3>1
  <2>2. CASE n < H
    BY <2>1, <2>2 DEF Scrolled
  <2>3. CASE ~(n < H)
    <3>1. text' = [r \in 0..H |-> IF r \in 1..(H - 2) THEN t[r + 1] ELSE IF r = H - 1 THEN Row(Blank) ELSE t[r]]
      BY <2>1, <2>3 DEF Scrolled
    <3>2. DOMAIN Row(Blank) = Columns
      BY DEF Row
    <3>. QED  BY <3>1, <3>2
  <2>. QED  BY <2>2, <2>3
<1>. QED  BY <1>1, <1>2, <1>3, <1>4 DEF CellInv, Columns, Lines

LEMMA FinishTail ==
  ASSUME NEW x \in Nat, NEW y \in 1..H, NEW l \in Lines, NEW t, AtEdge(x) => y < H, Finish(x, y, l, t),
         \A r \in 1..(H - 1) : l - y + r \in Lines => t[r] = BufRow(l - y + r)',
         \A k \in Lines : k > l - y + H - 1 => BufRow(k)' = Row(Blank)
  PROVE  TailInv'
<1>. USE Sizes
<1>1. PICK w \in {0, 1} : /\ csr_y' = IF y + w >= H THEN H - 1 ELSE y + w
                          /\ text' = Scrolled(t, y + w) /\ buf_y' = l + w /\ y + w <= H
  <2>1. CASE AtEdge(x)
    BY <2>1 DEF Finish
  <2>2. CASE ~AtEdge(x)
    BY <2>2 DEF Finish
  <2>. QED  BY <2>1, <2>2
<1>2. l \in Int
  BY DEF Lines
<1>3. CASE y + w < H
  <2>1. text' = t /\ csr_y' = y + w /\ buf_y' - csr_y' = l - y
    BY <1>1, <1>2, <1>3 DEF Scrolled
  <2>. QED  BY <2>1 DEF TailInv, Lines, Row, Columns
<1>4. CASE y + w = H
  <2>1. /\ buf_y' - csr_y' = l - y + 1
        /\ text' = [r \in 0..H |-> IF r \in 1..(H - 2) THEN t[r + 1] ELSE IF r = H - 1 THEN Row(Blank) ELSE t[r]]
    <3>1. buf_y' = l + w /\ csr_y' = H - 1 /\ y = H - w
      BY <1>1, <1>4
    <3>2. text' = Scrolled(t, H)
      BY <1>1, <1>4
    <3>. QED  BY <1>2, <3>1, <3>2 DEF Scrolled
  <2>2. ASSUME NEW r \in 1..(H - 1), l - y + 1 + r \in Lines PROVE text'[r] = BufRow(l - y + 1 + r)'
    <3>1. CASE r \in 1..(H - 2)
      <4>1. r + 1 \in 1..(H - 1) /\ l - y + (r + 1) = l - y + 1 + r /\ text'[r] = t[r + 1]
        BY <1>2, <2>1, <3>1
      <4>. QED  BY <2>2, <4>1
    <3>2. CASE r = H - 1
      <4>1. text'[r] = Row(Blank) /\ l - y + 1 + r > l - y + H - 1
        BY <1>2, <2>1, <3>2
      <4>. QED  BY <2>2, <4>1
    <3>. QED  BY <3>1, <3>2
  <2>3. ASSUME NEW k \in Lines, k > l - y + 1 + H - 1 PROVE BufRow(k)' = Row(Blank)
    <3>1. k > l - y + H - 1
      BY <1>2, <2>3 DEF Lines
    <3>. QED  BY <3>1
  <2>. QED  BY <2>1, <2>2, <2>3 DEF TailInv, Lines, Row, Columns
<1>. QED  BY <1>1, <1>3, <1>4

-----------------------------------------------------------------------------
(* The steps.                                                              *)

\* What a call of putch() is to the reader of the buffer.
Writing == (\E ch \in Chars : PutChar(ch)) \/ PutBackspace \/ PutTab \/ PutReturn \/ PutNewline

LEMMA TabStop == ASSUME NEW x \in Nat PROVE (x + Tab) \div Tab = (x \div Tab) + 1
<1>. USE Sizes
<1>1. ASSUME NEW v \in Nat
      PROVE  v \div Tab \in Nat /\ v % Tab \in 0..(Tab - 1) /\ v = (v \div Tab) * Tab + (v % Tab)
  <2>1. v % Tab \in 0..(Tab - 1)
    OBVIOUS
  <2>2. v \div Tab \in Int /\ v \div Tab >= 0
    OBVIOUS
  <2>3. \A d \in Int : d >= 0 => d \in Nat
    OBVIOUS
  <2>4. v = (v \div Tab) * Tab + (v % Tab)
    OBVIOUS
  <2>. QED  BY <2>1, <2>2, <2>3, <2>4
<1>. DEFINE a == x \div Tab
            k == x % Tab
            b == (x + Tab) \div Tab
            n == (x + Tab) % Tab
<1>2. a \in Nat /\ k \in 0..(Tab - 1) /\ x = a * Tab + k
  BY <1>1
<1>3. b \in Nat /\ n \in 0..(Tab - 1) /\ x + Tab = b * Tab + n
  <2>1. x + Tab \in Nat
    OBVIOUS
  <2>. QED  BY <1>1, <2>1
<1>. HIDE DEF a, k, b, n
<1>4. a + 1 \in Nat /\ (a + 1) * Tab + k = b * Tab + n
  BY <1>2, <1>3
<1>5. a + 1 = b
  BY <1>2, <1>3, <1>4, Unique
<1>. QED  BY <1>5 DEF a, b

\* A step that leaves the characters where they are.
LEMMA MoveTail ==
  ASSUME CellInv, TailInv, UNCHANGED buf, NEW x \in Nat, NEW d \in {0, 1}, d = 1 => x = 0,
         d = 1 \/ AtEdge(x) => buf_y < MaxLines, Finish(x, csr_y + d, buf_y + d, text)
  PROVE  CellInv' /\ TailInv'
<1>. USE Sizes
<1>1. /\ csr_y \in 1..(H - 1) /\ csr_y + d \in 1..H /\ buf_y \in Int /\ buf_y + d \in Lines
      /\ DOMAIN text = 0..H /\ text[0] = Row(Old) /\ text[H] = Row(Old)
  BY DEF CellInv, ScreenInv, StatusKept, Lines
<1>2. ~AtEdge(0)
  BY DEF AtEdge
<1>3. (AtEdge(x) => buf_y + d < MaxLines) /\ (AtEdge(x) => csr_y + d < H)
  BY <1>1, <1>2
<1>4. \A l \in Lines : BufRow(l)' = BufRow(l)
  BY DEF BufRow, Columns
<1>5. CellInv'
  BY <1>1, <1>3, FinishCells DEF CellInv
<1>6. PICK l \in Lines, y \in 1..H : l = buf_y + d /\ y = csr_y + d /\ l - y = buf_y - csr_y
  BY <1>1
<1>7. \A r \in 1..(H - 1) : l - y + r \in Lines => text[r] = BufRow(l - y + r)'
  BY <1>4, <1>6 DEF TailInv
<1>8. \A k \in Lines : k > l - y + H - 1 => BufRow(k)' = Row(Blank)
  BY <1>4, <1>6 DEF TailInv
<1>9. Finish(x, y, l, text) /\ (AtEdge(x) => y < H)
  BY <1>3, <1>6
<1>10. TailInv'
  BY <1>7, <1>8, <1>9, FinishTail
<1>. QED  BY <1>5, <1>10

LEMMA CharTail ==
  ASSUME CellInv, TailInv, NEW ch, PutChar(ch)
  PROVE  CellInv' /\ TailInv'
<1>. USE Sizes
<1>. DEFINE t == [text EXCEPT ![csr_y][csr_x] = ch]
<1>1. /\ csr_y \in 1..(H - 1) /\ csr_y \in 1..H /\ buf_y \in Int /\ buf_y \in Lines /\ csr_x \in Columns
      /\ DOMAIN text = 0..H /\ text[0] = Row(Old) /\ text[H] = Row(Old)
  BY DEF CellInv, ScreenInv, StatusKept, Lines
<1>2. /\ DOMAIN t = 0..H /\ t[0] = Row(Old) /\ t[H] = Row(Old) /\ (\A r \in 0..H : DOMAIN t[r] = Columns)
      /\ \A r \in 0..H : t[r] = IF r = csr_y THEN [text[r] EXCEPT ![csr_x] = ch] ELSE text[r]
  BY <1>1 DEF CellInv
<1>3. /\ DOMAIN buf' = 0..(BufSize - 1)
      /\ \A l \in Lines : BufRow(l)' = IF l = buf_y THEN [BufRow(l) EXCEPT ![csr_x] = ch] ELSE BufRow(l)
  <2>1. buf' = [buf EXCEPT ![buf_y * W + buf_x] = ch] /\ buf_x = csr_x
    BY DEF PutChar, CellInv
  <2>. QED  BY <2>1, BufPut
<1>4. csr_x + 1 \in Nat /\ Finish(csr_x + 1, csr_y, buf_y, t) /\ buf_y < MaxLines
  BY <1>1 DEF PutChar
<1>. HIDE DEF t
<1>5. CellInv'
  BY <1>1, <1>2, <1>3, <1>4, FinishCells
<1>6. PICK l \in Lines, y \in 1..H : l = buf_y /\ y = csr_y
  BY <1>1
<1>7. ASSUME NEW r \in 1..(H - 1), l - y + r \in Lines
      PROVE  t[r] = BufRow(l - y + r)'
  <2>1. text[r] = BufRow(l - y + r)
    BY <1>6, <1>7 DEF TailInv
  <2>2. r \in 0..H /\ (l - y + r = l <=> r = y)
    BY <1>1, <1>6
  <2>3. t[r] = IF r = y THEN [text[r] EXCEPT ![csr_x] = ch] ELSE text[r]
    BY <1>2, <1>6, <2>2
  <2>4. BufRow(l - y + r)' = IF l - y + r = l THEN [BufRow(l - y + r) EXCEPT ![csr_x] = ch] ELSE BufRow(l - y + r)
    BY <1>3, <1>6, <1>7
  <2>. QED  BY <2>1, <2>2, <2>3, <2>4
<1>8. ASSUME NEW k \in Lines, k > l - y + H - 1 PROVE BufRow(k)' = Row(Blank)
  <2>1. k # buf_y
    BY <1>1, <1>6, <1>8
  <2>. QED  BY <1>3, <1>6, <1>8, <2>1 DEF TailInv
<1>9. Finish(csr_x + 1, y, l, t) /\ (AtEdge(csr_x + 1) => y < H)
  BY <1>1, <1>4, <1>6
<1>10. TailInv'
  BY <1>4, <1>7, <1>8, <1>9, FinishTail
<1>. QED  BY <1>5, <1>10

LEMMA WriteTail == CellInv /\ TailInv /\ Writing => CellInv' /\ TailInv'
<1> SUFFICES ASSUME CellInv, TailInv, Writing PROVE CellInv' /\ TailInv'
  OBVIOUS
<1>. USE Sizes
<1>0. csr_x \in Nat /\ csr_x < W /\ csr_y \in Int /\ buf_y \in Int /\ csr_y + 0 = csr_y /\ buf_y + 0 = buf_y
  BY DEF CellInv, ScreenInv, Lines, Columns
<1>1. CASE \E ch \in Chars : PutChar(ch)
  BY <1>1, CharTail
<1>2. CASE PutBackspace
  <2>. DEFINE x == IF csr_x # 0 THEN csr_x - 1 ELSE 0
  <2>1. x \in Nat /\ ~AtEdge(x)
    BY <1>0 DEF AtEdge
  <2>2. Finish(x, csr_y + 0, buf_y + 0, text) /\ UNCHANGED buf
    BY <1>0, <1>2 DEF PutBackspace
  <2>. HIDE DEF x
  <2>. QED  BY <2>1, <2>2, MoveTail
<1>3. CASE PutTab
  <2>. DEFINE x == ((csr_x + Tab) \div Tab) * Tab
  <2>1. x \in Nat
    <3>1. csr_x + Tab \in Nat
      BY <1>0
    <3>2. (csr_x + Tab) \div Tab \in Int /\ (csr_x + Tab) \div Tab >= 0
      BY <3>1
    <3>3. \A q \in Int : q >= 0 => q * Tab \in Nat
      OBVIOUS
    <3>. QED  BY <3>2, <3>3
  <2>2. Finish(x, csr_y + 0, buf_y + 0, text) /\ UNCHANGED buf /\ buf_y < MaxLines
    BY <1>0, <1>3 DEF PutTab
  <2>. HIDE DEF x
  <2>. QED  BY <2>1, <2>2, MoveTail
<1>4. CASE PutReturn
  <2>1. Finish(0, csr_y + 0, buf_y + 0, text) /\ UNCHANGED buf /\ ~AtEdge(0)
    BY <1>0, <1>4 DEF PutReturn, AtEdge
  <2>. QED  BY <2>1, MoveTail
<1>5. CASE PutNewline
  <2>1. Finish(0, csr_y + 1, buf_y + 1, text) /\ UNCHANGED buf /\ buf_y < MaxLines
    BY <1>5 DEF PutNewline
  <2>. QED  BY <2>1, MoveTail
<1>. QED  BY <1>1, <1>2, <1>3, <1>4, <1>5 DEF Writing

LEMMA LocateTail == CellInv /\ TailInv /\ Locate(Height) => CellInv' /\ TailInv'
<1> SUFFICES ASSUME CellInv, TailInv, Locate(Height) PROVE CellInv' /\ TailInv'
  OBVIOUS
<1>. USE Sizes
<1>1. /\ Entries < csr_y /\ Entries <= buf_y /\ csr_x' = 0 /\ buf_x' = 0
      /\ csr_y' = csr_y - Entries /\ buf_y' = buf_y - Entries /\ UNCHANGED <<text, buf>>
  BY DEF Locate, Height
<1>2. csr_y \in 1..(H - 1) /\ buf_y \in Lines /\ buf_y \in Int
  BY DEF CellInv, ScreenInv, Lines
<1>3. buf_y' - csr_y' = buf_y - csr_y /\ buf_y' \in Lines /\ csr_y' \in 1..(H - 1)
  BY <1>1, <1>2 DEF Lines
<1>4. CellInv'
  BY <1>1, <1>3 DEF CellInv, ScreenInv, StatusKept, Row, Columns, Lines
<1>5. \A l \in Lines : BufRow(l)' = BufRow(l)
  BY <1>1 DEF BufRow, Columns
<1>6. TailInv'
  <2>1. buf_y' - csr_y' = buf_y - csr_y /\ text' = text
    BY <1>1, <1>3
  <2>. QED  BY <2>1, <1>5 DEF TailInv
<1>. QED  BY <1>4, <1>6

\* What holds in the whole system: until stop() the screen shows the buffer.
OutputInv ==
  /\ PlacesInv
  /\ CellInv
  /\ pc[0] \in MainLabels => TailInv
  /\ u \in Nat

LEMMA SameOutput ==
  ASSUME CellInv, UNCHANGED screenVars
  PROVE  CellInv' /\ (TailInv => TailInv')
BY DEF CellInv, ScreenInv, StatusKept, TailInv, BufRow, Row, Columns, Lines, screenVars

\* Which steps write to the screen.
LEMMA StepKinds ==
  ASSUME OutputInv, [Next]_vars
  PROVE  \/ pc[0] \in MainLabels /\ (Writing \/ Locate(Height))
         \/ (pc'[0] \in MainLabels => pc[0] \in MainLabels) /\ UNCHANGED screenVars
         \/ pc[0] \notin MainLabels /\ pc'[0] \notin MainLabels /\ \E p \in CPUs : Draw(p)
<1>. USE CPUsFinite
<1>1. CASE DrawCaption
  <2>1. Caption \in Chars
    BY ConsoleAssumption
  <2>. QED  BY <1>1, <2>1 DEF DrawCaption, Writing, MainLabels
<1>2. CASE DrawEntry
  <2>1. u < Entries /\ u \in Nat /\ Entries \in Nat
    BY <1>2, Sizes DEF DrawEntry, OutputInv
  <2>2. {Plain(u), Marked(u)} \subseteq Chars
    BY <2>1, ConsoleAssumption
  <2>3. Look(u) \in Chars
    BY <2>2 DEF Look
  <2>. QED  BY <1>2, <2>3 DEF DrawEntry, Writing, MainLabels
<1>3. CASE MenuKey
  BY <1>3 DEF MenuKey, MainLabels
<1>4. CASE Output
  <2>1. Printed \subseteq Chars
    BY ConsoleAssumption
  <2>. QED  BY <1>4, <2>1 DEF Output, Writing, MainLabels
<1>4a. CASE OutputEnd
  BY <1>4a DEF OutputEnd, Go, MainLabels
<1>5. ASSUME NEW p \in CPUs,
             LockStop(p) \/ LoadHalted(p) \/ StoreHalted(p) \/ UnlockStop(p) \/ TestHalted(p) \/ ViewKey(p)
      PROVE  (pc'[0] \in MainLabels => pc[0] \in MainLabels) /\ UNCHANGED screenVars
  <2>1. UNCHANGED screenVars
    BY <1>5 DEF LockStop, LoadHalted, StoreHalted, UnlockStop, TestHalted, ViewKey
  <2>2. \/ pc' = pc
        \/ \E to \in {"load", "store", "unlock", "test", "hlt", "draw", "reboot"} : pc' = [pc EXCEPT ![p] = to]
    BY <1>5 DEF LockStop, LoadHalted, StoreHalted, UnlockStop, TestHalted, ViewKey, Go
  <2>. QED  BY <2>1, <2>2 DEF MainLabels, OutputInv, PlacesInv
<1>6. ASSUME NEW p \in CPUs, Draw(p)
      PROVE  pc[0] \notin MainLabels /\ pc'[0] \notin MainLabels
  <2>1. pc[p] = "draw" /\ pc' = [pc EXCEPT ![p] = "view"]
    BY <1>6 DEF Draw, Go
  <2>. QED  BY <2>1 DEF MainLabels, OutputInv, PlacesInv
<1>7. ASSUME NEW s \in Scancodes, Send(s) PROVE pc' = pc /\ UNCHANGED screenVars
  BY <1>7 DEF Send
<1>8. CASE UNCHANGED vars
  BY <1>8 DEF vars
<1>. QED  BY <1>1, <1>2, <1>3, <1>4, <1>4a, <1>5, <1>6, <1>7, <1>8 DEF Next, Step

LEMMA DrawCells == ASSUME CellInv, NEW p \in CPUs, Draw(p) PROVE CellInv'
<1>. USE Sizes
<1>1. /\ text' = [r \in 0..H |-> IF r \in 1..(H - 2) THEN Shown(offset_y + r - 1) ELSE text[r]]
      /\ UNCHANGED <<csr_x, csr_y, buf, buf_x, buf_y>>
  BY DEF Draw
<1>2. \A r \in 1..(H - 2) : DOMAIN Shown(offset_y + r - 1) = Columns
  BY DEF Shown, Row
<1>3. DOMAIN text' = 0..H /\ text'[0] = text[0] /\ text'[H] = text[H] /\ \A r \in 0..H : DOMAIN text'[r] = Columns
  BY <1>1, <1>2 DEF CellInv
<1>. QED  BY <1>1, <1>3 DEF CellInv, ScreenInv, StatusKept, Row, Columns, Lines

LEMMA EntryNat == ASSUME OutputInv, [Next]_vars PROVE u' \in Nat
<1>1. CASE DrawEntry
  BY <1>1 DEF DrawEntry, OutputInv
<1>2. CASE MenuKey
  BY <1>2 DEF MenuKey, OutputInv, menuVars
<1>2a. CASE OutputEnd
  BY <1>2a DEF OutputEnd
<1>3. UNCHANGED u \/ DrawEntry \/ MenuKey \/ OutputEnd
  BY DEF Next, Step, DrawCaption, Output, LockStop, LoadHalted, StoreHalted, UnlockStop, TestHalted, ViewKey, Draw,
         Send, vars, menuVars
<1>. QED  BY <1>1, <1>2, <1>2a, <1>3 DEF OutputInv

LEMMA StepOutputInv == OutputInv /\ PlacesInv' /\ [Next]_vars => OutputInv'
<1> SUFFICES ASSUME OutputInv, PlacesInv', [Next]_vars PROVE OutputInv'
  OBVIOUS
<1>1. CASE pc[0] \in MainLabels /\ (Writing \/ Locate(Height))
  <2>1. CellInv' /\ TailInv'
    BY <1>1, WriteTail, LocateTail DEF OutputInv
  <2>. QED  BY <2>1, EntryNat DEF OutputInv
<1>2. CASE (pc'[0] \in MainLabels => pc[0] \in MainLabels) /\ UNCHANGED screenVars
  BY <1>2, SameOutput, EntryNat DEF OutputInv
<1>3. CASE pc'[0] \notin MainLabels /\ \E p \in CPUs : Draw(p)
  BY <1>3, DrawCells, EntryNat DEF OutputInv
<1>. QED  BY <1>1, <1>2, <1>3, StepKinds

LEMMA InitOutputInv == Init => OutputInv
<1> SUFFICES ASSUME Init PROVE OutputInv
  OBVIOUS
<1>. USE Sizes
<1>1. PlacesInv
  BY InitStopInv DEF StopInv
<1>2. /\ csr_x = 0 /\ csr_y \in 1..(H - 1) /\ buf_x = 0 /\ buf_y = 0 /\ u = 0
      /\ text = [r \in 0..H |-> Row(IF r \in csr_y..(H - 1) THEN Blank ELSE Old)]
      /\ buf = [i \in 0..(BufSize - 1) |-> Blank]
  BY DEF Init, ScreenInit
<1>3. \A l \in Lines : BufRow(l) = Row(Blank)
  <2>1. \A l \in Lines, x \in Columns : buf[l * W + x] = Blank
    BY <1>2, CellInBuf
  <2>. QED  BY <2>1 DEF BufRow, Row
<1>4. \A r \in 0..H : DOMAIN text[r] = Columns
  BY <1>2 DEF Row
<1>5. text[0] = Row(Old) /\ text[H] = Row(Old) /\ DOMAIN text = 0..H
  BY <1>2
<1>6. CellInv
  BY <1>2, <1>4, <1>5 DEF CellInv, ScreenInv, StatusKept, Columns, Lines
<1>7. ASSUME NEW r \in 1..(H - 1), buf_y - csr_y + r \in Lines PROVE text[r] = Row(Blank)
  <2>1. r \in csr_y..(H - 1) /\ r \in 0..H
    BY <1>2, <1>7 DEF Lines
  <2>. QED  BY <1>2, <2>1
<1>8. TailInv
  BY <1>3, <1>7 DEF TailInv
<1>. QED  BY <1>1, <1>2, <1>6, <1>8 DEF OutputInv

LEMMA OutputInvariance == Spec => [](StopInv /\ OutputInv)
<1>1. Init => StopInv /\ OutputInv
  BY InitStopInv, InitOutputInv
<1>2. StopInv /\ OutputInv /\ [Next]_vars => (StopInv /\ OutputInv)'
  <2> SUFFICES ASSUME StopInv, OutputInv, [Next]_vars PROVE StopInv' /\ OutputInv'
    OBVIOUS
  <2>1. StopInv'
    BY StepStopInv
  <2>. QED  BY <2>1, StepOutputInv DEF StopInv
<1>. QED  BY <1>1, <1>2, PTL DEF Spec

\* As long as main() runs, each row of the screen that is below the lines of the
\* buffer's beginning has the text of its line in the scrollback buffer: scrolling,
\* the wrap at the edge and the way back of menu() move both cursors alike.
THEOREM TailShown == Spec => []ShowsTailOfOutput
<1>1. OutputInv => ShowsTailOfOutput
  <2> SUFFICES ASSUME OutputInv, pc[0] \in MainLabels, NEW r \in 1..(H - 1),
                      buf_y - (csr_y - r) \in Lines
               PROVE  text[r] = BufRow(buf_y - (csr_y - r))
    BY DEF ShowsTailOfOutput, ShowsTail, MainLabels, Lines
  <2>1. buf_y - (csr_y - r) = buf_y - csr_y + r
    BY Sizes DEF OutputInv, CellInv, ScreenInv, Lines
  <2>. QED  BY <2>1 DEF OutputInv, TailInv
<1>. QED  BY <1>1, OutputInvariance, PTL

-----------------------------------------------------------------------------
(* The scrollback buffer implements the page of Terminal.                  *)

pageVars == <<Page, buf_y, buf_x>>

LEMMA SamePage == UNCHANGED buf => UNCHANGED Page
BY DEF Page, BufRow, Columns

LEMMA WritingMaps == CellInv /\ Writing => [Term!Next]_pageVars
<1> SUFFICES ASSUME CellInv, Writing PROVE [Term!Next]_pageVars
  OBVIOUS
<1>. USE Sizes
<1>0. csr_x \in Nat /\ csr_x < W /\ buf_x = csr_x /\ buf_y \in Lines /\ buf_y \in Int
  BY DEF CellInv, Columns, Lines
<1>1. ASSUME NEW ch \in Chars, PutChar(ch) PROVE Term!Next
  <2>1. buf' = [buf EXCEPT ![buf_y * W + buf_x] = ch]
    BY <1>1 DEF PutChar
  <2>2. Page' = [l \in Lines |-> BufRow(l)']
    BY DEF Page, Lines
  <2>3. Page' = [Page EXCEPT ![buf_y][buf_x] = ch]
    BY <1>0, <2>1, <2>2, BufPut DEF Page, Lines
  <2>4. Term!MoveTo(buf_x + 1)
    BY <1>0, <1>1 DEF PutChar, Finish, AtEdge, Term!MoveTo
  <2>. QED  BY <2>3, <2>4 DEF Term!Put, Term!Next
<1>2. ASSUME PutBackspace PROVE Term!Next
  <2>1. Finish(IF csr_x # 0 THEN csr_x - 1 ELSE 0, csr_y, buf_y, text) /\ UNCHANGED Page
    BY <1>2, SamePage DEF PutBackspace
  <2>2. CASE csr_x = 0
    BY <1>0, <2>1, <2>2 DEF Finish, AtEdge, Term!MoveTo, Term!Return, Term!Next
  <2>3. CASE csr_x # 0
    BY <1>0, <2>1, <2>3 DEF Finish, AtEdge, Term!MoveTo, Term!Back, Term!Next
  <2>. QED  BY <2>2, <2>3
<1>3. ASSUME PutTab PROVE Term!Next
  <2>1. Finish(((csr_x + Tab) \div Tab) * Tab, csr_y, buf_y, text) /\ UNCHANGED Page
    BY <1>3, SamePage DEF PutTab
  <2>2. (csr_x + Tab) \div Tab = (buf_x \div Tab) + 1
    BY <1>0, TabStop
  <2>3. Term!MoveTo(((buf_x \div Tab) + 1) * Tab)
    BY <1>0, <2>1, <2>2 DEF Finish, AtEdge, Term!MoveTo
  <2>. QED  BY <2>1, <2>3 DEF Term!Tabulate, Term!Next
<1>4. ASSUME PutReturn PROVE Term!Next
  BY <1>0, <1>4, SamePage DEF PutReturn, Finish, AtEdge, Term!MoveTo, Term!Return, Term!Next
<1>5. ASSUME PutNewline PROVE Term!Next
  BY <1>0, <1>5, SamePage DEF PutNewline, Finish, AtEdge, Term!NewLine, Term!Next
<1>. QED  BY <1>1, <1>2, <1>3, <1>4, <1>5 DEF Writing

LEMMA StepMaps == OutputInv /\ [Next]_vars => [Term!Next]_pageVars
<1> SUFFICES ASSUME OutputInv, [Next]_vars PROVE [Term!Next]_pageVars
  OBVIOUS
<1>1. CASE Writing
  BY <1>1, WritingMaps DEF OutputInv
<1>2. CASE Locate(Height)
  <2>1. /\ Entries <= buf_y /\ buf_x' = 0 /\ buf_y' = buf_y - Entries /\ UNCHANGED Page
    BY <1>2, SamePage DEF Locate, Height
  <2>2. buf_y' \in 0..buf_y
    BY <2>1, Sizes DEF OutputInv, CellInv, Lines
  <2>. QED  BY <2>1, <2>2 DEF Term!Up, Term!Next
<1>3. CASE UNCHANGED screenVars
  BY <1>3, SamePage DEF screenVars, pageVars
<1>4. ASSUME NEW p \in CPUs, Draw(p) PROVE UNCHANGED pageVars
  BY <1>4, SamePage DEF Draw, pageVars
<1>. QED  BY <1>1, <1>2, <1>3, <1>4, StepKinds

LEMMA InitMaps == Init => Term!Init
<1> SUFFICES ASSUME Init PROVE Term!Init
  OBVIOUS
<1>1. buf = [i \in 0..(BufSize - 1) |-> Blank] /\ buf_y = 0 /\ buf_x = 0
  BY DEF Init, ScreenInit
<1>2. \A l \in Lines, x \in Columns : buf[l * W + x] = Blank
  BY <1>1, CellInBuf, Sizes
<1>3. Lines = 0..MaxLines /\ (MaxLines + 1) - 1 = MaxLines /\ Columns = 0..(W - 1)
  BY Sizes DEF Lines, Columns
<1>4. Page = [l \in 0..MaxLines |-> [x \in Columns |-> Blank]]
  BY <1>2, <1>3 DEF Page, BufRow
<1>. QED  BY <1>1, <1>3, <1>4 DEF Term!Init

\* The scrollback buffer is a page with a cursor: each call of putch() and of
\* locate() does to it what Terminal says, and nothing else touches it.
THEOREM PageKept == Spec => KeepsPage
<1>1. Init => Term!Init
  BY InitMaps
<1>2. OutputInv /\ [Next]_vars => [Term!Next]_<<Page, buf_y, buf_x>>
  BY StepMaps DEF pageVars
<1>3. Spec => []OutputInv
  BY OutputInvariance, PTL
<1>. QED  BY <1>1, <1>2, <1>3, PTL DEF Spec, KeepsPage, Term!Spec

-----------------------------------------------------------------------------
(* The viewer.                                                             *)

EndInv == pc[0] \notin MainLabels /\ key = "END" => buf_y \in offset_y..(offset_y + H - 3)

LEMMA EndOfBuffer ==
  ASSUME CellInv
  PROVE  buf_y \in Clamp(PageUp(buf_y))..(Clamp(PageUp(buf_y)) + H - 3)
<1>. USE Sizes
<1>1. /\ PageStep \in 1..(H - 3) /\ BufSize \in Nat /\ BufSize >= W * (MaxLines + 1) /\ W \in Nat \ {0}
      /\ MaxLines \in Nat
  BY ConsoleAssumption, ScreenAssumption
<1>2. W * (MaxLines + 1) >= MaxLines + 1
  BY <1>1
<1>3. buf_y \in Nat /\ buf_y <= BufSize
  BY <1>1, <1>2 DEF CellInv, Lines
<1>4. /\ PageUp(buf_y) \in 0..BufSize
      /\ PageUp(buf_y) <= buf_y /\ buf_y <= PageUp(buf_y) + PageStep
  BY <1>1, <1>3 DEF PageUp
<1>5. Clamp(PageUp(buf_y)) = PageUp(buf_y)
  BY <1>1, <1>4 DEF Clamp
<1>. QED  BY <1>1, <1>3, <1>4, <1>5

LEMMA StepEnd == ASSUME OutputInv, EndInv, [Next]_vars PROVE EndInv'
<1>. USE CPUsFinite
<1>1. CASE MenuKey
  <2>1. pc' = pc \/ key' = "ENTER"
    BY <1>1 DEF MenuKey
  <2>2. pc' = pc => pc'[0] \in MainLabels
    BY <1>1 DEF MenuKey, MainLabels
  <2>. QED  BY <2>1, <2>2 DEF EndInv
<1>2. CASE DrawCaption \/ DrawEntry \/ Output \/ OutputEnd
  <2>1. pc' = pc \/ pc' = [pc EXCEPT ![0] = "menu"] \/ pc' = [pc EXCEPT ![0] = "caption"]
    BY <1>2 DEF DrawCaption, DrawEntry, Output, OutputEnd, Go
  <2>2. pc[0] \in MainLabels
    BY <1>2 DEF DrawCaption, DrawEntry, Output, OutputEnd, Go, MainLabels
  <2>3. pc'[0] \in MainLabels
    BY <2>1, <2>2 DEF OutputInv, PlacesInv, MainLabels
  <2>. QED  BY <2>3 DEF EndInv
<1>3. ASSUME NEW p \in CPUs, ViewKey(p) PROVE EndInv'
  <2>1. offset_y' = Clamp(Scroll(key')) /\ UNCHANGED buf_y
    BY <1>3 DEF ViewKey, screenVars
  <2>2. ASSUME key' = "END" PROVE offset_y' = Clamp(PageUp(buf_y))
    <3>1. Scroll("END") = PageUp(buf_y)
      <4>1. "END" # "UP" /\ "END" # "DOWN" /\ "END" # "PGDOWN" /\ "END" # "HOME" /\ "END" # "PGUP"
        OBVIOUS
      <4>. QED  BY <4>1, Zenon DEF Scroll
    <3>. QED  BY <2>1, <2>2, <3>1
  <2>. QED  BY <2>1, <2>2, EndOfBuffer DEF EndInv, OutputInv
<1>4. ASSUME NEW p \in CPUs,
             LockStop(p) \/ LoadHalted(p) \/ StoreHalted(p) \/ UnlockStop(p) \/ TestHalted(p) \/ Draw(p)
      PROVE  EndInv'
  <2>1. UNCHANGED <<buf_y, key, offset_y>>
    BY <1>4 DEF LockStop, LoadHalted, StoreHalted, UnlockStop, TestHalted, Draw, screenVars, keyVars, stopVars
  <2>2. /\ pc[p] \in {"stop", "load", "store", "unlock", "test", "draw"}
        /\ \E to \in {"load", "store", "unlock", "test", "hlt", "draw", "view"} : pc' = [pc EXCEPT ![p] = to]
    BY <1>4 DEF LockStop, LoadHalted, StoreHalted, UnlockStop, TestHalted, Draw, Go
  <2>3. pc[0] \in MainLabels => pc'[0] \in MainLabels
    BY <2>2 DEF OutputInv, PlacesInv, MainLabels
  <2>. QED  BY <2>1, <2>2, <2>3 DEF EndInv, OutputInv, PlacesInv, MainLabels
<1>5. CASE UNCHANGED <<buf_y, key, offset_y, pc>>
  BY <1>5 DEF EndInv
<1>6. ASSUME NEW s \in Scancodes, Send(s) PROVE UNCHANGED <<buf_y, key, offset_y, pc>>
  BY <1>6 DEF Send, screenVars, stopVars
<1>7. UNCHANGED vars => UNCHANGED <<buf_y, key, offset_y, pc>>
  BY DEF vars, screenVars, keyVars, stopVars
<1>. QED  BY <1>1, <1>2, <1>3, <1>4, <1>5, <1>6, <1>7 DEF Next, Step

\* KEY_END in the viewer shows the last line that was printed, for every size of
\* screen and buffer: the page it goes back fits into the rows of the viewer.
THEOREM LastLineShown == Spec => []EndShowsLast
<1>1. Init => EndInv
  BY CPUsFinite DEF Init, EndInv, MainLabels
<1>2. OutputInv /\ EndInv /\ [Next]_vars => EndInv'
  BY StepEnd
<1>3. OutputInv /\ EndInv => EndShowsLast
  <2> SUFFICES ASSUME OutputInv, EndInv, NEW p \in CPUs, pc[p] = "view", key = "END"
               PROVE  buf_y \in offset_y..(offset_y + H - 3)
    BY DEF EndShowsLast
  <2>1. pc[0] \notin MainLabels
    BY CPUsFinite DEF OutputInv, PlacesInv, MainLabels
  <2>. QED  BY <2>1 DEF EndInv
<1>. QED  BY <1>1, <1>2, <1>3, OutputInvariance, PTL DEF Spec

-----------------------------------------------------------------------------
(* The keyboard.                                                           *)

\* Where in the stream of bytes each of the codes begins: st[i] bytes are before the
\* i-th, and st[Len(codes) + 1] are sent in all.
Starts(st, codes) ==
  /\ st \in [1..(Len(codes) + 1) -> Int] /\ st[1] = 0
  /\ \A i \in 1..Len(codes) : st[i + 1] = st[i] + Len(codes[i])
  /\ \A i \in 1..Len(codes), j \in 1..(Len(codes) + 1) : i < j => st[j] >= st[i] + Len(codes[i])

\* The bytes are those of the stream, without the ones that are read.
Holds(st, codes, bytes, read) ==
  /\ Len(bytes) = st[Len(codes) + 1] - read
  /\ \A i \in 1..Len(codes), x \in 1..3 :
       x <= Len(codes[i]) /\ st[i] + x > read => bytes[st[i] + x - read] = codes[i][x]

Stream(codes, bytes, read) ==
  /\ bytes \in Seq(Byte) /\ codes \in Seq(Codes) /\ read \in Nat
  /\ \E st \in [1..(Len(codes) + 1) -> Int] : Starts(st, codes) /\ Holds(st, codes, bytes, read)

\* What keyboard_get_scancode() remembers of the first scancode.
PrefixInv ==
  /\ got \in 0..2
  /\ sent = <<>> => got = 0
  /\ sent # <<>> => got < Len(sent[1])
  /\ got = 0 => e0_code = 0 /\ e1_code = 0
  /\ got = 1 => IF sent[1][1] = 224 THEN e0_code = 1 /\ e1_code = 0
                                    ELSE sent[1][1] = 225 /\ e0_code = 0 /\ e1_code = 1
  /\ got = 2 => sent[1][1] = 225 /\ e0_code = 0 /\ e1_code = 2 /\ e1_prev = sent[1][2]

KeysInv == Stream(sent, kbc, got) /\ PrefixInv

LEMMA CodeShape ==
  ASSUME NEW s \in Codes
  PROVE  /\ s \in Seq(Byte) /\ Len(s) \in 1..3
         /\ \/ Len(s) = 1 /\ s = <<s[1]>> /\ s[1] \notin {224, 225}
            \/ Len(s) = 2 /\ s = <<224, s[2]>> /\ s[1] = 224
            \/ Len(s) = 3 /\ s = <<225, s[2], s[3]>> /\ s[1] = 225 /\ s[2] \in {29, 157}
<1>1. CASE s \in {<<b>> : b \in Byte \ {224, 225}}
  <2>1. PICK b \in Byte \ {224, 225} : s = <<b>>
    BY <1>1
  <2>. QED  BY <2>1 DEF Byte
<1>2. CASE s \in {<<224, b>> : b \in Byte}
  <2>1. PICK b \in Byte : s = <<224, b>>
    BY <1>2
  <2>. QED  BY <2>1 DEF Byte
<1>3. CASE s \in {<<225, b, c>> : b \in {29, 157}, c \in Byte}
  <2>1. PICK b \in {29, 157}, c \in Byte : s = <<225, b, c>>
    BY <1>3
  <2>. QED  BY <2>1 DEF Byte
<1>. QED  BY <1>1, <1>2, <1>3 DEF Codes

\* The first byte in the buffer is the next one of the first scancode.
LEMMA FirstByte ==
  ASSUME KeysInv, kbc # <<>>
  PROVE  /\ sent # <<>> /\ Len(sent) \in Nat \ {0} /\ sent[1] \in Codes /\ Head(sent) = sent[1]
         /\ got + 1 \in 1..Len(sent[1]) /\ Head(kbc) = sent[1][got + 1] /\ Head(kbc) \in Byte
<1>1. PICK st \in [1..(Len(sent) + 1) -> Int] : Starts(st, sent) /\ Holds(st, sent, kbc, got)
  BY DEF KeysInv, Stream
<1>2. kbc \in Seq(Byte) /\ sent \in Seq(Codes) /\ Len(kbc) \in Nat /\ Len(sent) \in Nat
  BY DEF KeysInv, Stream
<1>3. sent # <<>>
  <2> SUFFICES ASSUME sent = <<>> PROVE FALSE
    OBVIOUS
  <2>1. got = 0 /\ Len(sent) + 1 = 1
    BY DEF KeysInv, PrefixInv
  <2>2. Len(kbc) = 0
    BY <1>1, <2>1 DEF Starts, Holds
  <2>. QED  BY <1>2, <2>2
<1>4. Len(sent) >= 1 /\ sent[1] \in Codes /\ Head(sent) = sent[1] /\ got \in Nat /\ got < Len(sent[1])
  BY <1>2, <1>3 DEF KeysInv, PrefixInv
<1>5. Len(sent[1]) \in 1..3
  BY <1>4, CodeShape
<1>6. kbc[0 + (got + 1) - got] = sent[1][got + 1]
  <2>1. 1 \in 1..Len(sent) /\ st[1] = 0 /\ got + 1 \in 1..3 /\ got + 1 <= Len(sent[1]) /\ 0 + (got + 1) > got
    <3>1. \A g, l \in Int : g >= 0 /\ g < l /\ l \in 1..3 => g + 1 \in 1..3 /\ g + 1 <= l /\ 0 + (g + 1) > g
      OBVIOUS
    <3>2. got >= 0 /\ got \in Int /\ Len(sent[1]) \in Int
      BY <1>4, <1>5
    <3>3. 1 \in 1..Len(sent) /\ st[1] = 0
      BY <1>1, <1>2, <1>4 DEF Starts
    <3>. QED  BY <1>4, <1>5, <3>1, <3>2, <3>3
  <2>2. st[1] + (got + 1) > got => kbc[st[1] + (got + 1) - got] = sent[1][got + 1]
    BY <1>1, <2>1 DEF Holds
  <2>. QED  BY <2>1, <2>2
<1>7. Head(kbc) = kbc[1] /\ Head(kbc) \in Byte /\ 0 + (got + 1) - got = 1
  BY <1>2, <1>4
<1>. QED  BY <1>2, <1>3, <1>4, <1>5, <1>6, <1>7

LEMMA SendStream ==
  ASSUME NEW codes, NEW bytes, NEW read, NEW s \in Codes, Stream(codes, bytes, read)
  PROVE  Stream(Append(codes, s), bytes \o s, read)
<1>. DEFINE n == Len(codes)
            ncodes == Append(codes, s)
            nbytes == bytes \o s
<1>1. PICK st \in [1..(n + 1) -> Int] : Starts(st, codes) /\ Holds(st, codes, bytes, read)
  BY DEF Stream
<1>2. bytes \in Seq(Byte) /\ codes \in Seq(Codes) /\ Len(bytes) \in Nat /\ n \in Nat /\ read \in Nat
  BY DEF Stream
<1>3. s \in Seq(Byte) /\ Len(s) \in 1..3
  BY CodeShape
<1>5. /\ nbytes \in Seq(Byte) /\ ncodes \in Seq(Codes) /\ Len(ncodes) = n + 1 /\ Len(nbytes) = Len(bytes) + Len(s)
      /\ ncodes[n + 1] = s /\ \A i \in 1..n : ncodes[i] = codes[i]
  BY <1>2, <1>3
<1>6. /\ \A i \in 1..Len(bytes) : nbytes[i] = bytes[i]
      /\ \A i \in 1..Len(s) : nbytes[Len(bytes) + i] = s[i]
  BY <1>2, <1>3
<1>7. \A i \in 1..n : codes[i] \in Codes /\ Len(codes[i]) \in 1..3
  BY <1>2, CodeShape
<1>. DEFINE nst == [i \in 1..(n + 2) |-> IF i = n + 2 THEN st[n + 1] + Len(s) ELSE st[i]]
<1>8. /\ st[1] = 0 /\ \A i \in 1..(n + 1) : st[i] \in Int
      /\ \A i \in 1..n : st[i + 1] = st[i] + Len(codes[i])
      /\ \A i \in 1..n, j \in 1..(n + 1) : i < j => st[j] >= st[i] + Len(codes[i])
  BY <1>1 DEF Starts
<1>9. /\ nst \in [1..(n + 2) -> Int] /\ nst[n + 2] = st[n + 1] + Len(s)
      /\ \A i \in 1..(n + 1) : nst[i] = st[i]
  <2>1. st[n + 1] + Len(s) \in Int /\ n + 2 \in 1..(n + 2) /\ n + 2 \notin 1..(n + 1)
    BY <1>2, <1>3, <1>8
  <2>2. \A i \in 1..(n + 2) : i # n + 2 => i \in 1..(n + 1)
    BY <1>2
  <2>3. \A i \in 1..(n + 1) : i \in 1..(n + 2)
    BY <1>2
  <2>. HIDE DEF n
  <2>. QED  BY <1>8, <2>1, <2>2, <2>3
<1>. HIDE DEF nst, ncodes, nbytes
<1>10. Starts(nst, ncodes)
  <2>1. nst[1] = 0
    BY <1>2, <1>8, <1>9
  <2>2. ASSUME NEW i \in 1..(n + 1) PROVE nst[i + 1] = nst[i] + Len(ncodes[i])
    <3>1. CASE i = n + 1
      <4>1. nst[i + 1] = st[n + 1] + Len(s) /\ nst[i] = st[n + 1]
        BY <1>2, <1>9, <3>1
      <4>. QED  BY <1>5, <3>1, <4>1
    <3>2. CASE i # n + 1
      <4>1. i \in 1..n /\ i + 1 \in 1..(n + 1)
        BY <1>2, <3>2
      <4>. QED  BY <1>5, <1>8, <1>9, <4>1
    <3>. QED  BY <3>1, <3>2
  <2>3. ASSUME NEW i \in 1..(n + 1), NEW j \in 1..(n + 2), i < j PROVE nst[j] >= nst[i] + Len(ncodes[i])
    <3>1. CASE i = n + 1
      <4>1. j = n + 2
        BY <1>2, <2>3, <3>1
      <4>2. nst[j] = st[n + 1] + Len(s) /\ nst[i] = st[n + 1] /\ ncodes[i] = s /\ st[n + 1] \in Int
        BY <1>2, <1>5, <1>8, <1>9, <3>1, <4>1
      <4>. QED  BY <1>3, <4>2
    <3>2. CASE i # n + 1 /\ j # n + 2
      <4>1. i \in 1..n /\ j \in 1..(n + 1)
        BY <1>2, <3>2
      <4>. QED  BY <1>5, <1>8, <1>9, <2>3, <4>1
    <3>3. CASE i # n + 1 /\ j = n + 2
      <4>1. i \in 1..n /\ n + 1 \in 1..(n + 1) /\ i < n + 1
        BY <1>2, <3>3
      <4>2. st[n + 1] >= st[i] + Len(codes[i]) /\ st[n + 1] \in Int /\ st[i] \in Int
        BY <1>8, <4>1
      <4>3. nst[j] = st[n + 1] + Len(s) /\ nst[i] = st[i] /\ ncodes[i] = codes[i]
        BY <1>5, <1>9, <3>3, <4>1
      <4>. QED  BY <1>3, <1>7, <4>1, <4>2, <4>3
    <3>. QED  BY <3>1, <3>2, <3>3
  <2>4. Len(ncodes) + 1 = n + 2
    BY <1>2, <1>5
  <2>. QED  BY <1>5, <1>9, <2>1, <2>2, <2>3, <2>4 DEF Starts
<1>11. Holds(nst, ncodes, nbytes, read)
  <2>1. Len(bytes) = st[n + 1] - read /\ st[n + 1] \in Int
    BY <1>1, <1>2, <1>8 DEF Holds
  <2>2. Len(nbytes) = nst[n + 2] - read
    BY <1>2, <1>3, <1>5, <1>9, <2>1
  <2>3. ASSUME NEW i \in 1..(n + 1), NEW x \in 1..3, x <= Len(ncodes[i]), nst[i] + x > read
        PROVE  nbytes[nst[i] + x - read] = ncodes[i][x]
    <3>1. CASE i = n + 1
      <4>1. ncodes[i] = s /\ nst[i] = st[n + 1] /\ x \in 1..Len(s)
        BY <1>2, <1>3, <1>5, <1>9, <2>3, <3>1
      <4>2. nst[i] + x - read = Len(bytes) + x
        BY <1>2, <2>1, <4>1
      <4>. QED  BY <1>6, <4>1, <4>2
    <3>2. CASE i # n + 1
      <4>1. i \in 1..n /\ ncodes[i] = codes[i] /\ nst[i] = st[i] /\ st[i] \in Int
        BY <1>2, <1>5, <1>8, <1>9, <3>2
      <4>2. bytes[st[i] + x - read] = codes[i][x]
        BY <1>1, <2>3, <4>1 DEF Holds
      <4>3. n + 1 \in 1..(n + 1) /\ i < n + 1
        BY <1>2, <4>1
      <4>4. st[n + 1] >= st[i] + Len(codes[i])
        BY <1>8, <4>1, <4>3
      <4>5. st[i] + x - read \in 1..Len(bytes)
        BY <1>2, <1>7, <2>1, <2>3, <4>1, <4>4
      <4>. QED  BY <1>6, <4>1, <4>2, <4>5
    <3>. QED  BY <3>1, <3>2
  <2>4. Len(ncodes) + 1 = n + 2
    BY <1>2, <1>5
  <2>. QED  BY <1>5, <2>2, <2>3, <2>4 DEF Holds
<1>12. nst \in [1..(Len(ncodes) + 1) -> Int]
  <2>1. Len(ncodes) + 1 = n + 2
    BY <1>2, <1>5
  <2>. QED  BY <1>9, <2>1
<1>13. Stream(ncodes, nbytes, read)
  BY <1>2, <1>5, <1>10, <1>11, <1>12 DEF Stream
<1>. QED  BY <1>13 DEF ncodes, nbytes

\* A byte is read that is not the last one of its code.
LEMMA ReadStream ==
  ASSUME NEW codes, NEW bytes, NEW read, Stream(codes, bytes, read), bytes # <<>>
  PROVE  Stream(codes, Tail(bytes), read + 1)
<1>1. PICK st \in [1..(Len(codes) + 1) -> Int] : Starts(st, codes) /\ Holds(st, codes, bytes, read)
  BY DEF Stream
<1>2. /\ bytes \in Seq(Byte) /\ codes \in Seq(Codes) /\ Len(bytes) \in Nat \ {0} /\ Len(codes) \in Nat
      /\ read \in Nat
  BY DEF Stream
<1>3. /\ Tail(bytes) \in Seq(Byte) /\ Len(Tail(bytes)) = Len(bytes) - 1
      /\ \A i \in 1..(Len(bytes) - 1) : Tail(bytes)[i] = bytes[i + 1]
  BY <1>2
<1>4. st[Len(codes) + 1] \in Int /\ \A i \in 1..Len(codes) : st[i] \in Int /\ st[Len(codes) + 1] >= st[i] + Len(codes[i])
  <2>1. \A i \in 1..Len(codes), j \in 1..(Len(codes) + 1) : i < j => st[j] >= st[i] + Len(codes[i])
    BY <1>1 DEF Starts
  <2>2. /\ Len(codes) + 1 \in 1..(Len(codes) + 1)
        /\ \A i \in 1..Len(codes) : i \in 1..(Len(codes) + 1) /\ i < Len(codes) + 1
    BY <1>2
  <2>. QED  BY <1>1, <2>1, <2>2
<1>5. \A i \in 1..Len(codes) : codes[i] \in Codes /\ Len(codes[i]) \in 1..3
  BY <1>2, CodeShape
<1>6. Holds(st, codes, Tail(bytes), read + 1)
  <2>1. Len(bytes) = st[Len(codes) + 1] - read
    BY <1>1 DEF Holds
  <2>2. ASSUME NEW i \in 1..Len(codes), NEW x \in 1..3, x <= Len(codes[i]), st[i] + x > read + 1
        PROVE  Tail(bytes)[st[i] + x - (read + 1)] = codes[i][x]
    <3>1. st[i] + x > read
      BY <1>2, <1>4, <2>2
    <3>2. bytes[st[i] + x - read] = codes[i][x]
      BY <1>1, <2>2, <3>1 DEF Holds
    <3>3. /\ st[i] + x - (read + 1) \in 1..(Len(bytes) - 1)
          /\ st[i] + x - (read + 1) + 1 = st[i] + x - read
      <4>1. st[i] \in Int /\ st[Len(codes) + 1] \in Int /\ Len(codes[i]) \in 1..3 /\ x \in Int
        BY <1>4, <1>5
      <4>2. st[Len(codes) + 1] >= st[i] + Len(codes[i])
        BY <1>4
      <4>3. PICK a, b, c, e \in Int : a = st[i] /\ b = st[Len(codes) + 1] /\ c = Len(codes[i]) /\ e = Len(bytes)
        <5>1. Len(bytes) \in Int /\ Len(codes[i]) \in Int
          BY <1>2, <4>1
        <5>. QED  BY <4>1, <5>1, Zenon
      <4>4. e = b - read /\ b >= a + c /\ x <= c /\ a + x > read + 1
        BY <2>1, <2>2, <4>2, <4>3
      <4>5. a + x - (read + 1) \in 1..(e - 1) /\ a + x - (read + 1) + 1 = a + x - read
        BY <1>2, <4>4
      <4>. QED  BY <4>3, <4>5
    <3>. QED  BY <1>3, <3>2, <3>3
  <2>3. Len(Tail(bytes)) = st[Len(codes) + 1] - (read + 1)
    <3>1. st[Len(codes) + 1] \in Int /\ Len(Tail(bytes)) = Len(bytes) - 1
      BY <1>3, <1>4
    <3>. QED  BY <1>2, <2>1, <3>1
  <2>. QED  BY <2>2, <2>3 DEF Holds
<1>. QED  BY <1>1, <1>2, <1>3, <1>6 DEF Stream

\* All bytes of the first code are read.
LEMMA NextCode ==
  ASSUME NEW codes, NEW bytes, codes # <<>>, Stream(codes, bytes, Len(codes[1]))
  PROVE  Stream(Tail(codes), bytes, 0)
<1>. DEFINE n == Len(codes)
            k == Len(codes[1])
<1>1. PICK st \in [1..(n + 1) -> Int] : Starts(st, codes) /\ Holds(st, codes, bytes, k)
  BY DEF Stream
<1>2. bytes \in Seq(Byte) /\ codes \in Seq(Codes) /\ n \in Nat \ {0} /\ k \in Nat
  BY DEF Stream
<1>3. Tail(codes) \in Seq(Codes) /\ Len(Tail(codes)) = n - 1 /\ \A i \in 1..(n - 1) : Tail(codes)[i] = codes[i + 1]
  BY <1>2
<1>4. /\ st[1] = 0 /\ \A i \in 1..(n + 1) : st[i] \in Int
      /\ \A i \in 1..n : st[i + 1] = st[i] + Len(codes[i])
      /\ \A i \in 1..n, j \in 1..(n + 1) : i < j => st[j] >= st[i] + Len(codes[i])
  BY <1>1 DEF Starts
<1>5. \A i \in 1..n : Len(codes[i]) \in 1..3
  BY <1>2, CodeShape
<1>. DEFINE nst == [i \in 1..n |-> st[i + 1] - k]
<1>6. nst \in [1..n -> Int] /\ \A i \in 1..n : nst[i] = st[i + 1] - k
  BY <1>2, <1>4
<1>. HIDE DEF nst, n, k
<1>7. (n - 1) + 1 = n
  BY <1>2
<1>8. Starts(nst, Tail(codes))
  <2>1. nst[1] = 0
    <3>1. 1 \in 1..n /\ 1 + 1 = 2
      BY <1>2
    <3>2. st[1 + 1] = st[1] + Len(codes[1])
      BY <1>4, <3>1
    <3>. QED  BY <1>2, <1>4, <1>6, <3>1, <3>2 DEF k
  <2>2. ASSUME NEW i \in 1..(n - 1) PROVE nst[i + 1] = nst[i] + Len(Tail(codes)[i])
    <3>1. i \in 1..n /\ i + 1 \in 1..n /\ i + 1 + 1 \in 1..(n + 1) /\ i + 1 \in 1..(n + 1)
      BY <1>2
    <3>2. st[i + 1 + 1] = st[i + 1] + Len(codes[i + 1]) /\ Len(codes[i + 1]) \in 1..3
      BY <1>4, <1>5, <3>1
    <3>3. /\ nst[i + 1] = st[i + 1 + 1] - k /\ nst[i] = st[i + 1] - k /\ st[i + 1] \in Int
          /\ Tail(codes)[i] = codes[i + 1]
      BY <1>3, <1>4, <1>6, <3>1
    <3>4. PICK a, c \in Int : a = st[i + 1] /\ c = Len(codes[i + 1])
      BY <3>2, <3>3
    <3>5. (a + c) - k = (a - k) + c
      BY <1>2
    <3>. QED  BY <3>2, <3>3, <3>4, <3>5
  <2>3. ASSUME NEW i \in 1..(n - 1), NEW j \in 1..n, i < j PROVE nst[j] >= nst[i] + Len(Tail(codes)[i])
    <3>1. i \in 1..n /\ i + 1 \in 1..n /\ j + 1 \in 1..(n + 1) /\ i + 1 \in 1..(n + 1) /\ i + 1 < j + 1
      BY <1>2, <2>3
    <3>2. st[j + 1] >= st[i + 1] + Len(codes[i + 1]) /\ Len(codes[i + 1]) \in 1..3
      BY <1>4, <1>5, <3>1
    <3>3. /\ nst[j] = st[j + 1] - k /\ nst[i] = st[i + 1] - k /\ st[i + 1] \in Int /\ st[j + 1] \in Int
          /\ Tail(codes)[i] = codes[i + 1]
      BY <1>3, <1>4, <1>6, <3>1
    <3>4. PICK a, b, c \in Int : a = st[i + 1] /\ b = st[j + 1] /\ c = Len(codes[i + 1])
      BY <3>2, <3>3
    <3>5. b >= a + c
      BY <3>2, <3>4
    <3>6. b - k >= (a - k) + c
      BY <1>2, <3>5
    <3>. QED  BY <3>3, <3>4, <3>6
  <2>. QED  BY <1>3, <1>6, <1>7, <2>1, <2>2, <2>3 DEF Starts
<1>9. Holds(nst, Tail(codes), bytes, 0)
  <2>1. Len(bytes) = st[n + 1] - k
    BY <1>1 DEF Holds, n
  <2>2. n \in 1..n /\ n + 1 \in 1..(n + 1)
    BY <1>2
  <2>3. Len(bytes) = nst[n] - 0
    BY <1>2, <1>4, <1>6, <2>1, <2>2
  <2>4. ASSUME NEW i \in 1..(n - 1), NEW x \in 1..3, x <= Len(Tail(codes)[i]), nst[i] + x > 0
        PROVE  bytes[nst[i] + x - 0] = Tail(codes)[i][x]
    <3>1. i \in 1..n /\ i + 1 \in 1..n /\ i + 1 \in 1..(n + 1)
      BY <1>2
    <3>2. st[i + 1] + x > k /\ nst[i] + x - 0 = st[i + 1] + x - k
      <4>1. nst[i] = st[i + 1] - k /\ st[i + 1] \in Int /\ x \in Int
        BY <1>4, <1>6, <3>1
      <4>. QED  BY <1>2, <2>4, <4>1
    <3>3. bytes[st[i + 1] + x - k] = codes[i + 1][x]
      BY <1>1, <1>3, <2>4, <3>1, <3>2 DEF Holds, n
    <3>. QED  BY <1>3, <3>2, <3>3
  <2>. QED  BY <1>3, <1>7, <2>3, <2>4 DEF Holds
<1>. QED  BY <1>2, <1>3, <1>6, <1>7, <1>8, <1>9 DEF Stream

LEMMA NoKey == Keycode(<<0>>) = "none" /\ Keycode(<<29>>) = "none" /\ Keycode(<<157>>) = "none"
<1>1. ASSUME NEW b \in {0, 29, 157} PROVE Keycode(<<b>>) = "none"
  <2>1. /\ <<b>> # <<224, 72>> /\ <<b>> # <<224, 80>> /\ <<b>> # <<224, 73>> /\ <<b>> # <<224, 81>>
        /\ <<b>> # <<224, 71>> /\ <<b>> # <<224, 79>> /\ <<b>> # <<1>> /\ <<b>> # <<28>>
    <3>1. /\ Len(<<b>>) = 1 /\ Len(<<224, 72>>) = 2 /\ Len(<<224, 80>>) = 2 /\ Len(<<224, 73>>) = 2
          /\ Len(<<224, 81>>) = 2 /\ Len(<<224, 71>>) = 2 /\ Len(<<224, 79>>) = 2
      OBVIOUS
    <3>2. <<b>>[1] # <<1>>[1] /\ <<b>>[1] # <<28>>[1]
      OBVIOUS
    <3>. QED  BY <3>1, <3>2
  <2>. QED  BY <2>1, Zenon DEF Keycode
<1>. QED  BY <1>1

\* What is remembered after a byte of a code s, and what is returned.
LEMMA ReadPrefix ==
  ASSUME NEW s \in Codes, NEW b,
         got \in 0..2, got < Len(s), b = s[got + 1],
         got = 0 => e0_code = 0 /\ e1_code = 0,
         got = 1 => IF s[1] = 224 THEN e0_code = 1 /\ e1_code = 0
                                  ELSE s[1] = 225 /\ e0_code = 0 /\ e1_code = 1,
         got = 2 => s[1] = 225 /\ e0_code = 0 /\ e1_code = 2 /\ e1_prev = s[2]
  PROVE  /\ got + 1 = Len(s) => Scancode(b) = s /\ E0(b) = 0 /\ E1(b) = 0
         /\ got + 1 < Len(s) =>
              /\ Scancode(b) \in {<<0>>, <<29>>, <<157>>}
              /\ got = 0 /\ s[1] = 224 => E0(b) = 1 /\ E1(b) = 0
              /\ got = 0 /\ s[1] # 224 => s[1] = 225 /\ E0(b) = 0 /\ E1(b) = 1
              /\ got = 1 => s[1] = 225 /\ E0(b) = 0 /\ E1(b) = 2 /\ e0_code = 0 /\ e1_code = 1 /\ b = s[2]
<1>0. Len(s) \in 1..3
  BY CodeShape
<1>1. CASE got = 0
  <2>1. e0_code = 0 /\ e1_code = 0 /\ b = s[1] /\ e0_code # 1 /\ e1_code # 2 /\ ~(e1_code > 0)
    BY <1>1
  <2>2. E0(b) = IF b = 224 THEN 1 ELSE 0
    BY <2>1 DEF E0
  <2>3. E1(b) = IF b = 225 THEN 1 ELSE 0
    BY <2>1, Zenon DEF E1
  <2>4. CASE Len(s) = 1
    <3>1. s = <<b>> /\ b \notin {224, 225}
      <4>1. s = <<s[1]>> /\ s[1] \notin {224, 225}
        <5>1. Len(s) # 2 /\ Len(s) # 3
          BY <2>4
        <5>. QED  BY <2>4, <5>1, CodeShape, Zenon
      <4>. QED  BY <2>1, <4>1, Zenon
    <3>2. Scancode(b) = <<b>>
      BY <2>1, <3>1, Zenon DEF Scancode
    <3>. QED  BY <1>1, <2>2, <2>3, <2>4, <3>1, <3>2
  <2>5. CASE Len(s) # 1
    <3>1. b \in {224, 225} /\ got + 1 # Len(s)
      BY <1>0, <1>1, <2>1, <2>5, CodeShape
    <3>2. Scancode(b) = <<0>>
      BY <2>1, <3>1, Zenon DEF Scancode
    <3>. QED  BY <1>1, <2>1, <2>2, <2>3, <3>1, <3>2
  <2>. QED  BY <2>4, <2>5
<1>2. CASE got = 1 /\ s[1] = 224
  <2>1. e0_code = 1 /\ e1_code = 0 /\ e0_code # 0
    BY <1>2
  <2>2. Len(s) = 2 /\ s = <<224, b>>
    BY <1>0, <1>2, CodeShape
  <2>3. E0(b) = 0
    BY <2>1 DEF E0
  <2>4. E1(b) = 0
    BY <2>1, Zenon DEF E1
  <2>5. Scancode(b) = <<224, b>>
    BY <2>1, Zenon DEF Scancode
  <2>. QED  BY <1>2, <2>2, <2>3, <2>4, <2>5
<1>3. CASE got = 1 /\ s[1] # 224
  <2>1. s[1] = 225 /\ e0_code = 0 /\ e1_code = 1 /\ e0_code # 1 /\ e1_code # 2 /\ e1_code # 0 /\ e1_code > 0
    BY <1>3
  <2>2. Len(s) = 3 /\ b = s[2] /\ b \in {29, 157}
    BY <1>0, <1>3, CodeShape
  <2>3. E0(b) = 0
    BY <2>1 DEF E0
  <2>4. E1(b) = (e1_code + 1) % 3
    BY <2>1, Zenon DEF E1
  <2>5. E1(b) = 2
    BY <2>1, <2>4
  <2>6. Scancode(b) = <<b>>
    BY <2>1, Zenon DEF Scancode
  <2>. QED  BY <1>3, <2>1, <2>2, <2>3, <2>5, <2>6
<1>4. CASE got = 2
  <2>1. s[1] = 225 /\ e0_code = 0 /\ e1_code = 2 /\ e1_prev = s[2] /\ e0_code # 1 /\ e1_code # 0 /\ e1_code > 0
    BY <1>4
  <2>2. Len(s) = 3 /\ s = <<225, e1_prev, b>>
    BY <1>0, <1>4, <2>1, CodeShape
  <2>3. E0(b) = 0
    BY <2>1 DEF E0
  <2>4. E1(b) = (e1_code + 1) % 3
    BY <2>1, Zenon DEF E1
  <2>5. E1(b) = 0
    BY <2>1, <2>4
  <2>6. Scancode(b) = <<225, e1_prev, b>>
    BY <2>1, Zenon DEF Scancode
  <2>. QED  BY <1>4, <2>2, <2>3, <2>5, <2>6
<1>. QED  BY <1>1, <1>2, <1>3, <1>4

LEMMA ReadKey ==
  ASSUME KeysInv, GetKey
  PROVE  KeysInv' /\ key' = IF got + 1 = Len(Head(sent)) THEN Keycode(Head(sent)) ELSE "none"
<1>1. /\ kbc # <<>> /\ kbc' = Tail(kbc)
      /\ e0_code' = E0(Head(kbc)) /\ e1_code' = E1(Head(kbc))
      /\ e1_prev' = IF e0_code = 0 /\ e1_code = 1 THEN Head(kbc) ELSE e1_prev
      /\ key' = Keycode(Scancode(Head(kbc)))
  BY DEF GetKey
<1>2. PICK s, b : s = sent[1] /\ b = Head(kbc)
  OBVIOUS
<1>3. /\ sent # <<>> /\ Len(sent) \in Nat \ {0} /\ s \in Codes /\ Head(sent) = s
      /\ got + 1 \in 1..Len(s) /\ b = s[got + 1]
  BY <1>1, <1>2, FirstByte
<1>4. /\ got \in 0..2 /\ got < Len(s) /\ (got = 0 => e0_code = 0 /\ e1_code = 0)
      /\ got = 1 => IF s[1] = 224 THEN e0_code = 1 /\ e1_code = 0
                                  ELSE s[1] = 225 /\ e0_code = 0 /\ e1_code = 1
      /\ got = 2 => s[1] = 225 /\ e0_code = 0 /\ e1_code = 2 /\ e1_prev = s[2]
  BY <1>2, <1>3 DEF KeysInv, PrefixInv
<1>5. /\ got + 1 = Len(s) => Scancode(b) = s /\ E0(b) = 0 /\ E1(b) = 0
      /\ got + 1 < Len(s) =>
           /\ Scancode(b) \in {<<0>>, <<29>>, <<157>>}
           /\ got = 0 /\ s[1] = 224 => E0(b) = 1 /\ E1(b) = 0
           /\ got = 0 /\ s[1] # 224 => s[1] = 225 /\ E0(b) = 0 /\ E1(b) = 1
           /\ got = 1 => s[1] = 225 /\ E0(b) = 0 /\ E1(b) = 2 /\ e0_code = 0 /\ e1_code = 1 /\ b = s[2]
  BY <1>3, <1>4, ReadPrefix
<1>6. Stream(sent, Tail(kbc), got + 1)
  BY <1>1, ReadStream DEF KeysInv
<1>7. Len(s) \in 1..3
  BY <1>3, CodeShape
<1>8. CASE got + 1 = Len(s)
  <2>1. got' = 0 /\ sent' = Tail(sent)
    BY <1>3, <1>8 DEF GetKey
  <2>2. Stream(sent', kbc', got')
    BY <1>1, <1>2, <1>3, <1>6, <1>8, <2>1, NextCode
  <2>3. e0_code' = 0 /\ e1_code' = 0 /\ key' = Keycode(s)
    BY <1>1, <1>2, <1>5, <1>8
  <2>4. sent' # <<>> => 0 < Len(sent'[1])
    <3>1. sent' \in Seq(Codes)
      BY <2>2 DEF Stream
    <3>2. sent' # <<>> => sent'[1] \in Codes
      BY <3>1
    <3>. QED  BY <3>2, CodeShape
  <2>5. PrefixInv'
    BY <2>1, <2>3, <2>4 DEF PrefixInv
  <2>. QED  BY <1>3, <1>8, <2>2, <2>3, <2>5 DEF KeysInv
<1>9. CASE got + 1 # Len(s)
  <2>1. got' = got + 1 /\ sent' = sent /\ got + 1 < Len(s) /\ got \in 0..1
    <3>1. got + 1 # Len(Head(sent))
      BY <1>3, <1>9
    <3>2. got' = got + 1 /\ sent' = sent
      BY <3>1 DEF GetKey
    <3>3. \A g, l \in Int : g + 1 \in 1..l /\ g + 1 # l /\ l \in 1..3 => g + 1 < l /\ (g \in 0..2 => g \in 0..1)
      OBVIOUS
    <3>4. PICK l \in Int : l = Len(s)
      <4>1. Len(s) \in Int
        BY <1>7
      <4>. QED  BY <4>1, Zenon
    <3>5. got \in Int /\ got + 1 \in 1..l /\ got + 1 # l /\ l \in 1..3
      BY <1>3, <1>4, <1>7, <1>9, <3>4
    <3>6. got + 1 < l
      BY <3>3, <3>5
    <3>7. got \in 0..1
      BY <1>4, <3>3, <3>5
    <3>. QED  BY <3>2, <3>4, <3>6, <3>7
  <2>2. Stream(sent', kbc', got')
    BY <1>1, <1>6, <2>1
  <2>3. key' = "none"
    BY <1>1, <1>2, <1>5, <2>1, NoKey
  <2>4. PrefixInv'
    <3>1. CASE got = 0
      BY <1>1, <1>2, <1>3, <1>5, <2>1, <3>1 DEF PrefixInv
    <3>2. CASE got = 1
      BY <1>1, <1>2, <1>3, <1>5, <2>1, <3>2 DEF PrefixInv
    <3>. QED  BY <2>1, <3>1, <3>2
  <2>. QED  BY <1>3, <1>9, <2>2, <2>3, <2>4 DEF KeysInv
<1>. QED  BY <1>8, <1>9

LEMMA SendKeys == ASSUME KeysInv, NEW s \in Scancodes, Send(s) PROVE KeysInv'
<1>1. s \in Codes
  BY ConsoleAssumption
<1>2. kbc' = kbc \o s /\ sent' = Append(sent, s) /\ UNCHANGED <<e0_code, e1_code, e1_prev, got>>
  BY DEF Send
<1>3. Stream(sent', kbc', got')
  BY <1>1, <1>2, SendStream DEF KeysInv
<1>4. sent \in Seq(Codes) /\ Len(s) \in 1..3
  BY <1>1, CodeShape DEF KeysInv, Stream
<1>5. sent' # <<>> /\ sent'[1] = IF sent = <<>> THEN s ELSE sent[1]
  BY <1>1, <1>2, <1>4
<1>6. PrefixInv'
  <2>1. CASE sent = <<>>
    <3>1. got = 0
      BY <2>1 DEF KeysInv, PrefixInv
    <3>. QED  BY <1>2, <1>4, <1>5, <2>1, <3>1 DEF KeysInv, PrefixInv
  <2>2. CASE sent # <<>>
    <3>1. sent'[1] = sent[1]
      BY <1>5, <2>2
    <3>. QED  BY <1>2, <1>5, <2>2, <3>1 DEF KeysInv, PrefixInv
  <2>. QED  BY <2>1, <2>2
<1>. QED  BY <1>3, <1>6 DEF KeysInv

\* Which steps read or fill the buffer of the keyboard.
LEMMA KeySteps ==
  [Next]_vars => \/ GetKey
                 \/ \E s \in Scancodes : Send(s)
                 \/ UNCHANGED <<kbc, e0_code, e1_code, e1_prev, sent, got>>
BY DEF Next, Step, DrawCaption, DrawEntry, MenuKey, Output, OutputEnd, LockStop, LoadHalted, StoreHalted, UnlockStop,
       TestHalted, ViewKey, Draw, vars, keyVars

LEMMA StepKeys == ASSUME KeysInv, [Next]_vars PROVE KeysInv'
<1>1. CASE UNCHANGED <<kbc, e0_code, e1_code, e1_prev, sent, got>>
  BY <1>1 DEF KeysInv, PrefixInv
<1>. QED  BY <1>1, KeySteps, ReadKey, SendKeys

\* For every sequence of keys and every way the bytes come in and are read, between
\* the viewer and the menu too: a key is returned when its last byte is read, it is the
\* one of that scancode, and before that no key is returned.
THEOREM KeysRead == Spec => KeysAsTyped
<1>1. Init => KeysInv
  <2> SUFFICES ASSUME Init PROVE KeysInv
    OBVIOUS
  <2>1. kbc = <<>> /\ sent = <<>> /\ got = 0 /\ e0_code = 0 /\ e1_code = 0
    BY DEF Init
  <2>. DEFINE st == [i \in 1..1 |-> 0]
  <2>2. Starts(st, <<>>) /\ Holds(st, <<>>, <<>>, 0) /\ st \in [1..(Len(<<>>) + 1) -> Int]
    BY DEF Starts, Holds
  <2>3. Stream(sent, kbc, got)
    BY <2>1, <2>2 DEF Stream
  <2>. QED  BY <2>1, <2>3 DEF KeysInv, PrefixInv
<1>2. KeysInv /\ [Next]_vars => KeysInv'
  BY StepKeys
<1>3. KeysInv /\ [Next]_vars =>
        [kbc # <<>> /\ kbc' = Tail(kbc) =>
           key' = IF got + 1 = Len(Head(sent)) THEN Keycode(Head(sent)) ELSE "none"]_kbc
  <2> SUFFICES ASSUME KeysInv, [Next]_vars, kbc # <<>>, kbc' = Tail(kbc), kbc' # kbc
               PROVE  key' = IF got + 1 = Len(Head(sent)) THEN Keycode(Head(sent)) ELSE "none"
    OBVIOUS
  <2>1. ASSUME NEW s \in Scancodes, Send(s) PROVE FALSE
    <3>1. kbc \in Seq(Byte) /\ s \in Seq(Byte) /\ Len(s) \in Nat
      BY CodeShape, ConsoleAssumption DEF KeysInv, Stream
    <3>2. Len(kbc') = Len(kbc) + Len(s) /\ Len(kbc') = Len(kbc) - 1
      BY <2>1, <3>1 DEF Send
    <3>. QED  BY <3>1, <3>2
  <2>. QED  BY <2>1, KeySteps, ReadKey
<1>. QED  BY <1>1, <1>2, <1>3, PTL DEF Spec, KeysAsTyped

-----------------------------------------------------------------------------
(* The menu.                                                               *)

\* n entries are drawn above row y, and above them is the caption.
Listed(t, y, n) ==
  /\ \A e \in 0..(n - 1) : t[y - n + e][0] = Look(e)
  /\ y - n > 1 => t[y - n - 1][0] = Caption

MenuInv ==
  /\ u \in 0..Entries /\ selection \in 0..(Entries - 1)
  /\ pc[0] = "caption" => u = 0 /\ (csr_x # 0 => csr_x = 1 /\ text[csr_y][0] = Caption)
  /\ pc[0] = "menu" =>
       /\ W > 1 /\ csr_y > u
       /\ Listed(text, csr_y, u)
       /\ csr_x # 0 => csr_x = 1 /\ u < Entries /\ text[csr_y][0] = Look(u)

\* A character at the beginning of a line, and the end of a line.
LEMMA CharAtStart ==
  ASSUME CellInv, csr_x = 0, NEW ch, PutChar(ch)
  PROVE  IF W > 1 THEN csr_x' = 1 /\ csr_y' = csr_y /\ text' = [text EXCEPT ![csr_y][csr_x] = ch]
                  ELSE csr_x' = 0
<1>. USE Sizes
<1>1. Finish(csr_x + 1, csr_y, buf_y, [text EXCEPT ![csr_y][csr_x] = ch]) /\ csr_x + 1 = 1
  BY DEF PutChar
<1>2. csr_y \in 1..(H - 1)
  BY DEF CellInv, ScreenInv
<1>3. CASE W > 1
  <2>1. ~AtEdge(csr_x + 1) /\ csr_y + 0 = csr_y /\ ~(csr_y + 0 >= H) /\ csr_y < H
    BY <1>1, <1>2, <1>3 DEF AtEdge
  <2>. QED  BY <1>1, <1>2, <1>3, <2>1 DEF Finish, Scrolled
<1>4. CASE ~(W > 1)
  <2>1. AtEdge(csr_x + 1)
    BY <1>1, <1>4 DEF AtEdge
  <2>. QED  BY <1>1, <1>4, <2>1 DEF Finish
<1>. QED  BY <1>3, <1>4

LEMMA LineEnds ==
  ASSUME CellInv, PutNewline
  PROVE  /\ csr_x' = 0
         /\ csr_y' \in {csr_y, csr_y + 1} /\ (csr_y' = csr_y => csr_y = H - 1)
         /\ \A r \in 1..(H - 1) : r + csr_y' - (csr_y + 1) >= 1 => text'[r + csr_y' - (csr_y + 1)] = text[r]
<1>. USE Sizes
<1>1. Finish(0, csr_y + 1, buf_y + 1, text) /\ ~AtEdge(0)
  BY DEF PutNewline, AtEdge
<1>2. csr_y \in 1..(H - 1)
  BY DEF CellInv, ScreenInv
<1>3. csr_y + 1 + 0 = csr_y + 1
  BY <1>2
<1>4. csr_x' = 0 /\ csr_y' = (IF csr_y + 1 >= H THEN H - 1 ELSE csr_y + 1) /\ text' = Scrolled(text, csr_y + 1)
  BY <1>1, <1>3 DEF Finish
<1>5. CASE csr_y + 1 < H
  <2>1. csr_y' = csr_y + 1 /\ text' = text
    BY <1>2, <1>4, <1>5 DEF Scrolled
  <2>2. \A r \in 1..(H - 1) : r + csr_y' - (csr_y + 1) = r
    BY <1>2, <2>1
  <2>. QED  BY <1>2, <1>4, <2>1, <2>2
<1>6. CASE ~(csr_y + 1 < H)
  <2>1. csr_y' = csr_y /\ csr_y = H - 1
    BY <1>2, <1>4, <1>6
  <2>2. \A r \in 1..(H - 2) : text'[r] = text[r + 1]
    BY <1>4, <1>6 DEF Scrolled
  <2>3. ASSUME NEW r \in 1..(H - 1), r + csr_y' - (csr_y + 1) >= 1 PROVE text'[r + csr_y' - (csr_y + 1)] = text[r]
    <3>1. r + csr_y' - (csr_y + 1) = r - 1 /\ r - 1 \in 1..(H - 2) /\ (r - 1) + 1 = r
      BY <1>2, <2>1, <2>3
    <3>. QED  BY <2>2, <3>1
  <2>. QED  BY <1>4, <2>1, <2>3
<1>. QED  BY <1>5, <1>6

LEMMA StepMenu == ASSUME OutputInv, MenuInv, [Next]_vars PROVE MenuInv'
<1>. USE CPUsFinite, Sizes
<1>0. /\ CellInv /\ csr_y \in 1..(H - 1) /\ csr_x \in 0..(W - 1) /\ Entries \in 2..(H - 2)
      /\ u \in 0..Entries /\ selection \in 0..(Entries - 1)
      /\ DOMAIN text = 0..H /\ \A r \in 0..H : DOMAIN text[r] = 0..(W - 1)
  BY ConsoleAssumption DEF OutputInv, CellInv, ScreenInv, MenuInv
<1>1. CASE DrawCaption
  <2>1. pc[0] = "caption" /\ u = 0 /\ u' = u /\ selection' = selection
    BY <1>1 DEF DrawCaption, menuVars, MenuInv
  <2>2. CASE csr_x = 0
    <3>1. PutChar(Caption) /\ pc' = pc
      BY <1>1, <2>2 DEF DrawCaption
    <3>2. csr_x' # 0 => W > 1
      BY <1>0, <2>2, <3>1, CharAtStart
    <3>3. W > 1 => csr_x' = 1 /\ csr_y' = csr_y /\ text' = [text EXCEPT ![csr_y][csr_x] = Caption]
      BY <1>0, <2>2, <3>1, CharAtStart
    <3>4. W > 1 => text'[csr_y'][0] = Caption
      BY <1>0, <2>2, <3>3
    <3>. QED  BY <1>0, <2>1, <3>1, <3>2, <3>3, <3>4 DEF MenuInv
  <2>3. CASE csr_x # 0
    <3>1. PutNewline /\ pc' = [pc EXCEPT ![0] = "menu"] /\ csr_x = 1 /\ text[csr_y][0] = Caption
      BY <1>1, <2>1, <2>3 DEF DrawCaption, Go, MenuInv
    <3>2. /\ csr_x' = 0 /\ csr_y' \in {csr_y, csr_y + 1} /\ (csr_y' = csr_y => csr_y = H - 1)
          /\ csr_y + csr_y' - (csr_y + 1) >= 1 => text'[csr_y + csr_y' - (csr_y + 1)] = text[csr_y]
      BY <1>0, <3>1, LineEnds
    <3>3. csr_y' > 0 /\ csr_y + csr_y' - (csr_y + 1) = csr_y' - 1 /\ W > 1 /\ csr_y' - 0 - 1 = csr_y' - 1
      BY <1>0, <3>1, <3>2
    <3>4. csr_y' - 0 > 1 => text'[csr_y' - 0 - 1][0] = Caption
      <4>1. csr_y' - 0 > 1 => csr_y + csr_y' - (csr_y + 1) >= 1
        <5>1. csr_y \in Int /\ csr_y' \in Int
          BY <1>0, <3>2
        <5>2. PICK a, b \in Int : a = csr_y /\ b = csr_y'
          BY <5>1, Zenon
        <5>3. b - 0 > 1 => a + b - (a + 1) >= 1
          OBVIOUS
        <5>. QED  BY <5>2, <5>3
      <4>2. csr_y' - 0 > 1 => text'[csr_y' - 1] = text[csr_y]
        BY <3>2, <3>3, <4>1
      <4>. QED  BY <3>1, <3>3, <4>2
    <3>5. Listed(text, csr_y, u)'
      BY <2>1, <3>4 DEF Listed
    <3>6. pc'[0] = "menu"
      BY <3>1 DEF OutputInv, PlacesInv
    <3>. QED  BY <1>0, <2>1, <3>2, <3>3, <3>5, <3>6 DEF MenuInv
  <2>. QED  BY <2>2, <2>3
<1>2. CASE DrawEntry
  <2>1. /\ pc[0] = "menu" /\ u < Entries /\ pc' = pc /\ selection' = selection
        /\ W > 1 /\ csr_y > u /\ Listed(text, csr_y, u)
        /\ csr_x # 0 => csr_x = 1 /\ text[csr_y][0] = Look(u)
    BY <1>2 DEF DrawEntry, MenuInv
  <2>2. \A e \in 0..Entries : Look(e)' = Look(e)
    BY <2>1 DEF Look
  <2>3. CASE csr_x = 0
    <3>1. PutChar(Look(u)) /\ u' = u
      BY <1>2, <2>3 DEF DrawEntry
    <3>2. csr_x' = 1 /\ csr_y' = csr_y /\ text' = [text EXCEPT ![csr_y][csr_x] = Look(u)]
      BY <1>0, <2>1, <2>3, <3>1, CharAtStart
    <3>3. text'[csr_y'][0] = Look(u)
      BY <1>0, <2>3, <3>2
    <3>4. \A r \in 0..H : r # csr_y => text'[r] = text[r]
      BY <1>0, <3>2
    <3>5. ASSUME NEW e \in 0..(u - 1) PROVE text'[csr_y - u + e][0] = Look(e)
      <4>1. csr_y - u + e \in 0..H /\ csr_y - u + e # csr_y
        BY <1>0, <2>1
      <4>. QED  BY <2>1, <3>4, <4>1 DEF Listed
    <3>6. csr_y - u > 1 => text'[csr_y - u - 1][0] = Caption
      <4>1. csr_y - u > 1 => csr_y - u - 1 \in 0..H /\ csr_y - u - 1 # csr_y
        BY <1>0, <2>1
      <4>. QED  BY <2>1, <3>4, <4>1 DEF Listed
    <3>7. Listed(text, csr_y, u)'
      <4>1. \A e \in 0..(u - 1) : e \in 0..Entries
        BY <1>0
      <4>. QED  BY <2>2, <3>1, <3>2, <3>5, <3>6, <4>1 DEF Listed
    <3>8. Look(u)' = Look(u)
      BY <2>1, <3>1 DEF Look
    <3>. QED  BY <1>0, <2>1, <3>1, <3>2, <3>3, <3>7, <3>8 DEF MenuInv
  <2>4. CASE csr_x # 0
    <3>1. PutNewline /\ u' = u + 1
      BY <1>2, <2>4 DEF DrawEntry
    <3>2. /\ csr_x' = 0 /\ csr_y' \in {csr_y, csr_y + 1} /\ (csr_y' = csr_y => csr_y = H - 1)
          /\ \A r \in 1..(H - 1) : r + csr_y' - (csr_y + 1) >= 1 => text'[r + csr_y' - (csr_y + 1)] = text[r]
      BY <1>0, <3>1, LineEnds
    <3>3. csr_y' > u' /\ u' \in 0..Entries
      BY <1>0, <2>1, <3>1, <3>2
    <3>4. ASSUME NEW e \in 0..(u' - 1) PROVE text'[csr_y' - u' + e][0] = Look(e)'
      <4>1. PICK r \in Int : r = csr_y - u + e
        BY <1>0
      <4>2. r \in 1..(H - 1) /\ csr_y' - u' + e = r + csr_y' - (csr_y + 1) /\ r + csr_y' - (csr_y + 1) >= 1
        <5>1. csr_y \in Int /\ csr_y' \in Int /\ u \in Int /\ e \in Int
          BY <1>0, <3>1, <3>2
        <5>2. PICK a, b, c, d \in Int : a = csr_y /\ b = csr_y' /\ c = u /\ d = e
          BY <5>1, Zenon
        <5>3. /\ 0 <= d /\ d <= c /\ a > c /\ a <= H - 1 /\ b > c + 1 /\ (b = a \/ b = a + 1) /\ r = a - c + d
          BY <1>0, <2>1, <3>1, <3>2, <3>3, <4>1, <5>2
        <5>4. r \in 1..(H - 1) /\ b - (c + 1) + d = r + b - (a + 1) /\ r + b - (a + 1) >= 1
          BY <5>3
        <5>. QED  BY <3>1, <5>2, <5>4
      <4>3. text'[csr_y' - u' + e] = text[r]
        BY <3>2, <4>2
      <4>4. text[r][0] = Look(e)
        <5>1. e = u => r = csr_y
          BY <1>0, <4>1
        <5>2. e # u => e \in 0..(u - 1)
          BY <1>0, <3>1
        <5>. QED  BY <2>1, <2>4, <4>1, <5>1, <5>2 DEF Listed
      <4>5. e \in 0..Entries
        BY <1>0, <2>1, <3>1
      <4>. QED  BY <2>2, <4>3, <4>4, <4>5
    <3>5. ASSUME csr_y' - u' > 1 PROVE text'[csr_y' - u' - 1][0] = Caption
      <4>1. PICK r \in Int : r = csr_y - u - 1
        BY <1>0
      <4>2. r \in 1..(H - 1) /\ csr_y' - u' - 1 = r + csr_y' - (csr_y + 1) /\ r + csr_y' - (csr_y + 1) >= 1
        <5>1. csr_y \in Int /\ csr_y' \in Int /\ u \in Int
          BY <1>0, <3>1, <3>2
        <5>2. PICK a, b, c \in Int : a = csr_y /\ b = csr_y' /\ c = u
          BY <5>1, Zenon
        <5>3. /\ 0 <= c /\ a > c /\ a <= H - 1 /\ (b = a \/ b = a + 1) /\ r = a - c - 1
          BY <1>0, <2>1, <3>2, <4>1, <5>2
        <5>4. b - (c + 1) > 1
          BY <3>1, <3>5, <5>2
        <5>5. r \in 1..(H - 1) /\ b - (c + 1) - 1 = r + b - (a + 1) /\ r + b - (a + 1) >= 1
          BY <5>3, <5>4
        <5>. QED  BY <3>1, <5>2, <5>5
      <4>3. text'[csr_y' - u' - 1] = text[r]
        BY <3>2, <4>2
      <4>4. csr_y - u > 1
        BY <1>0, <4>1, <4>2
      <4>. QED  BY <2>1, <4>1, <4>3, <4>4 DEF Listed
    <3>6. Listed(text, csr_y, u)'
      BY <3>4, <3>5 DEF Listed
    <3>. QED  BY <1>0, <2>1, <3>2, <3>3, <3>6 DEF MenuInv
  <2>. QED  BY <2>3, <2>4
<1>3. CASE MenuKey
  <2>1. /\ pc[0] = "menu" /\ u = Entries /\ csr_x = 0 /\ csr_y > u /\ W > 1 /\ Listed(text, csr_y, u)
    BY <1>3 DEF MenuKey, MenuInv
  <2>2. CASE UNCHANGED <<screenVars, pc, menuVars>>
    BY <2>2 DEF MenuInv, Listed, Look, screenVars, menuVars
  <2>3. CASE UNCHANGED menuVars /\ pc' = [p \in CPUs |-> IF selection = 0 THEN (IF p = 0 THEN "print" ELSE "wait") ELSE "stop"]
    <3>1. pc'[0] \notin {"caption", "menu"}
      BY <2>3
    <3>. QED  BY <1>0, <2>3, <3>1 DEF MenuInv, menuVars
  <2>4. CASE Locate(Height) /\ u' = 0 /\ selection' = Moved(key', selection) /\ UNCHANGED pc
    <3>1. csr_x' = 0 /\ csr_y' = csr_y - Entries /\ text' = text
      BY <2>4 DEF Locate, Height
    <3>2. selection' \in 0..(Entries - 1)
      <4>1. ASSUME NEW k PROVE Moved(k, selection) \in 0..(Entries - 1)
        <5>1. CASE k = "DOWN" /\ selection < Entries - 1
          <6>1. Moved(k, selection) = selection + 1
            BY <5>1, Zenon DEF Moved
          <6>. QED  BY <1>0, <5>1, <6>1
        <5>2. CASE k = "UP" /\ selection > 0
          <6>1. k # "DOWN"
            BY <5>2
          <6>2. Moved(k, selection) = selection - 1
            BY <5>2, <6>1, Zenon DEF Moved
          <6>. QED  BY <1>0, <5>2, <6>2
        <5>3. CASE ~(k = "DOWN" /\ selection < Entries - 1) /\ ~(k = "UP" /\ selection > 0)
          <6>1. Moved(k, selection) = selection
            BY <5>3, Zenon DEF Moved
          <6>. QED  BY <1>0, <6>1
        <5>. QED  BY <5>1, <5>2, <5>3
      <4>. QED  BY <2>4, <4>1
    <3>3. csr_y' - 0 > 1 => text'[csr_y' - 0 - 1][0] = Caption
      <4>1. csr_y' - 0 = csr_y - u /\ csr_y' - 0 - 1 = csr_y - u - 1
        BY <1>0, <2>1, <3>1
      <4>. QED  BY <2>1, <3>1, <4>1 DEF Listed
    <3>4. Listed(text, csr_y, u)'
      BY <2>4, <3>3 DEF Listed
    <3>5. csr_y' > 0
      BY <1>0, <2>1, <3>1
    <3>. QED  BY <1>0, <2>1, <2>4, <3>1, <3>2, <3>4, <3>5 DEF MenuInv
  <2>. QED  BY <1>3, <2>2, <2>3, <2>4 DEF MenuKey
<1>4. CASE Output
  <2>1. pc[0] = "print" /\ pc' = pc /\ u' = u /\ selection' = selection
    BY <1>4 DEF Output, menuVars
  <2>. QED  BY <1>0, <2>1 DEF MenuInv
<1>5. CASE OutputEnd
  <2>1. pc' = [pc EXCEPT ![0] = "caption"] /\ csr_x' = 0 /\ u' = 0 /\ selection' = 0
    BY <1>5 DEF OutputEnd, Go, screenVars
  <2>2. pc'[0] = "caption"
    BY <2>1 DEF OutputInv, PlacesInv
  <2>. QED  BY <1>0, <2>1, <2>2 DEF MenuInv
<1>6. ASSUME NEW p \in CPUs,
             LockStop(p) \/ LoadHalted(p) \/ StoreHalted(p) \/ UnlockStop(p) \/ TestHalted(p) \/ Draw(p) \/ ViewKey(p)
      PROVE  MenuInv'
  <2>1. UNCHANGED <<u, selection>> /\ pc[p] \in {"stop", "load", "store", "unlock", "test", "draw", "view"}
    BY <1>6 DEF LockStop, LoadHalted, StoreHalted, UnlockStop, TestHalted, Draw, ViewKey, menuVars, Go
  <2>2. \/ pc' = pc
        \/ \E to \in {"load", "store", "unlock", "test", "hlt", "draw", "view", "reboot"} : pc' = [pc EXCEPT ![p] = to]
    BY <1>6 DEF LockStop, LoadHalted, StoreHalted, UnlockStop, TestHalted, Draw, ViewKey, Go
  <2>3. pc[0] \notin MainLabels
    BY <2>1 DEF OutputInv, PlacesInv, MainLabels
  <2>4. pc'[0] \notin {"caption", "menu"}
    BY <2>2, <2>3 DEF OutputInv, PlacesInv, MainLabels
  <2>. QED  BY <1>0, <2>1, <2>4 DEF MenuInv
<1>7. CASE UNCHANGED <<screenVars, pc, menuVars>>
  BY <1>7 DEF MenuInv, Listed, Look, screenVars, menuVars
<1>8. ASSUME NEW s \in Scancodes, Send(s) PROVE UNCHANGED <<screenVars, pc, menuVars>>
  BY <1>8 DEF Send
<1>9. UNCHANGED vars => UNCHANGED <<screenVars, pc, menuVars>>
  BY DEF vars
<1>. QED  BY <1>1, <1>2, <1>3, <1>4, <1>5, <1>6, <1>7, <1>8, <1>9 DEF Next, Step

\* However often the user moves the mark, and wherever on the screen the menu began,
\* for every size of the screen and number of entries: when menu() waits for a key, its
\* lines are on the screen one above the other, under the caption, and show the selection.
THEOREM MenuDrawn == Spec => []MenuShown
<1>1. Init => MenuInv
  <2> SUFFICES ASSUME Init PROVE MenuInv
    OBVIOUS
  <2>1. u = 0 /\ selection = 0 /\ csr_x = 0 /\ pc[0] = "caption" /\ Entries \in 2..(H - 2)
    BY CPUsFinite, ConsoleAssumption DEF Init, ScreenInit
  <2>. QED  BY <2>1, Sizes DEF MenuInv
<1>2. OutputInv /\ MenuInv /\ [Next]_vars => MenuInv'
  BY StepMenu
<1>3. OutputInv /\ MenuInv => MenuShown
  <2> SUFFICES ASSUME OutputInv, MenuInv, pc[0] = "menu", u = Entries
               PROVE  /\ selection < Entries
                      /\ \A e \in 0..(Entries - 1) : text[csr_y - Entries + e][0] = Look(e)
                      /\ csr_y - Entries > 1 => text[csr_y - Entries - 1][0] = Caption
    BY DEF MenuShown
  <2>1. Listed(text, csr_y, u) /\ selection \in 0..(Entries - 1)
    BY DEF MenuInv
  <2>. QED  BY <2>1, Sizes DEF Listed
<1>. QED  BY <1>1, <1>2, <1>3, OutputInvariance, PTL DEF Spec
=============================================================================
