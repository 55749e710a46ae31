-------------------------- MODULE PageTableProofs --------------------------
(***************************************************************************)
(* The heap of mm.c for every number of CPUs, size of the tables and number  *)
(* of pages, provided that there is at least one directory between pd1 and    *)
(* the page tables, as in 64 bit mode: no access goes to a wrong table,       *)
(* although a CPU's TLB is not invalidated when another one points tmp_page   *)
(* elsewhere.                                                              *)
(***************************************************************************)
EXTENDS PageTable, FiniteSetTheorems, TLAPS

Labels == {"idle", "page", "walk", "entry", "unlock", "halted"}

TypeInv ==
  /\ tmp \in Nat
  /\ tlb \in [CPUs -> Nat \cup {None}]
  /\ pc \in [CPUs -> Labels]
  /\ op \in [CPUs -> {"heap_alloc", "virt_to_phys"}]
  /\ page \in [CPUs -> Pages]
  /\ res \in [CPUs -> Nat] /\ left \in [CPUs -> Nat]
  /\ frame \in [CPUs -> Int] /\ lvl \in [CPUs -> Nat]

\* Who is in one of the functions holds the mutex.
MutexInv == \A p \in CPUs : pc[p] # "idle" <=> pt_mutex = p

\* heap_alloc(): the pages it has taken, those it has still to take, the one it
\* works on.
AllocInv(p) ==
  /\ \A v \in Pages : res[p] <= v /\ v < next_virt_page => given[v].cpu = p
  /\ res[p] <= next_virt_page
  /\ pc[p] \in {"page", "walk", "entry"} => left[p] > 0 /\ next_virt_page + left[p] <= NPages
  /\ pc[p] \in {"walk", "entry"} => page[p] = next_virt_page /\ frame[p] \in Nat

\* virt_to_phys()
TranslateInv(p) ==
  /\ pc[p] \in {"walk", "entry", "unlock"}
  /\ page[p] < next_virt_page
  /\ pc[p] = "unlock" => frame[p] = given[page[p]].frame

\* What keeps the TLB of the holder right: tmp_page has been pointed elsewhere by
\* this CPU since it took the mutex.
TlbInv(p) ==
  /\ pc[p] = "walk" =>
       /\ lvl[p] <= Len(Upper)
       /\ lvl[p] > 0 => tmp = Upper[lvl[p]] /\ tlb[p] \in {None, tmp}
  /\ pc[p] = "entry" =>
       dir[DirIndex(page[p])] # 0 /\ tmp = dir[DirIndex(page[p])] /\ tlb[p] \in {None, tmp}

HolderInv(p) ==
  /\ op[p] = "heap_alloc" => AllocInv(p)
  /\ op[p] = "virt_to_phys" => TranslateInv(p)
  /\ TlbInv(p)

\* Each use of tmp_page but a walk under way has left it at a page table.
TmpInv == (\A p \in CPUs : ~(pc[p] = "walk" /\ lvl[p] > 0)) => tmp \notin UpperFrames

Dirs == 0..(NTables - 1)
Used == {k \in Dirs : dir[k] # 0}

\* The page tables are different frames, and there are enough.
TableInv ==
  /\ last_frame["pt"] \in Nat
  /\ dir \in [Dirs -> 0..NTables]
  /\ \A k \in Dirs : dir[k] <= last_frame["pt"]
  /\ \A k, l \in Dirs : dir[k] = dir[l] /\ dir[k] # 0 => k = l
  /\ last_frame["pt"] = Cardinality(Used)

DataInv ==
  /\ last_frame \in [{"pt", "4k"} -> Nat]
  /\ next_virt_page \in Nat /\ next_virt_page <= NPages
  /\ leaf \in [Tables -> [Index -> Int]]
  /\ given \in [Pages -> [cpu : CPUs \cup {None}, frame : Int]]
  /\ \A v \in Pages : given[v].cpu # None <=> v < next_virt_page
  /\ TableInv
  /\ PagesPresent
  /\ NothingElse

IInv ==
  /\ TypeInv
  /\ MutexInv
  /\ \A p \in CPUs : pc[p] # "idle" => HolderInv(p)
  /\ TmpInv
  /\ DataInv

-----------------------------------------------------------------------------
(* The numbers.                                                            *)

LEMMA ModRange == ASSUME NEW v \in Nat PROVE v % PerTable \in Index
BY SizeAssumption DEF Index

LEMMA DivNat == ASSUME NEW v \in Nat PROVE v \div PerTable \in Nat
<1>1. v \div PerTable \in Int /\ v \div PerTable >= 0
  BY SizeAssumption
<1>2. \A d \in Int : d >= 0 => d \in Nat
  OBVIOUS
<1>. QED  BY <1>1, <1>2

LEMMA Division == ASSUME NEW v \in Nat PROVE v = (v \div PerTable) * PerTable + (v % PerTable)
BY SizeAssumption

LEMMA CountNat == NPages \in Nat /\ Pages \subseteq Nat /\ \A v \in Nat : v < NPages => v \in Pages
BY SizeAssumption DEF NPages, Pages

\* A page is where its directory entry and its table entry say.
LEMMA PageIndex ==
  ASSUME NEW v \in Pages
  PROVE  /\ DirIndex(v) \in Dirs /\ PtIndex(v) \in Index
         /\ v = DirIndex(v) * PerTable + PtIndex(v)
<1>. USE SizeAssumption
<1>1. v \in Nat /\ v < NTables * PerTable
  BY DEF Pages, NPages
<1>. DEFINE d == v \div PerTable
            m == v % PerTable
<1>2. d \in Nat /\ m \in Index /\ v = d * PerTable + m
  BY <1>1, ModRange, DivNat, Division
<1>3. m \in Nat
  BY <1>2 DEF Index
<1>. HIDE DEF d, m
<1>4. ASSUME d >= NTables PROVE FALSE
  <2>1. d - NTables \in Nat /\ d = NTables + (d - NTables)
    BY <1>2, <1>4
  <2>2. PICK k \in Nat : d = NTables + k
    BY <2>1
  <2>3. d * PerTable = NTables * PerTable + k * PerTable
    BY <2>2
  <2>4. k * PerTable >= 0
    OBVIOUS
  <2>. QED  BY <1>1, <1>2, <1>3, <2>3, <2>4
<1>5. d \in Dirs
  BY <1>2, <1>4 DEF Dirs
<1>. QED  BY <1>2, <1>5 DEF d, m, DirIndex, PtIndex

LEMMA UpperFacts ==
  /\ Len(Upper) \in Nat
  /\ \A i \in 1..Len(Upper) : Upper[i] \in Nat /\ Upper[i] > NTables
  /\ \A i, j \in 1..Len(Upper) : Upper[i] = Upper[j] => i = j
  /\ UpperFrames = {Upper[i] : i \in 1..Len(Upper)}
  /\ \A f \in 0..NTables : f \notin UpperFrames
<1>1. Len(Upper) \in Nat /\ DOMAIN Upper = 1..Len(Upper) /\ \A i \in 1..Len(Upper) : Upper[i] \in Nat
  BY UpperAssumption
<1>2. UpperFrames = {Upper[i] : i \in 1..Len(Upper)}
  BY <1>1 DEF UpperFrames
<1>3. \A i \in 1..Len(Upper) : Upper[i] > NTables
  BY <1>1, UpperAssumption
<1>. QED  BY <1>1, <1>2, <1>3, UpperAssumption, SizeAssumption

-----------------------------------------------------------------------------
(* The steps.                                                              *)

\* map_temporary() for a frame that tmp_page does not have yet.
LEMMA Flushed ==
  ASSUME TypeInv, NEW p \in CPUs, NEW f \in Nat, tmp # f, MapTemporary(p, f)
  PROVE  tmp' = f /\ tlb'[p] = f /\ tlb' \in [CPUs -> Nat \cup {None}]
BY DEF TypeInv, MapTemporary

\* The other CPUs are outside the functions, or wait for the mutex.
LEMMA OthersIdle ==
  ASSUME IInv, NEW p \in CPUs, pc[p] # "idle" \/ pt_mutex = None
  PROVE  \A q \in CPUs : q # p => pc[q] = "idle"
BY NoneAssumption DEF IInv, MutexInv

\* What has to be shown of a step of CPU p.
LEMMA Combine ==
  ASSUME TypeInv', DataInv', TmpInv', NEW p \in CPUs, \A q \in CPUs : q # p => pc'[q] = "idle",
         IF pc'[p] = "idle" THEN pt_mutex' = None ELSE pt_mutex' = p /\ HolderInv(p)'
  PROVE  IInv'
<1>1. MutexInv'
  BY NoneAssumption DEF MutexInv
<1>. QED  BY <1>1 DEF IInv

LEMMA SameData ==
  ASSUME DataInv, UNCHANGED <<next_virt_page, dir, leaf, given>>,
         last_frame' \in [{"pt", "4k"} -> Nat], last_frame'["pt"] = last_frame["pt"]
  PROVE  DataInv'
<1>1. Allocated' = Allocated /\ Used' = Used
  BY DEF Allocated, Used
<1>. QED  BY <1>1 DEF DataInv, TableInv, PagesPresent, NothingElse

LEMMA InitIInv == Init => IInv
<1> SUFFICES ASSUME Init PROVE IInv
  OBVIOUS
<1>. USE SizeAssumption, CountNat
<1>1. TypeInv
  <2>1. \A a, b \in Nat \ {0} : a * b > 0
    OBVIOUS
  <2>2. 0 \in Pages
    BY <2>1 DEF NPages
  <2>. QED  BY <2>2 DEF Init, TypeInv, Labels, Boot
<1>2. MutexInv /\ \A p \in CPUs : pc[p] = "idle"
  BY NoneAssumption DEF Init, MutexInv
<1>3. TmpInv
  BY UpperFacts DEF Init, TmpInv, Boot
<1>4. next_virt_page = 0 /\ (\A v \in Pages : given[v] = [cpu |-> None, frame |-> 0])
  BY DEF Init
<1>5. last_frame["pt"] = 0 /\ last_frame \in [{"pt", "4k"} -> Nat] /\ \A k \in Dirs : dir[k] = 0
  BY DEF Init, Dirs
<1>6. Used = {} /\ Cardinality(Used) = 0
  BY <1>5, FS_EmptySet DEF Used
<1>7. TableInv
  BY <1>5, <1>6 DEF Init, TableInv, Dirs
<1>8. PagesPresent /\ NothingElse
  <2>1. ASSUME NEW v \in Pages PROVE given[v].cpu = None
    <3>1. given[v] = [cpu |-> None, frame |-> 0]
      BY <1>4
    <3>. QED  BY <3>1
  <2>2. Allocated = {}
    BY <2>1 DEF Allocated
  <2>. QED  BY <1>5, <2>2 DEF PagesPresent, NothingElse, Dirs
<1>9. leaf \in [Tables -> [Index -> Int]] /\ given \in [Pages -> [cpu : CPUs \cup {None}, frame : Int]]
  BY DEF Init, Junk
<1>10. \A v \in Pages : given[v].cpu # None <=> v < next_virt_page
  BY <1>4
<1>11. DataInv
  BY <1>4, <1>5, <1>7, <1>8, <1>9, <1>10 DEF DataInv
<1>. QED  BY <1>1, <1>2, <1>3, <1>11 DEF IInv

LEMMA CallAllocKeeps ==
  ASSUME IInv, NEW p \in CPUs, NEW n \in 1..MaxReq, CallAlloc(p, n)
  PROVE  IInv'
<1>. USE SizeAssumption, NoneAssumption
<1>1. /\ pc[p] = "idle" /\ pc' = [pc EXCEPT ![p] = "page"] /\ pt_mutex = None /\ pt_mutex' = p
      /\ op' = [op EXCEPT ![p] = "heap_alloc"] /\ res' = [res EXCEPT ![p] = next_virt_page]
      /\ left' = [left EXCEPT ![p] = n] /\ next_virt_page + n <= NPages
      /\ UNCHANGED <<next_virt_page, dir, leaf, last_frame, tmp, tlb, page, frame, lvl, given>>
  BY DEF CallAlloc, LockMutex, Go, memVars
<1>2. n \in Nat /\ n > 0 /\ next_virt_page \in Nat
  BY DEF IInv, DataInv
<1>3. TypeInv'
  BY <1>1, <1>2 DEF IInv, TypeInv, Labels
<1>4. \A q \in CPUs : pc[q] = "idle"
  BY <1>1, OthersIdle
<1>5. /\ pc'[p] = "page" /\ op'[p] = "heap_alloc" /\ res'[p] = next_virt_page /\ left'[p] = n
      /\ \A q \in CPUs : q # p => pc'[q] = "idle"
  BY <1>1, <1>4 DEF IInv, TypeInv
<1>6. TmpInv'
  BY <1>1, <1>4 DEF IInv, TmpInv
<1>7. AllocInv(p)'
  BY <1>1, <1>2, <1>5, CountNat DEF AllocInv
<1>8. HolderInv(p)'
  BY <1>5, <1>7 DEF HolderInv, TlbInv
<1>9. DataInv'
  BY <1>1, SameData DEF IInv, DataInv
<1>. QED  BY <1>1, <1>3, <1>5, <1>6, <1>8, <1>9, Combine

LEMMA CallTranslateKeeps ==
  ASSUME IInv, NEW p \in CPUs, NEW v \in Pages, CallTranslate(p, v)
  PROVE  IInv'
<1>. USE SizeAssumption, NoneAssumption
<1>1. /\ pc[p] = "idle" /\ pc' = [pc EXCEPT ![p] = "walk"] /\ pt_mutex = None /\ pt_mutex' = p
      /\ op' = [op EXCEPT ![p] = "virt_to_phys"] /\ page' = [page EXCEPT ![p] = v]
      /\ lvl' = [lvl EXCEPT ![p] = 0] /\ given[v].cpu # None
      /\ UNCHANGED <<next_virt_page, dir, leaf, last_frame, tmp, tlb, res, left, frame, given>>
  BY DEF CallTranslate, LockMutex, Go, memVars
<1>2. v < next_virt_page
  BY <1>1 DEF IInv, DataInv
<1>3. TypeInv'
  BY <1>1 DEF IInv, TypeInv, Labels
<1>4. \A q \in CPUs : pc[q] = "idle"
  BY <1>1, OthersIdle
<1>5. /\ pc'[p] = "walk" /\ op'[p] = "virt_to_phys" /\ page'[p] = v /\ lvl'[p] = 0
      /\ \A q \in CPUs : q # p => pc'[q] = "idle"
  BY <1>1, <1>4 DEF IInv, TypeInv
<1>6. TmpInv'
  BY <1>1, <1>4 DEF IInv, TmpInv
<1>7. HolderInv(p)'
  BY <1>1, <1>2, <1>5, UpperFacts DEF HolderInv, TranslateInv, TlbInv
<1>8. DataInv'
  BY <1>1, SameData DEF IInv, DataInv
<1>. QED  BY <1>1, <1>3, <1>5, <1>6, <1>7, <1>8, Combine

LEMMA TakeFrameKeeps == ASSUME IInv, NEW p \in CPUs, TakeFrame(p) PROVE IInv'
<1>1. /\ pc[p] = "page" /\ pc' = [pc EXCEPT ![p] = "walk"]
      /\ last_frame' = [last_frame EXCEPT !["4k"] = @ + 1]
      /\ frame' = [frame EXCEPT ![p] = last_frame["4k"] + 1]
      /\ page' = [page EXCEPT ![p] = next_virt_page] /\ lvl' = [lvl EXCEPT ![p] = 0]
      /\ UNCHANGED <<pt_mutex, next_virt_page, dir, leaf, tmp, tlb, op, res, left, given>>
  BY DEF TakeFrame, Go
<1>2. pt_mutex = p /\ HolderInv(p) /\ op[p] = "heap_alloc" /\ AllocInv(p)
  BY <1>1 DEF IInv, MutexInv, HolderInv, TranslateInv, TypeInv
<1>3. next_virt_page \in Pages
  BY <1>1, <1>2, CountNat DEF AllocInv, IInv, TypeInv, DataInv
<1>4. last_frame \in [{"pt", "4k"} -> Nat]
  BY DEF IInv, DataInv
<1>5. last_frame' \in [{"pt", "4k"} -> Nat] /\ last_frame'["pt"] = last_frame["pt"] /\ last_frame["4k"] + 1 \in Nat
  BY <1>1, <1>4
<1>6. TypeInv'
  BY <1>1, <1>3, <1>5 DEF IInv, TypeInv, Labels
<1>7. \A q \in CPUs : q # p => pc[q] = "idle"
  BY <1>1, OthersIdle
<1>8. /\ pc'[p] = "walk" /\ page'[p] = next_virt_page /\ lvl'[p] = 0 /\ frame'[p] \in Nat
      /\ \A q \in CPUs : q # p => pc'[q] = "idle"
  BY <1>1, <1>5, <1>7 DEF IInv, TypeInv
<1>9. TmpInv'
  BY <1>1, <1>7, <1>8 DEF IInv, TmpInv
<1>10. AllocInv(p)'
  BY <1>1, <1>2, <1>8 DEF AllocInv
<1>11. HolderInv(p)'
  BY <1>1, <1>2, <1>8, <1>10, UpperFacts DEF HolderInv, TlbInv
<1>12. DataInv'
  BY <1>1, <1>5, SameData DEF IInv
<1>. QED  BY <1>1, <1>2, <1>6, <1>8, <1>9, <1>11, <1>12, Combine

LEMMA OutOfMemoryKeeps == ASSUME IInv, NEW p \in CPUs, OutOfMemory(p) PROVE IInv'
<1>1. /\ pc[p] = "page" /\ pc' = [pc EXCEPT ![p] = "halted"]
      /\ UNCHANGED <<pt_mutex, next_virt_page, dir, leaf, last_frame, tmp, tlb, op, page, res, left, frame, lvl, given>>
  BY DEF OutOfMemory, Go, memVars
<1>2. pt_mutex = p /\ HolderInv(p) /\ op[p] = "heap_alloc" /\ AllocInv(p)
  BY <1>1 DEF IInv, MutexInv, HolderInv, TranslateInv, TypeInv
<1>3. TypeInv'
  BY <1>1 DEF IInv, TypeInv, Labels
<1>4. \A q \in CPUs : q # p => pc[q] = "idle"
  BY <1>1, OthersIdle
<1>5. pc'[p] = "halted" /\ \A q \in CPUs : q # p => pc'[q] = "idle"
  BY <1>1, <1>4 DEF IInv, TypeInv
<1>6. TmpInv'
  BY <1>1, <1>4, <1>5 DEF IInv, TmpInv
<1>7. AllocInv(p)' /\ HolderInv(p)'
  BY <1>1, <1>2, <1>5 DEF AllocInv, HolderInv, TlbInv
<1>8. DataInv'
  BY <1>1, SameData DEF IInv, DataInv
<1>. QED  BY <1>1, <1>2, <1>3, <1>5, <1>6, <1>7, <1>8, Combine

\* Each turn of the walk maps a frame that tmp_page does not have.
LEMMA WalkKeeps == ASSUME IInv, NEW p \in CPUs, Walk(p) PROVE IInv'
<1>. DEFINE i == lvl[p] + 1
            f == Upper[i]
<1>1. /\ pc[p] = "walk" /\ lvl[p] < Len(Upper) /\ MapTemporary(p, f)
      /\ lvl' = [lvl EXCEPT ![p] = @ + 1]
      /\ pc' = [pc EXCEPT ![p] = IF tlb'[p] = f THEN "walk" ELSE "lost"]
      /\ UNCHANGED <<pt_mutex, next_virt_page, dir, leaf, last_frame, op, page, res, left, frame, given>>
  BY DEF Walk, memVars
<1>2. pt_mutex = p /\ HolderInv(p) /\ TypeInv /\ lvl[p] \in Nat
  BY <1>1 DEF IInv, MutexInv, TypeInv
<1>3. i \in 1..Len(Upper) /\ f \in Nat /\ f \in UpperFrames
  BY <1>1, <1>2, UpperFacts
<1>4. \A q \in CPUs : q # p => pc[q] = "idle"
  BY <1>1, OthersIdle
<1>5. tmp # f
  <2>1. CASE lvl[p] = 0
    BY <1>2, <1>3, <1>4, <2>1 DEF IInv, TmpInv
  <2>2. CASE lvl[p] > 0
    <3>1. tmp = Upper[lvl[p]] /\ lvl[p] \in 1..Len(Upper) /\ lvl[p] # i
      BY <1>1, <1>2, <2>2, UpperFacts DEF HolderInv, TlbInv
    <3>. QED  BY <1>3, <3>1, UpperFacts
  <2>. QED  BY <1>2, <2>1, <2>2
<1>6. tmp' = f /\ tlb'[p] = f /\ tlb' \in [CPUs -> Nat \cup {None}]
  BY <1>1, <1>2, <1>3, <1>5, Flushed
<1>. HIDE DEF f, i
<1>7. pc' = [pc EXCEPT ![p] = "walk"] /\ pc'[p] = "walk" /\ pc' = pc
  BY <1>1, <1>2, <1>6 DEF TypeInv
<1>8. lvl'[p] = i /\ lvl' \in [CPUs -> Nat]
  BY <1>1, <1>2 DEF TypeInv, i
<1>9. TypeInv'
  BY <1>1, <1>2, <1>3, <1>6, <1>7, <1>8 DEF TypeInv
<1>10. TmpInv'
  BY <1>3, <1>7, <1>8 DEF TmpInv
<1>11. HolderInv(p)'
  <2>1. op[p] = "heap_alloc" => AllocInv(p)'
    BY <1>1, <1>2, <1>7 DEF HolderInv, AllocInv
  <2>2. op[p] = "virt_to_phys" => TranslateInv(p)'
    BY <1>1, <1>2, <1>7 DEF HolderInv, TranslateInv
  <2>3. TlbInv(p)'
    BY <1>3, <1>6, <1>7, <1>8 DEF TlbInv, f
  <2>. QED  BY <1>1, <2>1, <2>2, <2>3 DEF HolderInv
<1>12. DataInv'
  BY <1>1, SameData DEF IInv, DataInv
<1>. QED  BY <1>1, <1>2, <1>4, <1>7, <1>9, <1>10, <1>11, <1>12, Combine

\* The walk is at its end: tmp_page has the last directory, not a page table.
LEMMA AtLastDirectory ==
  ASSUME IInv, Upper # <<>>, NEW p \in CPUs, pc[p] = "walk", lvl[p] = Len(Upper), NEW f \in 0..NTables
  PROVE  tmp # f
<1>1. HolderInv(p)
  BY DEF IInv
<1>2. Len(Upper) > 0 /\ Len(Upper) \in 1..Len(Upper)
  BY UpperFacts, UpperAssumption
<1>. QED  BY <1>1, <1>2, UpperFacts DEF HolderInv, TlbInv

LEMMA MapTableKeeps == ASSUME IInv, Upper # <<>>, NEW p \in CPUs, MapTable(p) PROVE IInv'
<1>. DEFINE k == DirIndex(page[p])
            f == dir[k]
<1>1. /\ pc[p] = "walk" /\ lvl[p] = Len(Upper) /\ pc' = [pc EXCEPT ![p] = "entry"]
      /\ f # 0 /\ MapTemporary(p, f)
      /\ UNCHANGED <<pt_mutex, next_virt_page, dir, leaf, last_frame, op, page, res, left, frame, lvl, given>>
  BY DEF MapTable, Go, memVars
<1>2. pt_mutex = p /\ HolderInv(p) /\ TypeInv
  BY <1>1 DEF IInv, MutexInv
<1>3. f \in 0..NTables /\ f \in Nat
  BY PageIndex, SizeAssumption DEF IInv, TypeInv, DataInv, TableInv
<1>4. tmp' = f /\ tlb'[p] = f /\ tlb' \in [CPUs -> Nat \cup {None}]
  BY <1>1, <1>2, <1>3, AtLastDirectory, Flushed
<1>5. \A q \in CPUs : q # p => pc[q] = "idle"
  BY <1>1, OthersIdle
<1>6. pc'[p] = "entry" /\ \A q \in CPUs : q # p => pc'[q] = "idle"
  BY <1>1, <1>2, <1>5 DEF TypeInv
<1>7. TypeInv'
  BY <1>1, <1>2, <1>3, <1>4 DEF TypeInv, Labels
<1>8. TmpInv'
  BY <1>3, <1>4, UpperFacts DEF TmpInv
<1>9. HolderInv(p)'
  <2>1. op[p] = "heap_alloc" => AllocInv(p)'
    BY <1>1, <1>2, <1>6 DEF HolderInv, AllocInv
  <2>2. op[p] = "virt_to_phys" => TranslateInv(p)'
    BY <1>1, <1>2, <1>6 DEF HolderInv, TranslateInv
  <2>3. TlbInv(p)'
    BY <1>1, <1>4, <1>6 DEF TlbInv
  <2>. QED  BY <1>1, <2>1, <2>2, <2>3 DEF HolderInv
<1>10. DataInv'
  BY <1>1, SameData DEF IInv, DataInv
<1>. QED  BY <1>1, <1>2, <1>6, <1>7, <1>8, <1>9, <1>10, Combine

\* There is a frame for each page table that is missing.
LEMMA RoomForTable ==
  ASSUME TableInv, NEW k \in Dirs, dir[k] = 0
  PROVE  last_frame["pt"] < NTables
<1>1. IsFiniteSet(Dirs) /\ Cardinality(Dirs) = NTables
  BY SizeAssumption, FS_Interval DEF Dirs
<1>2. Used \subseteq Dirs /\ Used # Dirs
  BY DEF Used
<1>3. IsFiniteSet(Used) /\ Cardinality(Used) <= Cardinality(Dirs) /\ Cardinality(Used) # Cardinality(Dirs)
  BY <1>1, <1>2, FS_Subset
<1>. QED  BY <1>1, <1>3, SizeAssumption DEF TableInv

LEMMA NewTableKeeps == ASSUME IInv, Upper # <<>>, NEW p \in CPUs, NewTable(p) PROVE IInv'
<1>. USE SizeAssumption
<1>. DEFINE k == DirIndex(page[p])
            f == last_frame["pt"] + 1
<1>1. /\ pc[p] = "walk" /\ lvl[p] = Len(Upper) /\ pc' = [pc EXCEPT ![p] = "entry"] /\ op[p] = "heap_alloc"
      /\ dir[k] = 0 /\ last_frame' = [last_frame EXCEPT !["pt"] = f] /\ dir' = [dir EXCEPT ![k] = f]
      /\ MapTemporary(p, f) /\ leaf' = Zeroed(tlb'[p])
      /\ UNCHANGED <<pt_mutex, next_virt_page, op, page, res, left, frame, lvl, given>>
  BY DEF NewTable, Go
<1>2. pt_mutex = p /\ HolderInv(p) /\ AllocInv(p) /\ TypeInv /\ DataInv /\ TableInv
  BY <1>1 DEF IInv, MutexInv, HolderInv, DataInv
<1>3. k \in Dirs
  BY <1>2, PageIndex DEF TypeInv
<1>4. f \in Tables /\ f \in Nat /\ f \in 0..NTables
  BY <1>1, <1>2, <1>3, RoomForTable DEF TableInv, Tables
<1>5. tmp' = f /\ tlb'[p] = f /\ tlb' \in [CPUs -> Nat \cup {None}]
  BY <1>1, <1>2, <1>4, AtLastDirectory, Flushed
<1>6. leaf' = [leaf EXCEPT ![f] = [i \in Index |-> 0]]
  BY <1>1, <1>4, <1>5 DEF Zeroed
<1>7. \A q \in CPUs : q # p => pc[q] = "idle"
  BY <1>1, OthersIdle
<1>8. pc'[p] = "entry" /\ \A q \in CPUs : q # p => pc'[q] = "idle"
  BY <1>1, <1>2, <1>7 DEF TypeInv
<1>9. /\ last_frame' \in [{"pt", "4k"} -> Nat] /\ last_frame'["pt"] = f
      /\ dir' \in [Dirs -> 0..NTables] /\ dir'[k] = f /\ \A l \in Dirs : l # k => dir'[l] = dir[l]
      /\ leaf' \in [Tables -> [Index -> Int]] /\ (\A i \in Index : leaf'[f][i] = 0)
      /\ \A g \in Tables : g # f => leaf'[g] = leaf[g]
  BY <1>1, <1>2, <1>3, <1>4, <1>6 DEF DataInv, TableInv
<1>10. \A l \in Dirs : dir[l] # f
  BY <1>2 DEF TableInv
<1>. HIDE DEF k, f
<1>11. TypeInv'
  BY <1>1, <1>2, <1>4, <1>5 DEF TypeInv, Labels
<1>12. TmpInv'
  BY <1>4, <1>5, UpperFacts DEF TmpInv
<1>13. HolderInv(p)'
  <2>1. AllocInv(p)'
    BY <1>1, <1>2, <1>8 DEF AllocInv
  <2>2. TlbInv(p)'
    BY <1>1, <1>4, <1>5, <1>8, <1>9 DEF TlbInv, Tables, k
  <2>. QED  BY <1>1, <2>1, <2>2 DEF HolderInv
<1>14. TableInv'
  <2>1. Used' = Used \cup {k} /\ k \notin Used
    BY <1>1, <1>3, <1>4, <1>9 DEF Used, Tables
  <2>2. IsFiniteSet(Used)
    <3>1. IsFiniteSet(0..(NTables - 1))
      BY FS_Interval
    <3>. QED  BY <3>1, FS_Subset DEF Used, Dirs
  <2>3. Cardinality(Used') = Cardinality(Used) + 1
    BY <2>1, <2>2, FS_AddElement
  <2>4. \A l \in Dirs : dir'[l] <= f
    BY <1>2, <1>4, <1>9 DEF TableInv, f
  <2>5. \A l, m \in Dirs : dir'[l] = dir'[m] /\ dir'[l] # 0 => l = m
    BY <1>2, <1>9, <1>10 DEF TableInv
  <2>6. last_frame'["pt"] = Cardinality(Used')
    BY <1>2, <1>9, <2>3 DEF TableInv, f
  <2>. QED  BY <1>4, <1>9, <2>4, <2>5, <2>6 DEF TableInv
<1>15. PagesPresent'
  <2> SUFFICES ASSUME NEW v \in Pages, given[v].cpu # None
               PROVE  /\ dir'[DirIndex(v)] # 0
                      /\ leaf'[dir'[DirIndex(v)]][PtIndex(v)] = given[v].frame
    BY <1>1 DEF PagesPresent, Allocated
  <2>1. /\ dir[DirIndex(v)] # 0 /\ leaf[dir[DirIndex(v)]][PtIndex(v)] = given[v].frame
        /\ DirIndex(v) \in Dirs
    BY <1>2, PageIndex DEF DataInv, PagesPresent, Allocated
  <2>2. dir'[DirIndex(v)] = dir[DirIndex(v)] /\ dir[DirIndex(v)] \in Tables /\ dir[DirIndex(v)] # f
    BY <1>1, <1>2, <1>9, <1>10, <2>1 DEF k, TableInv, Tables
  <2>. QED  BY <1>9, <2>1, <2>2
<1>16. NothingElse'
  <2> SUFFICES ASSUME NEW l \in Dirs, dir'[l] # 0, NEW i \in Index, l * PerTable + i \notin Allocated
               PROVE  leaf'[dir'[l]][i] = 0
    BY <1>1 DEF NothingElse, Allocated, Dirs
  <2>1. CASE l = k
    BY <1>9, <2>1
  <2>2. CASE l # k
    <3>1. dir'[l] = dir[l] /\ dir[l] \in Tables /\ dir[l] # f
      BY <1>2, <1>9, <1>10, <2>2 DEF TableInv, Tables
    <3>2. leaf[dir[l]][i] = 0
      BY <1>2, <3>1 DEF DataInv, NothingElse, Dirs
    <3>. QED  BY <1>9, <3>1, <3>2
  <2>. QED  BY <2>1, <2>2
<1>17. DataInv'
  BY <1>1, <1>2, <1>9, <1>14, <1>15, <1>16 DEF DataInv
<1>. QED  BY <1>1, <1>2, <1>8, <1>11, <1>12, <1>13, <1>17, Combine

\* The entry is written to the table of its page: the CPU's TLB agrees with the
\* page table entry of tmp_page.
LEMMA SetEntryKeeps == ASSUME IInv, NEW p \in CPUs, SetEntry(p) PROVE IInv'
<1>. USE SizeAssumption
<1>. DEFINE v == page[p]
            k == DirIndex(v)
            f == dir[k]
            to == IF left[p] > 1 THEN "page" ELSE "unlock"
<1>1. /\ pc[p] = "entry" /\ op[p] = "heap_alloc" /\ pc' = [pc EXCEPT ![p] = to]
      /\ tlb' = [tlb EXCEPT ![p] = Reached(p, tmp)]
      /\ leaf' = IF Reached(p, tmp) \in Tables /\ leaf[Reached(p, tmp)][PtIndex(v)] = 0
                 THEN [leaf EXCEPT ![Reached(p, tmp)][PtIndex(v)] = frame[p]] ELSE leaf
      /\ given' = [given EXCEPT ![v] = [cpu |-> p, frame |-> frame[p]]]
      /\ next_virt_page' = next_virt_page + 1 /\ left' = [left EXCEPT ![p] = @ - 1]
      /\ UNCHANGED <<pt_mutex, dir, last_frame, tmp, op, page, res, frame, lvl>>
  BY DEF SetEntry, Go
<1>2. /\ pt_mutex = p /\ HolderInv(p) /\ AllocInv(p) /\ TlbInv(p) /\ TypeInv /\ DataInv /\ TableInv
      /\ v = next_virt_page /\ frame[p] \in Nat /\ left[p] > 0 /\ next_virt_page + left[p] <= NPages
  BY <1>1 DEF IInv, MutexInv, HolderInv, DataInv, AllocInv
<1>3. v \in Pages /\ k \in Dirs /\ PtIndex(v) \in Index /\ v = k * PerTable + PtIndex(v)
  BY <1>2, PageIndex DEF TypeInv
<1>4. f # 0 /\ tmp = f /\ f \in Tables /\ Reached(p, tmp) = f
  BY <1>1, <1>2, <1>3 DEF TlbInv, Reached, TableInv, Tables
<1>5. v \notin Allocated
  BY <1>2, <1>3 DEF DataInv, Allocated
<1>6. leaf[f][PtIndex(v)] = 0
  BY <1>2, <1>3, <1>4, <1>5 DEF DataInv, NothingElse, Dirs
<1>7. /\ leaf' = [leaf EXCEPT ![f][PtIndex(v)] = frame[p]]
      /\ tlb' \in [CPUs -> Nat \cup {None}]
  BY <1>1, <1>2, <1>4, <1>6 DEF TypeInv, Tables
<1>8. /\ leaf' \in [Tables -> [Index -> Int]] /\ leaf'[f][PtIndex(v)] = frame[p]
      /\ \A g \in Tables, i \in Index : g # f \/ i # PtIndex(v) => leaf'[g][i] = leaf[g][i]
  BY <1>2, <1>3, <1>4, <1>7 DEF DataInv
<1>9. /\ given' \in [Pages -> [cpu : CPUs \cup {None}, frame : Int]]
      /\ given'[v] = [cpu |-> p, frame |-> frame[p]] /\ \A w \in Pages : w # v => given'[w] = given[w]
  BY <1>1, <1>2, <1>3 DEF DataInv
<1>10. \A q \in CPUs : q # p => pc[q] = "idle"
  BY <1>1, OthersIdle
<1>11. /\ pc'[p] = to /\ pc' \in [CPUs -> Labels] /\ (\A q \in CPUs : q # p => pc'[q] = "idle")
       /\ left'[p] = left[p] - 1 /\ left' \in [CPUs -> Nat]
  BY <1>1, <1>2, <1>10 DEF TypeInv, Labels
<1>. HIDE DEF k, f, v
<1>12. TypeInv'
  BY <1>1, <1>2, <1>7, <1>11 DEF TypeInv
<1>13. TmpInv'
  <2>1. f \in 0..NTables
    BY <1>4 DEF Tables
  <2>. QED  BY <1>1, <1>4, <2>1, UpperFacts DEF TmpInv
<1>14. Allocated' = Allocated \cup {v}
  <2>1. given'[v].cpu # None
    BY <1>9, NoneAssumption
  <2>2. \A w \in Pages : given'[w].cpu # None <=> given[w].cpu # None \/ w = v
    BY <1>9, <2>1
  <2>. QED  BY <1>3, <2>2 DEF Allocated
<1>15. HolderInv(p)'
  <2>1. ASSUME NEW w \in Pages, res[p] <= w, w < next_virt_page + 1
        PROVE  given'[w].cpu = p
    <3>1. CASE w = v
      BY <1>9, <3>1
    <3>2. CASE w # v
      <4>0. w \in Nat /\ next_virt_page \in Nat
        BY <1>2, CountNat DEF DataInv
      <4>1. w < next_virt_page
        BY <1>2, <2>1, <3>2, <4>0
      <4>. QED  BY <1>2, <1>9, <2>1, <3>2, <4>1 DEF AllocInv
    <3>. QED  BY <3>1, <3>2
  <2>2. res[p] <= next_virt_page + 1
    BY <1>2 DEF AllocInv, TypeInv, DataInv
  <2>3. left[p] > 1 => left[p] - 1 > 0 /\ next_virt_page + 1 + (left[p] - 1) <= NPages
    BY <1>2, CountNat DEF TypeInv, DataInv
  <2>4. AllocInv(p)'
    BY <1>1, <1>11, <2>1, <2>2, <2>3 DEF AllocInv
  <2>5. TlbInv(p)'
    BY <1>11 DEF TlbInv
  <2>. QED  BY <1>1, <2>4, <2>5 DEF HolderInv
<1>16. PagesPresent'
  <2> SUFFICES ASSUME NEW w \in Allocated'
               PROVE  /\ dir[DirIndex(w)] # 0
                      /\ leaf'[dir[DirIndex(w)]][PtIndex(w)] = given'[w].frame
    BY <1>1 DEF PagesPresent
  <2>1. CASE w = v
    BY <1>4, <1>8, <1>9, <2>1 DEF f, k
  <2>2. CASE w # v
    <3>1. w \in Allocated /\ w \in Pages
      BY <1>14, <2>2 DEF Allocated
    <3>2. /\ dir[DirIndex(w)] # 0 /\ leaf[dir[DirIndex(w)]][PtIndex(w)] = given[w].frame
      BY <1>2, <3>1 DEF DataInv, PagesPresent
    <3>3. DirIndex(w) \in Dirs /\ PtIndex(w) \in Index /\ w = DirIndex(w) * PerTable + PtIndex(w)
      BY <3>1, PageIndex
    <3>4. dir[DirIndex(w)] \in Tables
      BY <1>2, <3>2, <3>3 DEF TableInv, Tables
    <3>5. dir[DirIndex(w)] # f \/ PtIndex(w) # PtIndex(v)
      <4>1. SUFFICES ASSUME dir[DirIndex(w)] = f PROVE PtIndex(w) # PtIndex(v)
        OBVIOUS
      <4>2. DirIndex(w) = k
        BY <1>2, <1>3, <1>4, <3>3, <4>1 DEF TableInv, f
      <4>. QED  BY <1>3, <2>2, <3>3, <4>2
    <3>. QED  BY <1>8, <1>9, <2>2, <3>1, <3>2, <3>3, <3>4, <3>5
  <2>. QED  BY <2>1, <2>2
<1>17. NothingElse'
  <2> SUFFICES ASSUME NEW l \in Dirs, dir[l] # 0, NEW i \in Index, l * PerTable + i \notin Allocated'
               PROVE  leaf'[dir[l]][i] = 0
    BY <1>1 DEF NothingElse, Dirs
  <2>1. leaf[dir[l]][i] = 0
    BY <1>2, <1>14 DEF DataInv, NothingElse, Dirs
  <2>2. dir[l] # f \/ i # PtIndex(v)
    BY <1>2, <1>3, <1>4, <1>14 DEF TableInv, f
  <2>3. dir[l] \in Tables
    BY <1>2 DEF TableInv, Tables
  <2>. QED  BY <1>8, <2>1, <2>2, <2>3
<1>18. DataInv'
  <2>1. next_virt_page' \in Nat /\ next_virt_page' <= NPages
    BY <1>1, <1>2, CountNat DEF DataInv, TypeInv
  <2>2. \A w \in Pages : given'[w].cpu # None <=> w < next_virt_page'
    BY <1>1, <1>2, <1>3, <1>9, CountNat, NoneAssumption DEF DataInv
  <2>3. TableInv'
    BY <1>1, <1>2 DEF TableInv, Used
  <2>. QED  BY <1>1, <1>2, <1>8, <1>9, <1>16, <1>17, <2>1, <2>2, <2>3 DEF DataInv
<1>. QED  BY <1>1, <1>2, <1>11, <1>12, <1>13, <1>15, <1>18, Combine

LEMMA ReadEntryKeeps == ASSUME IInv, NEW p \in CPUs, ReadEntry(p) PROVE IInv'
<1>. USE SizeAssumption
<1>. DEFINE v == page[p]
            f == dir[DirIndex(v)]
<1>1. /\ pc[p] = "entry" /\ op[p] = "virt_to_phys" /\ pc' = [pc EXCEPT ![p] = "unlock"]
      /\ tlb' = [tlb EXCEPT ![p] = Reached(p, tmp)]
      /\ frame' = [frame EXCEPT ![p] = IF Reached(p, tmp) \in Tables THEN leaf[Reached(p, tmp)][PtIndex(v)] ELSE Junk]
      /\ UNCHANGED <<pt_mutex, next_virt_page, dir, leaf, last_frame, tmp, op, page, res, left, lvl, given>>
  BY DEF ReadEntry, Go, memVars
<1>2. /\ pt_mutex = p /\ HolderInv(p) /\ TranslateInv(p) /\ TlbInv(p) /\ TypeInv /\ DataInv /\ TableInv
  BY <1>1 DEF IInv, MutexInv, HolderInv, DataInv
<1>3. v \in Pages /\ DirIndex(v) \in Dirs /\ PtIndex(v) \in Index
  BY <1>2, PageIndex DEF TypeInv
<1>4. tmp = f /\ f \in Tables /\ Reached(p, tmp) = f
  BY <1>1, <1>2, <1>3 DEF TlbInv, Reached, TableInv, Tables
<1>5. v \in Allocated
  BY <1>2, <1>3 DEF TranslateInv, DataInv, Allocated
<1>6. leaf[f][PtIndex(v)] = given[v].frame /\ leaf[f][PtIndex(v)] \in Int
  BY <1>2, <1>3, <1>4, <1>5 DEF DataInv, PagesPresent
<1>7. \A q \in CPUs : q # p => pc[q] = "idle"
  BY <1>1, OthersIdle
<1>8. /\ pc'[p] = "unlock" /\ (\A q \in CPUs : q # p => pc'[q] = "idle")
      /\ frame'[p] = given[v].frame
  BY <1>1, <1>2, <1>4, <1>6, <1>7 DEF TypeInv
<1>9. frame' = [frame EXCEPT ![p] = leaf[f][PtIndex(v)]] /\ tlb' = [tlb EXCEPT ![p] = f] /\ f \in Nat
  BY <1>1, <1>4 DEF Tables
<1>. HIDE DEF f
<1>10. TypeInv'
  BY <1>1, <1>2, <1>6, <1>9 DEF TypeInv, Labels
<1>11. TmpInv'
  <2>1. f \in 0..NTables
    BY <1>4 DEF Tables
  <2>. QED  BY <1>1, <1>4, <2>1, UpperFacts DEF TmpInv
<1>12. HolderInv(p)'
  BY <1>1, <1>2, <1>8 DEF HolderInv, TranslateInv, TlbInv
<1>13. DataInv'
  BY <1>1, SameData DEF IInv, DataInv
<1>. QED  BY <1>1, <1>2, <1>8, <1>10, <1>11, <1>12, <1>13, Combine

LEMMA UnlockKeeps == ASSUME IInv, NEW p \in CPUs, Unlock(p) PROVE IInv'
<1>1. /\ pc[p] = "unlock" /\ pc' = [pc EXCEPT ![p] = "idle"] /\ pt_mutex' = None
      /\ UNCHANGED <<next_virt_page, dir, leaf, last_frame, tmp, tlb, op, page, res, left, frame, lvl, given>>
  BY DEF Unlock, Go, memVars
<1>2. TypeInv'
  BY <1>1 DEF IInv, TypeInv, Labels
<1>3. \A q \in CPUs : q # p => pc[q] = "idle"
  BY <1>1, OthersIdle
<1>4. pc'[p] = "idle" /\ \A q \in CPUs : q # p => pc'[q] = "idle"
  BY <1>1, <1>3 DEF IInv, TypeInv
<1>5. TmpInv'
  BY <1>1, <1>3, <1>4 DEF IInv, TmpInv
<1>6. DataInv'
  BY <1>1, SameData DEF IInv, DataInv
<1>. QED  BY <1>1, <1>2, <1>4, <1>5, <1>6, Combine

LEMMA EvictKeeps == ASSUME IInv, NEW p \in CPUs, Evict(p) PROVE IInv'
<1>1. /\ tlb' = [tlb EXCEPT ![p] = None]
      /\ UNCHANGED <<pt_mutex, next_virt_page, dir, leaf, last_frame, tmp, pc, op, page, res, left, frame, lvl, given>>
  BY DEF Evict, memVars
<1>2. TypeInv'
  BY <1>1 DEF IInv, TypeInv
<1>3. \A q \in CPUs : tlb'[q] \in {None, tlb[q]}
  BY <1>1 DEF IInv, TypeInv
<1>4. ASSUME NEW q \in CPUs, HolderInv(q) PROVE HolderInv(q)'
  BY <1>1, <1>3, <1>4 DEF HolderInv, AllocInv, TranslateInv, TlbInv
<1>5. DataInv'
  BY <1>1, SameData DEF IInv, DataInv
<1>. QED  BY <1>1, <1>2, <1>4, <1>5 DEF IInv, MutexInv, TmpInv

LEMMA StepIInv == Upper # <<>> /\ IInv /\ [Next]_vars => IInv'
<1> SUFFICES ASSUME Upper # <<>>, IInv, [Next]_vars PROVE IInv'
  OBVIOUS
<1>1. CASE UNCHANGED vars
  <2>1. UNCHANGED <<pt_mutex, next_virt_page, dir, leaf, last_frame, tmp, tlb, pc, op, page, res, left, frame, lvl, given>>
    BY <1>1 DEF vars, memVars
  <2>2. DataInv'
    BY <2>1, SameData DEF IInv, DataInv
  <2>3. TypeInv' /\ MutexInv' /\ TmpInv'
    BY <2>1 DEF IInv, TypeInv, MutexInv, TmpInv
  <2>4. ASSUME NEW q \in CPUs, HolderInv(q) PROVE HolderInv(q)'
    BY <2>1, <2>4 DEF HolderInv, AllocInv, TranslateInv, TlbInv
  <2>. QED  BY <2>1, <2>2, <2>3, <2>4 DEF IInv
<1>. QED
  BY <1>1, CallAllocKeeps, CallTranslateKeeps, TakeFrameKeeps, OutOfMemoryKeeps, WalkKeeps, MapTableKeeps,
     NewTableKeeps, SetEntryKeeps, ReadEntryKeeps, UnlockKeeps, EvictKeeps
  DEF Next

-----------------------------------------------------------------------------
LEMMA Invariance == ASSUME Upper # <<>> PROVE Spec => []IInv
<1>1. IInv /\ [Next]_vars => IInv'
  BY StepIInv
<1>. QED  BY <1>1, InitIInv, PTL DEF Spec

\* "pages are present after heap_alloc()" (payload.c, line 72), in 64 bit mode.
THEOREM HeapMapped == ASSUME Upper # <<>> PROVE Spec => []PagesPresent
<1>1. IInv => PagesPresent
  BY DEF IInv, DataInv
<1>. QED  BY <1>1, Invariance, PTL

\* No entry is left over in a page table or put into a wrong one, in 64 bit mode.
THEOREM HeapOnly == ASSUME Upper # <<>> PROVE Spec => []NothingElse
<1>1. IInv => NothingElse
  BY DEF IInv, DataInv
<1>. QED  BY <1>1, Invariance, PTL

\* virt_to_phys() is right about every page of the heap, in 64 bit mode.
THEOREM HeapTranslated == ASSUME Upper # <<>> PROVE Spec => []Translated
<1>1. IInv => Translated
  BY DEF IInv, HolderInv, TranslateInv, Translated
<1>. QED  BY <1>1, Invariance, PTL

\* The pages of one heap_alloc() follow each other, in 64 bit mode.
THEOREM HeapConsecutive == ASSUME Upper # <<>> PROVE Spec => []Consecutive
<1>1. IInv => Consecutive
  <2> SUFFICES ASSUME IInv, NEW p \in CPUs, op[p] = "heap_alloc", pc[p] # "idle",
                      NEW v \in res[p]..(next_virt_page - 1)
               PROVE  given[v].cpu = p
    BY DEF Consecutive
  <2>1. AllocInv(p) /\ res[p] \in Nat /\ next_virt_page \in Nat /\ next_virt_page <= NPages
    BY DEF IInv, HolderInv, TypeInv, DataInv
  <2>2. v \in Pages /\ res[p] <= v /\ v < next_virt_page
    BY <2>1, CountNat
  <2>. QED  BY <2>1, <2>2 DEF AllocInv
<1>. QED  BY <1>1, Invariance, PTL
=============================================================================
