----------------------------- MODULE PageTable -----------------------------
(***************************************************************************)
(* The heap of mm.c: heap_alloc(), virt_to_phys() and what they are built   *)
(* from, map_frame_to_adr() and map_temporary(), called by several CPUs.    *)
(* Page tables are reached through one virtual page, tmp_page, that         *)
(* map_temporary() points at one table after the other.  pt_mutex guards    *)
(* the tables and the entry of tmp_page, but each CPU has a TLB of its own. *)
(* The sequence Upper lists the directories between pd1, which is always    *)
(* mapped, and the page tables: two in 64 bit mode, none in 32 bit mode.    *)
(***************************************************************************)
EXTENDS Integers, Sequences, FiniteSets

CONSTANTS CPUs,
          Upper,       \* the frames of the directories below pd1 on the way to the heap
          NTables,     \* the page tables the heap may need
          PerTable,    \* the entries of a page table
          Frames4k,    \* the frames of type FRAME_TYPE_4k
          MaxReq,      \* the most pages a caller asks for
          None         \* no entry in the TLB

ASSUME SizeAssumption ==
  NTables \in Nat \ {0} /\ PerTable \in Nat \ {0} /\ Frames4k \in Nat /\ MaxReq \in Nat \ {0}

ASSUME NoneAssumption == None \notin CPUs /\ None \notin Nat

ASSUME UpperAssumption ==
  /\ Upper \in Seq(Nat)
  /\ \A i, j \in DOMAIN Upper : Upper[i] > NTables /\ (Upper[i] = Upper[j] => i = j)

VARIABLES pt_mutex,         \* the CPU that holds it, or None
          next_virt_page,   \* counted from the first page of the heap
          dir,              \* the frame of each page table, 0 if there is none yet
          leaf,             \* the contents of the frames that are page tables
          last_frame,       \* how many frames of each type get_free_frame() gave
          tmp,              \* the frame in the page table entry of tmp_page
          tlb,              \* what each CPU's TLB has for tmp_page
          pc, op,           \* where each CPU is, and in which function
          page,             \* the page it works on
          res,              \* the first of the pages heap_alloc() returns
          left,             \* the pages heap_alloc() has still to map
          frame,            \* the frame it maps, or virt_to_phys() found
          lvl,              \* the directories it has gone through
          given             \* history: the CPU and the frame of each page

memVars == <<next_virt_page, dir, leaf, last_frame>>
vars == <<pt_mutex, memVars, tmp, tlb, pc, op, page, res, left, frame, lvl, given>>

NPages == NTables * PerTable
Pages == 0..(NPages - 1)
Tables == 1..NTables
Index == 0..(PerTable - 1)
Junk == -1                  \* what a frame holds that was never written
UpperFrames == {Upper[i] : i \in DOMAIN Upper}
Boot == 0                   \* the frame tmp_page has when the kernel starts
TmpFrames == UpperFrames \cup Tables \cup {Boot}

Init ==
  /\ pt_mutex = None
  /\ next_virt_page = 0
  /\ dir = [k \in 0..(NTables - 1) |-> 0]
  /\ \E j \in {0, Junk} : leaf = [f \in Tables |-> [i \in Index |-> j]]
  /\ last_frame = [t \in {"pt", "4k"} |-> 0]
  /\ tmp = Boot
  /\ tlb = [p \in CPUs |-> None]
  /\ pc = [p \in CPUs |-> "idle"]
  /\ op = [p \in CPUs |-> "heap_alloc"]
  /\ page = [p \in CPUs |-> 0] /\ res = [p \in CPUs |-> 0] /\ left = [p \in CPUs |-> 0]
  /\ frame = [p \in CPUs |-> 0]
  /\ lvl = [p \in CPUs |-> 0]
  /\ given = [v \in Pages |-> [cpu |-> None, frame |-> 0]]

\* The entries an address goes through, pd3_index() (pd1_index() in 32 bit
\* mode) and pt_index().
DirIndex(v) == v \div PerTable
PtIndex(v) == v % PerTable

Go(p, from, to) ==
  /\ pc[p] = from
  /\ pc' = [pc EXCEPT ![p] = to]

\* The frame an access of p to tmp_page reaches, when the entry holds f.
Reached(p, f) == IF tlb[p] = None THEN f ELSE tlb[p]

-----------------------------------------------------------------------------
(* Plausible defects, one definition each, for the mutation runs.          *)

NoInvlpg(p, f) ==
  /\ tmp' = f
  /\ tlb' = [tlb EXCEPT ![p] = Reached(p, f)]

NotZeroed(f) == leaf

LockIgnored(p) == pt_mutex' = p

-----------------------------------------------------------------------------
(* The code.                                                               *)

\* map_temporary(f), and the access that follows: the entry of the TLB is
\* invalidated only if the page table entry has to be changed.
MapTemporary(p, f) ==
  /\ tmp' = f
  /\ tlb' = [tlb EXCEPT ![p] = IF tmp # f THEN f ELSE Reached(p, f)]

\* memset(pt, 0, 4096)
Zeroed(f) == IF f \in Tables THEN [leaf EXCEPT ![f] = [i \in Index |-> 0]] ELSE leaf

\* mutex_lock(&pt_mutex)
LockMutex(p) == pt_mutex = None /\ pt_mutex' = p

\* heap_alloc(n); the callers never ask for more than the address space has.
CallAlloc(p, n) ==
  /\ Go(p, "idle", "page")
  /\ LockMutex(p)
  /\ next_virt_page + n <= NPages
  /\ op' = [op EXCEPT ![p] = "heap_alloc"]
  /\ res' = [res EXCEPT ![p] = next_virt_page]
  /\ left' = [left EXCEPT ![p] = n]
  /\ UNCHANGED <<memVars, tmp, tlb, page, frame, lvl, given>>

\* virt_to_phys(v), of a page that some heap_alloc() returned.
CallTranslate(p, v) ==
  /\ Go(p, "idle", "walk")
  /\ given[v].cpu # None
  /\ LockMutex(p)
  /\ op' = [op EXCEPT ![p] = "virt_to_phys"]
  /\ page' = [page EXCEPT ![p] = v]
  /\ lvl' = [lvl EXCEPT ![p] = 0]
  /\ UNCHANGED <<memVars, tmp, tlb, res, left, frame, given>>

\* The next turn of heap_alloc()'s loop: get_free_frame(FRAME_TYPE_4k).
TakeFrame(p) ==
  /\ Go(p, "page", "walk")
  /\ last_frame["4k"] < Frames4k
  /\ last_frame' = [last_frame EXCEPT !["4k"] = @ + 1]
  /\ frame' = [frame EXCEPT ![p] = last_frame["4k"] + 1]
  /\ page' = [page EXCEPT ![p] = next_virt_page]
  /\ lvl' = [lvl EXCEPT ![p] = 0]
  /\ UNCHANGED <<pt_mutex, next_virt_page, dir, leaf, tmp, tlb, op, res, left, given>>

\* get_free_frame() does not return: "ERROR: out of memory!"
OutOfMemory(p) ==
  /\ Go(p, "page", "halted")
  /\ last_frame["4k"] = Frames4k
  /\ UNCHANGED <<pt_mutex, memVars, tmp, tlb, op, page, res, left, frame, lvl, given>>

\* The walk maps the next directory, which is there, and reads its entry.  What
\* happens when another frame is read is not modelled.
Walk(p) ==
  /\ pc[p] = "walk" /\ lvl[p] < Len(Upper)
  /\ MapTemporary(p, Upper[lvl[p] + 1])
  /\ lvl' = [lvl EXCEPT ![p] = @ + 1]
  /\ pc' = [pc EXCEPT ![p] = IF tlb'[p] = Upper[lvl[p] + 1] THEN "walk" ELSE "lost"]
  /\ UNCHANGED <<pt_mutex, memVars, op, page, res, left, frame, given>>

\* The last directory has the page table: map it.
MapTable(p) ==
  /\ Go(p, "walk", "entry")
  /\ lvl[p] = Len(Upper)
  /\ dir[DirIndex(page[p])] # 0
  /\ MapTemporary(p, dir[DirIndex(page[p])])
  /\ UNCHANGED <<pt_mutex, memVars, op, page, res, left, frame, lvl, given>>

\* It does not: get_free_frame(FRAME_TYPE_PT), enter it, map it and clear it.
NewTable(p) ==
  /\ Go(p, "walk", "entry")
  /\ op[p] = "heap_alloc"
  /\ lvl[p] = Len(Upper)
  /\ dir[DirIndex(page[p])] = 0
  /\ LET f == last_frame["pt"] + 1 IN
       /\ last_frame' = [last_frame EXCEPT !["pt"] = f]
       /\ dir' = [dir EXCEPT ![DirIndex(page[p])] = f]
       /\ MapTemporary(p, f)
       /\ leaf' = Zeroed(tlb'[p])
  /\ UNCHANGED <<pt_mutex, next_virt_page, op, page, res, left, frame, lvl, given>>

\* map_frame_to_adr() writes the entry if the page is not present, and
\* heap_alloc() goes on to the next page.
SetEntry(p) ==
  /\ op[p] = "heap_alloc"
  /\ Go(p, "entry", IF left[p] > 1 THEN "page" ELSE "unlock")
  /\ LET f == Reached(p, tmp)
         i == PtIndex(page[p])
     IN  /\ tlb' = [tlb EXCEPT ![p] = f]
         /\ leaf' = IF f \in Tables /\ leaf[f][i] = 0
                    THEN [leaf EXCEPT ![f][i] = frame[p]] ELSE leaf
  /\ given' = [given EXCEPT ![page[p]] = [cpu |-> p, frame |-> frame[p]]]
  /\ next_virt_page' = next_virt_page + 1
  /\ left' = [left EXCEPT ![p] = @ - 1]
  /\ UNCHANGED <<pt_mutex, dir, last_frame, tmp, op, page, res, frame, lvl>>

\* virt_to_phys() reads the entry.
ReadEntry(p) ==
  /\ op[p] = "virt_to_phys"
  /\ Go(p, "entry", "unlock")
  /\ LET f == Reached(p, tmp) IN
       /\ tlb' = [tlb EXCEPT ![p] = f]
       /\ frame' = [frame EXCEPT ![p] = IF f \in Tables THEN leaf[f][PtIndex(page[p])] ELSE Junk]
  /\ UNCHANGED <<pt_mutex, memVars, tmp, op, page, res, left, lvl, given>>

\* mutex_unlock(&pt_mutex), and back to the caller.
Unlock(p) ==
  /\ Go(p, "unlock", "idle")
  /\ pt_mutex' = None
  /\ UNCHANGED <<memVars, tmp, tlb, op, page, res, left, frame, lvl, given>>

\* A CPU may drop an entry of its TLB at any time.
Evict(p) ==
  /\ tlb[p] # None
  /\ tlb' = [tlb EXCEPT ![p] = None]
  /\ UNCHANGED <<pt_mutex, memVars, tmp, pc, op, page, res, left, frame, lvl, given>>

Next ==
  \E p \in CPUs :
    \/ \E n \in 1..MaxReq : CallAlloc(p, n)
    \/ \E v \in Pages : CallTranslate(p, v)
    \/ TakeFrame(p) \/ OutOfMemory(p)
    \/ Walk(p) \/ MapTable(p) \/ NewTable(p)
    \/ SetEntry(p) \/ ReadEntry(p) \/ Unlock(p)
    \/ Evict(p)

Spec == Init /\ [][Next]_vars

-----------------------------------------------------------------------------
(* Correctness.                                                            *)

Allocated == {v \in Pages : given[v].cpu # None}

\* "pages are present after heap_alloc()" (payload.c, line 72): each page is
\* mapped to the frame that was allocated for it.
PagesPresent ==
  \A v \in Allocated :
    dir[DirIndex(v)] # 0 /\ leaf[dir[DirIndex(v)]][PtIndex(v)] = given[v].frame

\* Nothing else is mapped: no table has an entry for a page that was not
\* allocated, neither left over in the frame nor put there in mistake.
NothingElse ==
  \A k \in 0..(NTables - 1) : dir[k] # 0 =>
    \A i \in Index : k * PerTable + i \notin Allocated => leaf[dir[k]][i] = 0

\* virt_to_phys() returns the frame heap_alloc() gave the page.
Translated ==
  \A p \in CPUs : op[p] = "virt_to_phys" /\ pc[p] = "unlock" => frame[p] = given[page[p]].frame

\* The pages from the one heap_alloc() will return up to the next free one are
\* the caller's own: no other call takes a page in between.
Consecutive ==
  \A p \in CPUs : op[p] = "heap_alloc" /\ pc[p] # "idle" =>
    \A v \in res[p]..(next_virt_page - 1) : given[v].cpu = p
=============================================================================
