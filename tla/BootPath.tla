------------------------------ MODULE BootPath ------------------------------
(***************************************************************************)
(* The way from the boot loader to main(): get_info() (BootInfo) finds the   *)
(* CPUs and the options, main_bsp() and apic_init() start the APs with them   *)
(* (SmpBoot).                                                              *)
(***************************************************************************)
EXTENDS BootInfo, SmpBoot

pathVars == <<infoVars, vars>>

PathInit ==
  /\ InfoInit
  /\ AtReset
  /\ cpu_cnt = 1 /\ sel = {}

-----------------------------------------------------------------------------
(* The code.                                                               *)

\* apic_init(): v is an AP that is listed and that the options do not exclude.
Wanted(v) ==
  /\ v < Len(cpu)
  /\ v < opts.maxcpu
  /\ (opts.cpumask \div 2^v) % 2 = 1

\* The kernel takes over hw_info.
EnterKernel ==
  /\ ph = "done" /\ ph' = "kernel"
  /\ cpu_cnt' = Len(cpu)
  /\ sel' = {v \in APs : Wanted(v)}
  /\ UNCHANGED <<fw, i, j, opts, cache, ebda, tables>>
  /\ UNCHANGED <<alive, bootVars, pc, countVars, barrierVars>>

Info == InfoStep /\ UNCHANGED vars

Kernel(Step) == ph = "kernel" /\ Step /\ UNCHANGED infoVars

PathNext ==
  \/ Info
  \/ EnterKernel
  \/ Kernel(BspStep)
  \/ \E p \in APs : Kernel(ApStep(p))

\* Every CPU keeps executing; until the kernel is entered it is the BSP only.
PathSpec ==
  /\ PathInit /\ [][PathNext]_pathVars
  /\ WF_pathVars(Info \/ EnterKernel \/ Kernel(BspStep))
  /\ \A p \in APs : WF_pathVars(Kernel(ApStep(p)))

-----------------------------------------------------------------------------
(* Correctness.                                                            *)

Known == ph \in {"done", "kernel"}

\* The ids of the CPUs or I/O APICs among the first n entries of a list, and those
\* of the whole list; flags are the values of the flag a reader accepts.
IdsUpTo(entries, kind, flags) ==
  LET ids[n \in 0..Len(entries)] ==
        IF n = 0 THEN <<>>
        ELSE IF entries[n].kind = kind /\ entries[n].en \in flags THEN Append(ids[n - 1], entries[n].id)
        ELSE ids[n - 1]
  IN ids
Ids(entries, kind, flags) == IdsUpTo(entries, kind, flags)[Len(entries)]

Madts == {fw.rsdt[k] : k \in {k \in 1..Len(fw.rsdt) : fw.rsdt[k].sig = "APIC" /\ fw.rsdt[k].sumOK}}

\* The MPS tables can be found and are intact, and have all that CheckInfo wants.
MpsComplete ==
  /\ MpsUsable /\ fw.mps.extdOK /\ fw.mps.lapic_adr # 0
  /\ \A kind \in {"cpu", "ioapic"} :
       \E k \in DOMAIN fw.mps.entries : fw.mps.entries[k].kind = kind /\ fw.mps.entries[k].en

\* The list of CPUs the kernel works with is the list of the enabled CPUs of one
\* table with a right checksum, complete and in its order, and the I/O APICs are
\* those of the same table; or it is the guess of a single CPU.  Nothing is left
\* over in it from a table that was read before, and a machine with a usable MPS
\* table and no usable ACPI table does not end up as a single CPU.
OneTable ==
  Known =>
    \/ \E t \in Madts : cpu = Ids(t.entries, "cpu", {TRUE}) /\ ioapic = Ids(t.entries, "ioapic", BOOLEAN)
    \/ /\ fw.mps.baseOK /\ fw.mps.extdOK
       /\ cpu = Ids(fw.mps.entries, "cpu", {TRUE}) /\ ioapic = Ids(fw.mps.entries, "ioapic", {TRUE})
    \/ cpu = <<0>> /\ ioapic = <<>> /\ (Madts # {} \/ ~MpsComplete)

\* The EBDA that is searched for the tables is the one of the BIOS data area,
\* although cpu_features() writes a fifth cache over ebda_adr and ebda_size.
EbdaOfBios == ph \notin {"cpuid", "cmdline", "bda", "halted"} => ebda = fw.ebda

\* A maxcpu= or a cpumask= of the command line that is not its first word and does
\* not follow a flag is in force in the end, unless a later one of the same kind
\* is, or the strings behind the command line have one.
Follows(w, k) == k > 1 /\ w[k - 1] # Nul /\ w[k - 1].opt \notin Flags
LastOf(opt) ==
  LET w == fw.text
      all == {k \in 2..Len(w) : w[k].opt = opt /\ w[k - 1] # Nul}
  IN {k \in all : Follows(w, k) /\ \A m \in all : m <= k}
OptionsTaken ==
  Known =>
    /\ \A k \in LastOf("maxcpu=") : opts.maxcpu = fw.text[k].val
    /\ \A k \in LastOf("cpumask=") : opts.cpumask = fw.text[k].val

\* Every CPU of the tables that the options allow and that reacts gets to main(),
\* and the BSP with them, whatever else is wrong with the tables; only a machine
\* with too many PCIe configuration spaces stops before.
PathEnds == <>(ph = "halted" \/ \A p \in {0} \cup {v \in alive : Wanted(v)} : ph = "kernel" /\ pc[p] = "main")
=============================================================================
