------------------------------ MODULE BootInfo ------------------------------
(***************************************************************************)
(* get_info() of boot32.c: what the kernel learns about the machine before  *)
(* it is in protected mode.  CPUID, the command line, the BIOS data area,   *)
(* the ACPI tables and the tables of the Multiprocessor Specification (MPS) *)
(* are read in this order into hw_info, each with its own ways to fail.     *)
(*                                                                         *)
(* A table is the record of what the code looks at: its place, whether its  *)
(* checksum is right, and its entries.  A loop is one step per turn.        *)
(***************************************************************************)
EXTENDS Integers, Sequences

CONSTANTS MaxCache,    \* MAX_CACHE
          MaxPcie,     \* MAX_PCIE
          DefaultMax,  \* hw_info.cmd_maxcpu without an option: MAX_CPU
          DefaultMask, \* hw_info.cmd_cpumask: 0xFFFFFFFF, all bits
          Machines     \* the contents of the memory the code is checked with

VARIABLES fw,         \* what the firmware and the boot loader have left
          ph,         \* where get_info() is
          i, j,       \* its loop counters, or the cursor in the command line
          opts,       \* hw_info.cmd_*
          cache,      \* hw_info.cpuid_cache[]
          ebda,       \* hw_info.ebda_adr and ebda_size; MAX_CACHE entries end before it
          lapic_adr, cpu, ioapic, pcie      \* the rest of hw_info

tables == <<lapic_adr, cpu, ioapic, pcie>>
infoVars == <<fw, ph, i, j, opts, cache, ebda, tables>>

-----------------------------------------------------------------------------
(* The tables.                                                             *)

\* Places in the memory, with the distance from the beginning of the EBDA.
InEbda(d) == [area |-> "ebda", dist |-> d]
Elsewhere(a) == [area |-> a, dist |-> 0]
Places == [area : {"ebda", "639k", "rom", "none"}, dist : Nat]

\* madt_lapic_t or mps_conf_processor_t, madt_ioapic_t or mps_conf_ioapic_t
Entries == Seq([kind : {"cpu", "ioapic", "other"}, id : Nat, en : BOOLEAN])

\* rsdp_t, rsdt_t and desc_hdr_t
RsdpTable == [place : Places, sumOK : BOOLEAN, rsdtOK : BOOLEAN]
MadtTable == [sig : {"APIC"}, sumOK : BOOLEAN, lapic_adr : Nat, entries : Entries]
McfgTable == [sig : {"MCFG"}, entries : Seq(Nat)]
OtherTable == [sig : {"FACP"}]

\* mps_fp_t and mps_config_t
MpsTable == [place : Places, fpOK : BOOLEAN, revOK : BOOLEAN, baseOK : BOOLEAN,
             extdOK : BOOLEAN, lapic_adr : Nat, entries : Entries]

\* The strings behind multiboot_info_t.cmdline: words, and Nul after each string;
\* an empty string is a word too.
Nul == [opt |-> "nul", val |-> 0]
Words == [opt : {"maxcpu=", "cpumask=", "noacpi", "nomps", "other"}, val : Nat]
Flags == {"noacpi", "nomps"}
Ended(text) == \A k \in DOMAIN text : text[k] = Nul => k > 1 /\ text[k - 1] # Nul

\* vendor_t: the string of cpuid(0)
Vendors == {"intel", "amd", "unknown"}

MachineType ==
  [vendor : Vendors, leaf4 : BOOLEAN, caches : Seq({"D", "I", "U", "other"}),
   text : Seq(Words \cup {Nul}), ebda : [adr : Nat, kB : Nat],
   rsdp : RsdpTable, rsdt : Seq(MadtTable \cup McfgTable \cup OtherTable), mps : MpsTable]

ASSUME MachineAssumption ==
  /\ MaxCache \in Nat /\ MaxCache >= 4 /\ MaxPcie \in Nat /\ DefaultMax \in Nat /\ DefaultMask \in Nat
  /\ \A m \in Machines : m \in MachineType /\ Ended(m.text)

-----------------------------------------------------------------------------
(* Plausible defects, one definition each, for the mutation runs.          *)

BdaFirst(p) == CASE p = "start" -> "bda" [] p = "bda" -> "cpuid" [] p = "cpuid" -> "cmdline"
                 [] p = "cmdline" -> "rsdp"

OneWordMore(w) == 1

NoReset ==
  /\ ph = "mps"
  /\ ph' = "mpsloop" /\ j' = 1
  /\ lapic_adr' = fw.mps.lapic_adr
  /\ UNCHANGED <<fw, i, opts, cache, ebda, cpu, ioapic, pcie>>

-----------------------------------------------------------------------------
(* The code.                                                               *)

\* The order of the parts that are always run.
After(p) == CASE p = "start" -> "cpuid" [] p = "cpuid" -> "cmdline" [] p = "cmdline" -> "bda"
              [] p = "bda" -> "rsdp"

\* memset(), and the defaults
InfoInit ==
  /\ fw \in Machines
  /\ ph = After("start") /\ i = 0 /\ j = 1
  /\ opts = [maxcpu |-> DefaultMax, cpumask |-> DefaultMask, noacpi |-> FALSE, nomps |-> FALSE]
  /\ cache = [n \in 0..(MaxCache - 1) |-> "none"]
  /\ ebda = [adr |-> 0, kB |-> 0]
  /\ lapic_adr = 0 /\ cpu = <<>> /\ ioapic = <<>> /\ pcie = <<>>

\* An entry of cpuid_cache[] is written; the one behind the array is ebda_adr and
\* ebda_size.  A type that is not known leaves the old one.
WriteCache(n, type) ==
  IF n < MaxCache
  THEN /\ cache' = [cache EXCEPT ![n] = IF type = "other" THEN @ ELSE type]
       /\ UNCHANGED ebda
  ELSE ebda' = [adr |-> 9, kB |-> 9] /\ UNCHANGED cache

\* cpu_features(), Intel: function 4, one cache per turn
IntelCache ==
  /\ ph = "cpuid" /\ fw.vendor = "intel" /\ fw.leaf4
  /\ IF i < Len(fw.caches)
     THEN /\ WriteCache(i, fw.caches[i + 1])
          /\ IF i >= MaxCache THEN ph' = After("cpuid") /\ i' = 1
                              ELSE i' = i + 1 /\ UNCHANGED ph
     ELSE ph' = After("cpuid") /\ i' = 1 /\ UNCHANGED <<cache, ebda>>
  /\ UNCHANGED <<fw, j, opts, tables>>

\* AMD: functions 0x80000005 and 0x80000006; the L2 and the L3 if there are any
AmdCaches ==
  /\ ph = "cpuid" /\ fw.vendor = "amd" /\ fw.leaf4
  /\ cache' = [n \in 0..(MaxCache - 1) |->
                 CASE n = 0 -> "I" [] n = 1 -> "D"
                   [] n \in {2, 3} /\ n < Len(fw.caches) -> "U" [] OTHER -> cache[n]]
  /\ ph' = After("cpuid") /\ i' = 1
  /\ UNCHANGED <<fw, j, opts, ebda, tables>>

NoCacheInfo ==
  /\ ph = "cpuid" /\ (fw.vendor = "unknown" \/ ~fw.leaf4)
  /\ ph' = After("cpuid") /\ i' = 1
  /\ UNCHANGED <<fw, j, opts, cache, ebda, tables>>

\* What a matching flag takes from the text besides the blank before it: the
\* blank behind it, and cmdline++ then stands in the next word.
Taken(w) == IF w.opt \in Flags THEN 1 ELSE 0

\* The character behind word n is a blank, not the end of the string.
Blank(n) == n + 1 <= Len(fw.text) /\ fw.text[n + 1] # Nul

Setting(w) ==
  CASE w.opt = "maxcpu="  -> [opts EXCEPT !.maxcpu = w.val]
    [] w.opt = "cpumask=" -> [opts EXCEPT !.cpumask = w.val]
    [] w.opt = "noacpi"   -> [opts EXCEPT !.noacpi = TRUE]
    [] w.opt = "nomps"    -> [opts EXCEPT !.nomps = TRUE]
    [] OTHER              -> opts

\* A turn of the loop over the command line: on from word i to the blank or the
\* zero behind it.  The loop ends 1000 bytes after the beginning (the end of
\* fw.text), not at the end of the string.
ParseWord ==
  /\ ph = "cmdline" /\ i <= Len(fw.text)
  /\ IF Blank(i)
     THEN LET w == fw.text[i + 1]
              match == w.opt \notin Flags \/ Blank(i + 1)
          IN /\ opts' = IF match THEN Setting(w) ELSE opts
             /\ i' = i + 1 + (IF match THEN Taken(w) ELSE 0)
     ELSE i' = i + 2 /\ UNCHANGED opts
  /\ UNCHANGED <<fw, ph, j, cache, ebda, tables>>

CmdlineEnd ==
  /\ ph = "cmdline" /\ i > Len(fw.text)
  /\ ph' = After("cmdline") /\ i' = 0
  /\ UNCHANGED <<fw, j, opts, cache, ebda, tables>>

\* The BIOS data area: where the EBDA is
ReadBda ==
  /\ ph = "bda"
  /\ ebda' = fw.ebda
  /\ ph' = After("bda")
  /\ UNCHANGED <<fw, i, j, opts, cache, tables>>

\* search_rsdp(): the first ebda_size bytes of the EBDA (the size is in kB), and
\* the BIOS ROM
RsdpFound ==
  \/ fw.rsdp.place.area = "ebda" /\ ebda.adr = fw.ebda.adr /\ fw.rsdp.place.dist \div 4 < ebda.kB \div 4
  \/ fw.rsdp.place.area = "rom"

ReadRsdp ==
  /\ ph = "rsdp"
  /\ IF ~opts.noacpi /\ RsdpFound /\ fw.rsdp.sumOK /\ fw.rsdp.rsdtOK
     THEN ph' = "rsdt" /\ i' = 1
     ELSE ph' = "mps" /\ UNCHANGED i
  /\ UNCHANGED <<fw, j, opts, cache, ebda, tables>>

\* An entry of the RSDT.  read_madt(): the checksum, and the beginning ...
StartMadt ==
  /\ ph = "rsdt" /\ i <= Len(fw.rsdt) /\ fw.rsdt[i].sig = "APIC"
  /\ IF fw.rsdt[i].sumOK
     THEN /\ ph' = "madt" /\ j' = 1 /\ UNCHANGED i
          /\ lapic_adr' = fw.rsdt[i].lapic_adr /\ cpu' = <<>> /\ ioapic' = <<>>
     ELSE i' = i + 1 /\ UNCHANGED <<ph, j, lapic_adr, cpu, ioapic>>
  /\ UNCHANGED <<fw, opts, cache, ebda, pcie>>

\* ... and one entry of the MADT: CPUs that are enabled, and the I/O APICs.
MadtEntry ==
  /\ ph = "madt"
  /\ IF j <= Len(fw.rsdt[i].entries)
     THEN LET e == fw.rsdt[i].entries[j]
          IN /\ cpu' = IF e.kind = "cpu" /\ e.en THEN Append(cpu, e.id) ELSE cpu
             /\ ioapic' = IF e.kind = "ioapic" THEN Append(ioapic, e.id) ELSE ioapic
             /\ j' = j + 1 /\ UNCHANGED <<ph, i>>
     ELSE ph' = "rsdt" /\ i' = i + 1 /\ UNCHANGED <<j, cpu, ioapic>>
  /\ UNCHANGED <<fw, opts, cache, ebda, lapic_adr, pcie>>

\* read_mcfg(), whose checksum has no consequence; halt() if there are too many.
ReadMcfg ==
  /\ ph = "rsdt" /\ i <= Len(fw.rsdt) /\ fw.rsdt[i].sig = "MCFG"
  /\ LET es == fw.rsdt[i].entries
     IN IF Len(es) > MaxPcie
        THEN ph' = "halted" /\ pcie' = pcie \o SubSeq(es, 1, MaxPcie) /\ UNCHANGED i
        ELSE i' = i + 1 /\ pcie' = pcie \o es /\ UNCHANGED ph
  /\ UNCHANGED <<fw, j, opts, cache, ebda, lapic_adr, cpu, ioapic>>

SkipTable ==
  /\ ph = "rsdt" /\ i <= Len(fw.rsdt) /\ fw.rsdt[i].sig \notin {"APIC", "MCFG"}
  /\ i' = i + 1
  /\ UNCHANGED <<fw, ph, j, opts, cache, ebda, tables>>

\* if (hw_info.lapic_adr != 0) goto skip_mps
RsdtEnd ==
  /\ ph = "rsdt" /\ i > Len(fw.rsdt)
  /\ ph' = IF lapic_adr # 0 THEN "check" ELSE "mps"
  /\ UNCHANGED <<fw, i, j, opts, cache, ebda, tables>>

\* search_fp(): the first kB of the EBDA, the last one of the base memory, the ROM
FpFound ==
  \/ fw.mps.place.area = "ebda" /\ ebda.adr = fw.ebda.adr /\ fw.mps.place.dist < 1024
  \/ fw.mps.place.area \in {"639k", "rom"}

\* The floating pointer, its checksum and features, the checksum of the table
MpsUsable == ~opts.nomps /\ FpFound /\ fw.mps.fpOK /\ fw.mps.revOK /\ fw.mps.baseOK

SkipMps ==
  /\ ph = "mps" /\ ~MpsUsable
  /\ ph' = "check"
  /\ UNCHANGED <<fw, i, j, opts, cache, ebda, tables>>

\* The address is taken before the second checksum.
MpsExtdBad ==
  /\ ph = "mps" /\ MpsUsable /\ ~fw.mps.extdOK
  /\ ph' = "check"
  /\ lapic_adr' = fw.mps.lapic_adr
  /\ UNCHANGED <<fw, i, j, opts, cache, ebda, cpu, ioapic, pcie>>

StartMps ==
  /\ ph = "mps" /\ MpsUsable /\ fw.mps.extdOK
  /\ ph' = "mpsloop" /\ j' = 1
  /\ lapic_adr' = fw.mps.lapic_adr /\ cpu' = <<>> /\ ioapic' = <<>>
  /\ UNCHANGED <<fw, i, opts, cache, ebda, pcie>>

\* An entry of the table; both kinds have to be enabled.
MpsEntry ==
  /\ ph = "mpsloop"
  /\ IF j <= Len(fw.mps.entries)
     THEN LET e == fw.mps.entries[j]
          IN /\ cpu' = IF e.kind = "cpu" /\ e.en THEN Append(cpu, e.id) ELSE cpu
             /\ ioapic' = IF e.kind = "ioapic" /\ e.en THEN Append(ioapic, e.id) ELSE ioapic
             /\ j' = j + 1 /\ UNCHANGED ph
     ELSE ph' = "check" /\ UNCHANGED <<j, cpu, ioapic>>
  /\ UNCHANGED <<fw, i, opts, cache, ebda, lapic_adr, pcie>>

\* "this should work at least in single processor mode"
Guess == 254
CheckInfo ==
  /\ ph = "check"
  /\ ph' = "done"
  /\ IF lapic_adr = 0 \/ cpu = <<>> \/ ioapic = <<>>
     THEN lapic_adr' = Guess /\ cpu' = <<0>> /\ ioapic' = <<>>
     ELSE UNCHANGED <<lapic_adr, cpu, ioapic>>
  /\ UNCHANGED <<fw, i, j, opts, cache, ebda, pcie>>

InfoStep ==
  \/ IntelCache \/ AmdCaches \/ NoCacheInfo
  \/ ParseWord \/ CmdlineEnd \/ ReadBda \/ ReadRsdp
  \/ StartMadt \/ MadtEntry \/ ReadMcfg \/ SkipTable \/ RsdtEnd
  \/ SkipMps \/ MpsExtdBad \/ StartMps \/ MpsEntry \/ CheckInfo
=============================================================================
