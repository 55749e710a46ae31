----------------------------- MODULE MCBootPath ----------------------------
(* The machines BootPath is checked with: one dimension of the firmware is   *)
(* varied at a time, and the options against the tables.                    *)
EXTENDS BootPath

Cpu(n) == [kind |-> "cpu", id |-> n, en |-> TRUE]
Off(n) == [kind |-> "cpu", id |-> n, en |-> FALSE]
Io(n) == [kind |-> "ioapic", id |-> n, en |-> TRUE]
IoOff(n) == [kind |-> "ioapic", id |-> n, en |-> FALSE]
Bus == [kind |-> "other", id |-> 1, en |-> TRUE]

Word(o, v) == [opt |-> o, val |-> v]
Name == Word("other", 0)

Four == <<Cpu(0), Cpu(4), Off(5), Bus, Cpu(2), Cpu(6), Io(8)>>
Madt(ok, adr, es) == [sig |-> "APIC", sumOK |-> ok, lapic_adr |-> adr, entries |-> es]
Mcfg(n) == [sig |-> "MCFG", entries |-> [k \in 1..n |-> k]]
Facp == [sig |-> "FACP"]

Good ==
  [vendor |-> "intel", leaf4 |-> TRUE, caches |-> <<"D", "I", "U", "U">>,
   text |-> <<Name, Word("maxcpu=", 3), Name>>,
   ebda |-> [adr |-> 5, kB |-> 64],
   rsdp |-> [place |-> InEbda(16), sumOK |-> TRUE, rsdtOK |-> TRUE],
   rsdt |-> <<Facp, Mcfg(1), Madt(TRUE, 1, Four)>>,
   mps |-> [place |-> Elsewhere("rom"), fpOK |-> TRUE, revOK |-> TRUE, baseOK |-> TRUE,
            extdOK |-> TRUE, lapic_adr |-> 2, entries |-> <<Cpu(1), Cpu(3), Io(7), IoOff(8), Bus, Off(9)>>]]

Cpuids ==
  {[Good EXCEPT !.vendor = v, !.leaf4 = l, !.caches = cs] :
     v \in {"intel", "amd", "unknown"}, l \in BOOLEAN,
     cs \in {<<"D", "I">>, <<"D", "I", "U", "other">>, <<"D", "I", "U", "U", "U">>,
             <<"D", "I", "U", "U", "U", "U">>}}

\* The strings of the boot loader: the command line, and that of a module.
Options == {Name, Word("maxcpu=", 2), Word("cpumask=", 5), Word("noacpi", 0), Word("nomps", 0)}
Texts == {<<>>} \cup
  {<<Name, a, b, d, Nul, Name, e, Name>> : a \in Options, b \in Options, d \in Options,
     e \in {Name, Word("maxcpu=", 1), Word("nomps", 0)}}
Lines == {[Good EXCEPT !.text = t] : t \in Texts}

Searches ==
  {[Good EXCEPT !.ebda.kB = kb, !.rsdp.place = a, !.mps.place = b] :
     kb \in {8, 64},
     a \in {InEbda(16), InEbda(96), Elsewhere("rom"), Elsewhere("none")},
     b \in {InEbda(96), InEbda(2048), Elsewhere("639k"), Elsewhere("none")}}

Rsdts ==
  {<<Madt(FALSE, 1, Four)>>, <<Madt(TRUE, 0, Four), Mcfg(1)>>, <<Madt(TRUE, 1, <<Cpu(0), Cpu(1)>>), Facp>>,
   <<Madt(TRUE, 1, <<Io(8), Off(1)>>)>>, <<Mcfg(2), Madt(TRUE, 1, Four)>>, <<Facp>>,
   <<Madt(TRUE, 1, <<Cpu(0), Io(1)>>), Madt(TRUE, 1, Four)>>}

Broken ==
  {[Good EXCEPT !.rsdp.sumOK = s, !.rsdp.rsdtOK = r, !.mps.fpOK = f, !.mps.revOK = v, !.mps.baseOK = c1] :
     s \in BOOLEAN, r \in BOOLEAN, f \in BOOLEAN, v \in BOOLEAN, c1 \in BOOLEAN}
  \cup {[Good EXCEPT !.rsdt = r, !.mps.extdOK = x, !.mps.baseOK = c1,
           !.mps.entries = IF m THEN @ ELSE <<Cpu(1), IoOff(7)>>] :
          r \in Rsdts, x \in BOOLEAN, c1 \in BOOLEAN, m \in BOOLEAN}

MCMachines == Cpuids \cup Lines \cup Searches \cup Broken

\* hw_info has room for the tables.
ASSUME RoomAssumption ==
  \A m \in MCMachines : \A es \in {m.mps.entries} \cup {m.rsdt[k].entries : k \in {k \in 1..Len(m.rsdt) : m.rsdt[k].sig = "APIC"}} :
    Len(SelectSeq(es, LAMBDA e : e.kind = "cpu" /\ e.en)) <= MaxCpu
=============================================================================
