# A verification model of smp.boot

smp.boot is a small x86 kernel (32 and 64 bit) that boots all processors of a
machine, without an operating system, to run memory benchmarks on them. There is
no scheduler: each CPU executes `main()`, and all coordination is done with a
barrier, spinlocks, flags, `hlt` and inter-processor interrupts. This directory
holds TLA+ models of that coordination and of the memory management under it,
TLC configurations that check the models on small instances, and TLAPS proofs of
what matters most.

Contents: [Inventory](#1-inventory), [Modules](#2-modules-and-the-code),
[Runs](#3-runs), [Fairness](#4-fairness), [Proofs](#5-proofs),
[Disagreements](#6-where-code-and-comments-disagree),
[Not modelled](#7-what-is-not-modelled), [Plan](#8-plan).

## 1. Inventory

| Component | State | Operations | What makes it correct |
|---|---|---|---|
| Barrier (`sync.c` 109-148) | `cnt`, `epoch`, `max` of a `barrier_t`; locals `e`, `c` | `barrier()` | Every arrival counted once; one master per episode; nobody leaves early or stays behind, also when the epoch wraps |
| Mutex (`sync.c` 70-101) | one byte, 1 free, 0 locked | `mutex_lock`, `_trylock`, `_unlock` | Mutual exclusion, no lock taken twice by its holder |
| Flag (`sync.c` 150-180) | `flag`, `next` | `flag_init`, `_signal`, `_wait`, `_trywait` | A signal ends one wait, also if it comes first |
| Collective region (`sync.c` 182-222) | `coll_mutex`, `coll_master`, `coll_mask` | `collective_only`, `collective_end` | Only the winner of the mutex wakes up, the CPUs of this round, all of them |
| Halt and wakeup (`smp.c`) | a flags word per CPU (`HALT`, `HALTED`), a pending interrupt | `smp_init`, `smp_halt`, `smp_wakeup` | No wakeup lost between test and `hlt`; unlocked updates of the word do not overwrite each other |
| AP start (`apic.c` 219-333, `start_smp.inc`, `main.c` 116-201) | `smp_apid`, `stack[]`, a wakelock per CPU, `cpu_online`, `global_barrier.max` | `apic_init`, `Smp32`, `main_ap`, `main_bsp` | A stack each, an exact count, a common start |
| Frames (`mm.c` 115-171, 546-598; `lib.h` 49-54) | `freemap[]`, `last_frame_*` | `mm_init`, `get_free_frame` | Each frame of the memory, and no other, is handed out once |
| Page tables and heap (`mm.c` 176-337, 618-770) | page tables, `next_virt_page`, `tmp_page`, `pt_mutex`; a TLB per CPU | `heap_alloc`, `virt_to_phys`, `map_frame_to_adr`, `map_temporary` | The page that is asked for is mapped to its frame; no stale translation is used |
| Cache modes (`mm.c` 340-446, 650-682) | `PWT`/`PCD` bits of the entries, TLBs | `heap_reconfig`, `reconf_adr`, `tlb_shootdown` | All CPUs benchmark under the configuration that was set |
| `main()`, menus and payload (`main.c` 211-308, `menu.c`, `payload.c`) | the shared `mode` and `result`, each CPU's position | `main`, `menu`, `payload_benchmark*` | All CPUs take the same way and pass the same barriers |
| Benchmarks (`benchmark.c`) | `barr_dyn`, `flags[]`, loop counters | `bench_worker`, `bench_mem`, `bench_worker_cut`, `bench_hourglass*` | Load CPUs and measurement stay in step; every benchmark ends |
| Boot information (`boot32.c`, the table formats of `*_struct.h`) | `hw_info`: options, caches, EBDA, CPUs, I/O APICs | `cpu_features`, `parse_cmdline`, `search_rsdp`, `read_rsdt`, `read_madt`, `read_mcfg`, `search_fp`, `read_mps_*` | The CPUs come from one table that is intact; the options of the command line are in force |
| Self tests (`tests.c`) with vector 128 (`isr.c`) | `barr2`, `flag`, `p_shared*`, pending IPIs | `tests_doall`, `tests_menu`, `tests_barrier`, `tests_flag`, `tests_mm`, `tests_ipi` | All CPUs stay in step; a bare `hlt` is ended by the IPI of the test; pointers are of this execution |
| Text screen (`screen.c`) | cursor, video memory, scrollback buffer, `offset_y` | `putch`, `scroll`, `locate`, `video_scrollback`, `printf` | The status line is kept; the screen is the tail of what was printed |
| Keyboard (`keyboard.c`) | controller buffer, `e0_code`, `e1_code`, `e1_prev` | `keyboard_get_scancode`, `wait_for_key`, `scancode_to_keycode` | No byte of one key is taken for another key |
| Stop (`cpu.c` 123-144) | `m`, `cpus_halted` | `stop` | One CPU stays awake to show the buffer and reboot |
| Interrupt tables, exceptions (`idt.c`, `isr.c`), assembler start code, library (`lib.c`), timing (`pit.c`, `time.c`), drivers, info | see section 7 | | |

How they interact:

* All CPUs call the same functions and share one address space. A region in
  which one CPU works is bracketed by `barrier(&global_barrier)`, or by
  `if (cpu_online > 1 && myid == 0)` tests, or by `collective_only()`.
* A CPU that is not needed calls `smp_halt()`. A `smp_wakeup()` of another CPU
  clears its `HALT` bit and sends IPIs until the `HALTED` bit is gone.
* `heap_alloc()`, `virt_to_phys()` and `heap_reconfig()` share `pt_mutex` and
  one page table entry, that of `tmp_page`, with a TLB on each CPU that no one
  else invalidates.
* `printf()` and the menus share the cursor and the scrollback buffer under
  `mutex_printf`; `stop()` counts the CPUs under a mutex of its own, and the
  last of them draws over the screen from the scrollback buffer.
* `get_info()` runs before all this and leaves `hw_info`: `apic_init()` starts
  the CPUs that are listed there and that the options allow, and `cpu_online`,
  the number of those that came, is what every loop over CPUs uses afterwards.
* The self tests and the benchmarks use the same interrupt vector, the same
  pending bit and the same barrier, one after the other.

The hard behaviours are: reuse of the barrier while slow CPUs are still leaving
it; changing the number of participants of a barrier in use; the window between
testing a flag and `hlt`; read-modify-writes of one word by two CPUs; the
100 ms time-out of the AP start, with one variable for the ids of all APs; a
page table entry shared by CPUs with private TLBs; static variables that CPU 0
writes and everybody reads between two barriers; the widths of `int` and
`long` in the frame map. `PROJECT.json` lists each of these hazards with its
line and the properties that watch it.

## 2. Modules and the code

| Module | Models | Granularity |
|---|---|---|
| `Barrier` | `barrier()` | one step per access to `b->cnt` or `b->epoch` |
| `BarrierSpec` | what `barrier()` promises: a reusable rendezvous | arrive, open, leave |
| `BarrierProofs` | theorems about `Barrier` | |
| `SmpHalt` | `smp_halt()`, `smp_wakeup()`, IPI delivery; a library that other modules extend | loads and stores of the flags word are separate |
| `Collective` | `collective_only()`, `collective_end()` round after round | on top of `SmpHalt` |
| `Tests`, `MCTests`, `TestsProofs` | the self tests, between collective regions | on top of `Collective`; one step per barrier, flag operation, IPI, `hlt` |
| `BenchWorker`, `MCBenchWorker`, `BenchWorkerProofs` | `bench_worker()`, with `barr_dyn`, flags, sleepers | on top of `SmpHalt` |
| `BenchMem` | `bench_mem()` | on top of `SmpHalt` |
| `SmpBoot` | the start of the APs up to `main()` | `cpu_online++` is a load and a store |
| `BootInfo` | `get_info()`: CPUID caches, command line, BDA, ACPI and MPS tables | one step per turn of a loop |
| `BootPath`, `MCBootPath`, `BootPathProofs` | `BootInfo`, then `SmpBoot` with the CPUs and options it found | |
| `FrameAlloc`, `MCFrameAlloc`, `FrameAllocProofs` | `freemap[]`, `get_free_frame()` | a call is one step (the callers hold `pt_mutex`) |
| `PageTable`, `MCPageTable`, `PageTableProofs` | `heap_alloc()`, `virt_to_phys()` and the walk through the tables | one step per `map_temporary()` |
| `Payload`, `PayloadProofs` | `main()`, `menu()`, benchmark menu, default payload, cache reconfiguration | one step per stretch between shared accesses |
| `Screen` | `putch()`, `scroll()`, `locate()` | a call is one step (`mutex_printf`) |
| `Console`, `MCConsole`, `ConsoleProofs` | keyboard decoder, drawing of `menu()`, `stop()`, `video_scrollback()` | on top of `Screen`; one step per byte of a key, line of the menu, access to `cpus_halted` |
| `Terminal` | what `Screen` promises: a page that is written line after line | |

Composition: `BootPath` runs `BootInfo` and then `SmpBoot` on what it found;
`Console` runs the menu, the output and `stop()` on the one `Screen`; `Tests`
adds the self tests to the rounds of `Collective`, so that an IPI one of them
leaves behind reaches the other. `Collective`, `BenchWorker` and `BenchMem` extend `SmpHalt`, which
has the steps inside `smp_halt()` and `smp_wakeup()` and leaves `at`, the place
in the calling function, to them. Above `Barrier`, a call of
`barrier(&global_barrier)` is the step that lets everybody go; `Barrier`
implements `BarrierSpec`, in which the opening is one step, and the staggered
departures are the separate next steps of the CPUs. What a caller owes in
return, that all CPUs stand at the same call, is a property of the callers
(`SameCallSite`, `SamePlace`), and the step itself opens for any mixture of
calls, as the code does.

Correspondence of the state: variables have the names of the code's variables
where there is one (`cnt`, `epoch`, `coll_mask`, `freemap`, `last_frame`,
`smp_apid`, `csr_y`, `buf_y`, ...). `pc` and `at` are places in functions;
their labels are the next access, or the line of a barrier. Variables whose
comment says *history* (`owner`, `given`, `again`, `memory`, `want`, `sent`,
`got`) are not in
the code; properties need them and no guard reads them. Each module has a
section *Plausible defects*: altered copies of single definitions, which no
specification uses. They are what a property must catch if it stands in the
place of the definition (`PROJECT.json`, `mutants`).

Notable abstractions:

* `SmpHalt`: one interrupt vector, so a CPU has one pending bit. An interrupt
  that arrives while a CPU is awake is gone. The handler returns, as it does in 64 bit
  mode (section 6). The bit operations of `lib.h` are no locked instructions and are
  split.
* `SmpBoot`: which APs are selected by `maxcpu`/`cpumask` (`sel`) and which
  react (`alive`) is chosen at the start, in all combinations. `Late = FALSE`
  says that an AP takes its stack and gets its wakelock before the 100 ms of the
  BSP are over; `Late = TRUE` drops that.
* `FrameAlloc`: `freemap[]` is the set of its 1 bits. `Mask` is the value of
  `(1 << n)` as x86 computes it and C converts it: the shift count modulo
  `IntBits`, and a set top bit extended through the word.
* `PageTable`: the frames of the upper directories exist already; a page table
  has `PerTable` entries; what a frame holds before it is cleared is 0 or
  `Junk`. The TLB is external: it may keep or drop an entry at any time, and
  loses it by `invlpg`.
* `Payload`: one page per buffer; of the benchmark menu the two reconfigurations,
  `bench_worker_cut()` and `bench_mem()`; a benchmark is that each CPU accesses both
  buffers and comes to the barrier at its end. Of `bench_mem()` the module has the
  accesses and, from `BenchMem`, where it leaves the CPUs: with more than one, CPU 0 in
  `smp_wakeup(1)`, CPU 1 at the barrier of line 652, the others asleep, for ever; a lone
  CPU gets through. `bench_rangestride()`, which would come next, is only reached by a
  lone CPU, and is part of the same step.
* `BootInfo`: a table is a record of what the code tests (its place, whether a
  checksum is right, its entries). The command line is a sequence of words; the
  end of a string is a word of its own, since the parser runs on behind it.
  `WriteCache` has the element behind `cpuid_cache[]`, which is the EBDA.
* `BootPath`: no AP is late (`Late = FALSE`); `SmpBoot` alone has the other case.
* `Tests`: a test is its barriers, flags, pointers and interrupts; of the memory
  tests the order of setting and using the pointers. `InTime` says that an AP
  gets from the barrier to its `hlt` before CPU 0 has waited its second.
* `Screen`, `Console`: characters are model values, attributes are left out. A
  line of the menu is one character and a newline. A scancode is the sequence of
  its bytes as the keyboard sends them.

## 3. Runs

| Run | Module, config | States | Shows |
|---|---|---|---|
| `barrier` | `Barrier` | 7 137 | `UniqueNumber`, `MasterIsLast`; the refinement `Rendezvous`; `EpisodeEnds` |
| `collective` | `MCTests` | 34 166 | `WakerOwnsRound`, `OthersHalt`, `FlagsTellState`, `SameCall`, `SharedSet`, `RoundEnds`, `TestsEnd` |
| `bench_worker` | `MCBenchWorker` | 8 759 | `SameCallSite`, `DynOfThisLoad`, `SignalUsed`, `BenchmarkEnds` |
| `smp_boot` | `MCBootPath`, `BootPath` | 273 562 | `OneTable`, `EbdaOfBios`, `OptionsTaken`, `OwnStack`, `OnlineExact`, `BootRendezvous`, `PathEnds` |
| `frames32` | `MCFrameAlloc`, `MCFrameAlloc32` | 1 018 | `NeverTwice`, `OnlyMemory`, `UsedUp` |
| `pages64` | `MCPageTable`, `MCPageTable64` | 378 842 | `PagesPresent`, `NothingElse`, `Translated`, `Consecutive` |
| `payload` | `Payload` | 81 788 | `SamePlace`, `BenchFresh`, `ConfigHolds`, `BarriersOpen` |
| `screen` | `MCConsole` | 1 391 459 | `StatusKept`, `ShowsTailOfOutput`, `MenuShown`, `EndShowsLast`, `SomeoneStays`; the refinement `KeepsPage`; the action property `KeysAsTyped` |
| `bench_mem`, `smp_boot_late`, `frames64_half`, `pages32` | | | counterexamples, see section 6 |

Bounds, and why they are enough:

* `barrier`: three CPUs, epoch modulo 3. Three CPUs are needed to have a master,
  a waiter and a CPU that is still leaving; a CPU lags by at most one episode,
  so two epochs already tell it apart and three have a wrap-around with every
  offset. For any number of CPUs and any wrap-around there is a proof.
* `collective`: three CPUs, the masks `{0}` and `{0, 1}` of the benchmarks, any
  sequence of rounds and tests: with the second mask a CPU competes for the mutex
  and loses, and with both one is left asleep whose status changes in the next
  round. The third CPU is the one the tests for a pair leave out. One barrier in
  the loops of `tests_barrier()` for the 20 of the code: the calls before and
  after the loop are there besides, so that a CPU can be one call behind.
* `bench_worker`: three CPUs and `load_nbrs` 0, 1, 3, 7 where the code has
  0, 1, 3, 7, ...: no load, one load CPU and a sleeper, and the break of the
  loop. Two load ranges suffice for a signal of one range to meet the next. The
  benchmark is repeated without end.
* `smp_boot`: four CPUs, so that an AP may be skipped before, between and after
  others, `MAX_CACHE` 4 and one PCIe entry. The machines vary one part of the
  firmware at a time against a good one (CPUID; places of the tables; broken
  checksums; contents of the RSDT), and all command lines of three options and one
  more in the string behind it. `smp_boot_late` needs two CPUs: one that is late
  and the next one.
* `frames32`: 24 frames in words of four bits, search starts 8 and 12 for
  `0x400` and `0x800`, memory maps that end and begin within a word, with a
  hole, and three sizes of the first block.
* `pages64`: two CPUs, three page tables of two entries, requests of up to three
  pages: a request crosses a table, both CPUs need a new one, memory runs out.
* `payload`: two CPUs, both menus' ways, all three cache configurations, with and without
  the menu, up to where `bench_mem()` leaves each CPU. The way of a lone CPU through
  `bench_mem()` is not in this run; the proofs cover it, as they do any other number of CPUs.
  `BarriersOpen` is about all barriers but the one inside `bench_mem()`.
* `screen`: two columns, seven rows, a single tab stop per column, eight lines of
  buffer; two CPUs; a menu of two entries that starts on any row and comes again
  after the output; keys of one, two and three bytes, three bytes typed ahead;
  pages of four lines for the 20 of the code. The screen scrolls several times, with
  and without a wrap on the same line, and under the menu; the buffer is both
  shorter and longer than the part of it the viewer shows; a key may begin before
  a prefix is read. For every size of screen and buffer there are proofs.

Deadlock is checked in `barrier`, `collective` and `bench_worker`, which never
stop. It is not checked where the system does stop: `smp_boot` ends in `main()`,
or at a table with too many entries,
or at the wakelock for an AP that was given up; in the memory modules a CPU
halts when memory is out (with `pt_mutex` held, as in the code) or has no
request left; `payload` ends when the user leaves the menu, or in `bench_mem()`; `screen` ends with
the reboot; `bench_mem` hangs, which is what the run shows.

## 4. Fairness

* Every CPU keeps executing: weak fairness of each CPU's steps. CPUs are
  hardware, nothing preempts them, and a spin loop leaves the state alone.
* In `smp_boot` only the BSP executes until the kernel is entered, so its steps
  are fair as a whole (`get_info()`, then the kernel), and each AP's on its own.
* In `collective` the places where a CPU executes and where it sleeps exclude
  each other: one weak fairness per CPU covers the step of the CPU or, while it
  sleeps, the delivery of its IPI. That the user selects something in
  `tests_menu()` is part of CPU 0's steps.
* The local APIC delivers an IPI that stays pending: weak fairness of `Deliver`.
  Interrupts are on wherever delivery is enabled (`sti` at the start of
  `smp_halt()`), so the step stays enabled until it is taken. That it lets the CPU go
  on is so in 64 bit mode only: `RoundEnds`, `TestsEnd`, `BenchmarkEnds` of
  `bench_worker` and `BarriersOpen`, for which the benchmarks must end, are about this mode. The safety properties are about both: a
  CPU whose handler does not return takes no more steps, which `Spec` allows.
* The global barrier opens when all have arrived: weak fairness of its step,
  which is `EpisodeEnds` of `Barrier`.
* In `payload` the user answers (he presses a key in every menu), which is part
  of CPU 0's steps; and mutexes are taken fairly enough that weak fairness does:
  each CPU makes finitely many calls between two barriers, so a competing CPU
  runs out of them.
* There is none for the user's keys and the output of a payload in `screen`, whose
  properties are safety properties.
* There is no fairness for accesses that fill a TLB, for evictions, and for
  calls of the memory functions.

## 5. Proofs

`BarrierProofs` holds for every non-empty finite set of CPUs and every
`EpochMod > 1` (`CPUsAssumption`, `EpochModAssumption`; the code has 2^32):

* `Invariance`: `IInv` is invariant. `MasterIsLast` alone is not inductive: that
  the CPU whose number is `max` is the last one needs to know that the counter
  is the number of those who wait (`CounterExact`), that their numbers differ
  (`UniqueNumber`) and lie in 1..cnt (`NumberBound`), and that whoever is about
  to be counted has the current epoch (`SameEpoch`), because membership in an
  episode is told by `e = epoch`. `IInv` is the conjunction of these with
  `TypeOK`. The steps that matter are the atomic increment (the set of those
  counted grows by one CPU: `CountOneMore`; if the count is `max` they are all
  CPUs: `CountBound`) and the master's `epoch++`, which makes everybody
  *released* at once; it needs that the next epoch differs (`NextEpoch`).
* `TypeCorrect`, `NumbersUnique`, `NoArrivalErased`: consequences of it.
* `Refinement`: `Spec => Rendezvous`. `Init` maps to `Init`; each step maps to
  `Arrive`, `Open` (the master's `epoch++`), `Leave`, or a stutter.

`FrameAllocProofs`, for all sizes, memory maps and search starts:

* `FramesUnique`: no frame is handed out twice. A frame that was handed out
  looks used, and stays so: bits are set only during `mm_init()`, before any
  frame is handed out, and clearing never sets a bit. The argument does not
  depend on what `Mask` is, therefore it holds for the 64 bit build, too, in
  which frames share bits.
* `MemoryOnly`, `NothingLeft`, under `IntBits = LongBits`, the 32 bit build: there
  `Mask` is one bit, of one frame (`OneBit`). `Accounted` says that the memory is what is
  still to be registered, free in the map or handed out, and that a search has left
  behind only what was handed out. In the 64 bit build it fails, as `frames64_half` shows.

`TestsProofs`, for every number of CPUs, all masks and any sequence of regions and
tests, under `Contiguous` (the ids of the CPUs are `0 .. cpu_online-1`, which the loops
that wake up the others assume, and without which they do not end):

* `WakerOwns`, `OthersStay`, `FlagsTell`, `CallsAgree`, `SharedFresh`, all from one
  invariant. It has a part for each CPU alone (`Local`: where it is in `smp_halt()`
  or `smp_wakeup()`, and its two bits), and a part that says in which phase all of
  them are between two global barriers: a collective region with its round, the
  menu of the tests, or one of the tests with its number of barrier calls. For the
  wakeup it says how far the waker's loop is (`Wakes`): those before its target are
  awake, those behind it are not woken, and the target is in the one state or the
  other as the waker's own label tells. The load and the store of a flags word
  are apart; nothing is lost since between them both bits are set, so that the other
  side is in its loop and writes nothing.

`BenchWorkerProofs`, for every number of CPUs, any `load_nbrs[]`, any number of load
ranges and any wrap-around of the epoch (`BenchAssumption`: contiguous ids again):

* `CallsMeet`, `DynInStep`, `SignalsUsed`, from `IInv` (`BenchInvariant`). Besides
  `Locals` and `Wakes`, as above, it has three phases between global barriers: `Beginning`,
  `Setting(c)` with CPU 0 about to write the max of `barr_dyn`, and `Running(c, x)`, where
  the x-th meeting at `barr_dyn` for position c of `load_nbrs` comes next. There each
  member is before that meeting or on its way out of the last one (`Member`), `cnt` is the
  number of those who wait, and a flag is one signal ahead exactly for the load CPUs
  that are not through their load when CPU 0 is (`Signalled`). When `cnt + 1 = max`, all
  others wait (`AllWait`, by cardinality), and because the next epoch differs
  (`NextEpoch`) all of them are let go at once. CPU 0 wakes up the sleepers only after the
  last meeting (`Waking`), so no one that sleeps is ever waited for.
* `NobodyStranded`: the safety part of `BenchmarkEnds`, as the state predicate
  `NobodyLeft` that no run lists. Whoever waits at `barr_dyn`, for its flag or in
  `smp_halt()`, the CPU that is to let it go still has that ahead of it, in the same
  load. At `barr_dyn` this is a count: fewer than `load_nbr + 1` CPUs wait (`cnt < max`,
  a part of `Running`), so not all of CPUs 0 .. `load_nbr` do.

`PayloadProofs`, for every set of CPUs:

* `PlacesAgree`, `NoStaleEntry`, `TurnsConfigured`. The invariant lists the phases between
  two barriers, a stretch of `main()`, `menu()` or the payload each; a phase
  says where a CPU can be in it, what `mode` and `result` are, and what it leaves in the
  page table and the TLBs. The last one, `Measuring`, is `bench_mem()`, which keeps the
  configuration of the last turn and, with more than one CPU, is never left. A CPU that
  reads `result` late finds the same value, as
  the phase in which CPU 0 writes it begins behind a barrier the late one has to pass.

`BootPathProofs`, for every number of CPUs, every selection and every subset that
reacts, under `~Late`:

* `OwnStacks`. That stacks differ is not inductive, since an AP takes its stack
  from a variable the BSP writes for each. `StackInv` adds what the 100 ms are
  for: `OneAtATime`, at most one AP is between its start and its wakelock, it is
  the one `smp_apid` names, and the BSP waits for it.
* `AllCounted`. `CountInv` says who has been released and who is in the two steps
  of `cpu_online++`: the wakelocks are opened one after the other, so that a load
  is followed by its own store, and the count is the number of those who are past
  it (`KeepCount`, `CountInvExact`).
* `PathOwnStack`, `PathOnlineExact` carry both over to the whole way from the boot
  loader: `PathInv` says that until the kernel is entered nothing of `SmpBoot` has moved,
  and that the step that enters it leaves a state from which `StackInv` and `CountInv`
  follow. `PathRendezvous` is about the same way. `MeetInv`: until the BSP sets the max it
  is above the number of CPUs, so that nobody is let go; as long as the episode lasts the
  counter is the number of those that have arrived; when it is over, nobody is missing.

and without that condition, for firmware tables of every length and command lines of
any number of words (`MachineAssumption`: none of the strings is empty):

* `EbdaIntact`: what writes to the address of the EBDA is over when the BIOS data area is
  read.
* `OptionsInForce`. `CursorInv`: the cursor of the parser never stands at the end of a
  string (it would step over the first word of the next one unseen), and what
  is in force are the last options among the words it has passed.
* `TablesAgree`: while a reader is at an entry the counts and arrays are those of the
  entries before it (`IdsUpTo`, a recursive function on the length of the list), after
  it they are complete, and a reader that fails is followed by a reset. That the
  recursion has a solution, and what holds of all prefixes, is shown by induction in the form
  of a set of numbers with no least element missing (`LeastNumber`, `SetInduction`), which
  takes no operator as a parameter.

`ConsoleProofs`, for every set of CPUs and every size of screen:

* `OneStaysAwake`: when all CPUs are in `stop()` they are not all asleep. `StopInv`
  is mutual exclusion between lock and unlock, and the counter as the number of
  CPUs that are past their store; the last one finds it complete, although it
  is read without the mutex, because it never decreases.
* `StatusLineKept`: nothing writes to row 0 or behind the last row. `ScreenInv` adds
  the range of the cursor.
* `TailShown`: until the viewer starts, each row shows the line of the buffer it
  stands for. `CellInv` has the ranges that keep a cell of a line in the buffer apart from
  those of all other lines (`Unique`: quotient and remainder), `TailInv` the equality, and that
  the lines behind the last row of the screen are still blank, without which it
  breaks when the screen scrolls.
* `PageKept`: `Spec => KeepsPage`, the refinement. Each call of `putch()` maps to one
  step of `Terminal`, `locate()` to `Up`, everything else to a stutter.
* `LastLineShown`: after `KEY_END` the last line is on the screen, for short and long
  buffers, because the page that `KEY_END` goes back by its missing `break` is not longer than
  what the viewer shows, and the subtraction is not made when it would go below 0 (`EndOfBuffer`).
* `KeysRead`: `Spec => KeysAsTyped`, for every set of keys made of the byte sequences
  in `Codes` (one byte; `e0` and a byte; `e1`, the code of Ctrl and a byte). `Stream` says that the
  bytes in the controller are those of the keys not yet read, without the first `got`, and
  `PrefixInv` that the three static variables are what these `got` bytes make of them.
* `MenuDrawn`: while `menu()` waits for a key its entries are on the screen. `MenuInv` has
  the entries drawn so far (`Listed`), through every scroll, above the cursor.

`PageTableProofs`, for every number of CPUs, tables and pages and any behaviour of
the TLBs, under `Upper # <<>>` (a directory between `pd1` and the tables, which is 64
bit mode):

* `HeapMapped`, `HeapOnly`, `HeapTranslated`, `HeapConsecutive`. The invariant `IInv` has to say
  what the TLB of the CPU that holds `pt_mutex` may contain for `tmp_page`. On entry
  that is anything. It becomes right with the first `map_temporary()` that changes
  the entry; the walk ends with another frame than it begins with, so the entry has
  been changed since the lock when the table is written. With
  `Upper = <<>>` this step fails, and it is what the run `pages32` shows.

So every safety property of a passing run, the two refinements and the action property
among them, is proved for all values of the constants, under the conditions named above.
Only model-checked is all liveness: `EpisodeEnds`, `RoundEnds`, `TestsEnd`, `BenchmarkEnds`,
`PathEnds` and `BarriersOpen` follow from fairness, which is out of reach of the prover. And
the four counterexamples of section 6 are, of course, runs.

## 6. Where code and comments disagree

Four runs end in a counterexample; each checks what a comment or message of the
repository says.

* `bench_mem` (`benchmark.c` 620): the loop that wakes up "everybody" includes
  CPU 1, which was woken before and waits at the global barrier; `smp_wakeup(1)`
  waits for its `HALTED` bit for ever. `payload_benchmark()` calls `bench_mem()` after its
  last turn and so never gets to `bench_rangestride()`, to the menu or to `stop()` when there
  is more than one CPU; neither does entry 7 of the benchmark menu. `Payload` has this
  end, and `BarriersOpen` leaves out that one barrier.
* `smp_boot_late` (`start_smp.inc` 105, `apic.c` 316-317): an AP that needs more
  than 100 ms does not block on its own wakelock; it has read the next AP's id,
  and with it that AP's stack.
* `frames64_half` (`lib.h` 49): in the 64 bit build half of the bits of
  `freemap[]` are never used, since the macros shift an `int`; registered frames
  are never found.
* `pages32` (`mm.c` 191): `map_temporary()` omits `invlpg` if the entry of
  `tmp_page` has the frame already, though another CPU may have put it there. In
  32 bit mode a page is then entered in the wrong table. In 64 bit mode the walk
  through the upper directories changes the entry first (`pages64`).

One comment is about both modes of the program, and the modules have one of them:
"should be waken up by IPI (TODO: works in 64 bit mode, but not in 32 bit...)"
(`tests.c` 287). The code agrees with both halves. In 64 bit mode the stub of
`jump64.asm` (230) leaves the data segments alone, and `int_handler()` returns. In 32 bit mode the
stub of `start32.asm` (259-263) loads `ds` with `GDT32.Code`, a descriptor that cannot be written
through, so the first store of `int_handler()`, at the latest that of `apic_eoi()`, raises an
exception, whose handler is entered through the same stub: it does not return, and neither
the `hlt` of `tests_ipi()` nor that of `smp_halt()` is ever left. The interrupt steps of
`SmpHalt` and `Tests` are those of 64 bit mode. `TestsEnd` therefore is the first half of
the comment, and says nothing of 32 bit mode; no more do `RoundEnds`, the `BenchmarkEnds` of
`bench_worker`, and `BarriersOpen`.

The modules rest on these conditions, which the code does not check: the ids of
the CPUs that came up are contiguous (`Collective`, `BenchWorker`: the loops
over `u < cpu_online` assume it); no more lines are printed than the scrollback
buffer has (`Screen`; the test of `screen.c` 209 compares lines with bytes); an
AP that reacts does so in time (`SmpBoot` with `Late = FALSE`); the APs are at
their `hlt` when CPU 0 of `tests_ipi()` sends its IPI (`InTime`: without it an IPI comes
too early and `TestsEnd` fails, which the mutant `NoDelay` shows; an IPI that a benchmark
left over is covered); the tables list no more CPUs than `cpu[]` has
room for (`RoomAssumption`).

Some things the code does are in the models as they are, and the properties are
stated so that they tell them apart, without a text of the repository to hold
against them: the parser of the command line loses the option behind a flag and a
flag at the end (`OptionsTaken` is about the others), a fifth cache overwrites the
EBDA until the BIOS data area is read (`EbdaOfBios`), `search_rsdp()` takes a size in
kB for bytes, and the second byte of Pause sets the modifier Ctrl.

## 7. What is not modelled

* Of the console: two CPUs in `video_scrollback()` at once (`TestHalted` shows that
  the second one comes, what they do to each other's lines is left out), the
  letters and modifiers of the keyboard, the commands of `keyboard_init()`,
  `keyboard_clear_buf()`, the contents of the status line, the formatting of
  `vprintf()` with its buffer of 20 characters, colours and the hardware cursor.
* `printf()` within `printf()` when the buffer is full: behind the bound `MaxLines`.
* Of `boot32.c`: the CPUID data that is only copied, more CPUs or I/O APICs than the
  arrays have, the range of the checksum of the extended MPS table.
* `atoi()`, `__udivdi3()` and the number conversions of `vprintf()`: sequential
  functions without state, planned as pure functions.
* `printf()` and the typing of `tests_printf()` and `tests_keyboard()`: output of CPU 0 between two
  barriers, of which the barriers are modelled. `payload_demo` is another program for the same kernel.
* Huge pages, the creation of the upper directories and the boot-time page
  tables of `mm.c`.
* The inside of `bench_mem()` in `Payload`; it is `BenchMem`. The benchmarks
  `bench_hourglass*()` and `bench_worker()` as parts of `payload_benchmark()`: their barriers and
  regions are in `Collective` and `BenchWorker`. `bench_rangestride()`: CPU 0 measures while the
  others are in `smp_halt()`, a region as in `Collective`, behind `bench_mem()` or from the menu.
* The interrupt stub of 32 bit mode, in which no handler returns (section 6).
* `idt.c`, `isr.c`: an exception ends the program; vector 128 is a step of `SmpHalt`
  and of `Tests`. The copy of `cpu_online` that `int_handler()` restores is left
  out: no CPU starts while interrupts are on.
* Register access without shared state: `pit.c`, `time.c`, `pci.c`, `smm.c`,
  `nic.c`, `driver.c`, `perfcount.c`, `info.c`, `debug.c`, the I/O APIC, the
  assembler files except `start_smp.inc`.
* Time: the duration of a measurement and of the delays. `bench_hourglass_hyperthread()`
  relies on a duration and is not modelled for that reason.
* Memory reordering: the modelled accesses are separated by locked
  instructions, fences or I/O in the code.

## 8. Plan

Done, in this order: `Barrier` (everything else stands on it), `SmpHalt` with
`Collective` and `BenchWorker`, `SmpBoot`, `FrameAlloc`, `PageTable`, `Payload`,
`Screen`; then `BootInfo` and `BootPath`, `Tests`, `Console`; and the proofs of every safety
property the runs check.

Next, models:

1. Pure functions, each against a reference definition: `__udivdi3()`, `atoi()`,
   `vprintf()`'s number conversions.
2. `PageTable` with `reconf_adr()`, huge pages and the creation of the upper directories.
3. Two viewers at once in `Console`.

Next, proofs:

1. What `NobodyStranded` says of `bench_worker()`, of the other components whose liveness
   is only model-checked: in each place where a CPU waits, the one that is to let it go
   still has that ahead of it.
2. `Tests` and `BenchWorker` have the same lemmas about `smp_halt()` and `smp_wakeup()`, each for
   its own callers; stated once about `SmpHalt`, with the caller's obligations as hypotheses,
   they would serve both.
