# os1 kernel: TLA+ models and proofs

This directory is a verification development for the os1 kernel (`src/kernel`,
with `src/boot` and `src/user` around it). The modules are translated from the
code; `PROJECT.json` maps every definition to the lines it stands for and lists
the components, runs, mutants, theorems, findings and hazards.

Paths below are relative to `src/kernel` unless they start with `doc/`.

## 1. The system and its parts

os1 is a small x86_64 SMP kernel. The boot CPU (BSP, `g_cpu_boot`) brings the
system up, takes all device interrupts and runs the reaper. The other CPUs (APs)
run user threads from per-CPU run queues and are driven by a local timer and by
reschedule interrupts.

| Part | Code | State | Operations | Module |
|---|---|---|---|---|
| Page frames | `mm/page_frame.*`, `mm/boot_reserve.cpp` | bitmap, page count, free count | initialize, allocate, allocate(n), free, reserve_range | `PageFrames`, `PageBitmap` |
| Kernel objects | `mm/kmem.*` | caches, slab lists, free lists, global counters | kmalloc, kfree, grow, release, create and destroy a cache | `Kmem` |
| Address spaces | `mm/virtual_memory.*`, `mm/user_copy.*`, `proc/user_elf.*` | four-level page tables, CR3 | load, map, translate, copy, exec, destroy | `AddressSpace` |
| Scheduler | `sched/*`, `proc/thread.cpp`, `multitask.asm`, `irqhandler.asm` | thread states, run queues, current threads, pending vectors | tick, IPI, yield, block, wake, exit, migrate, dispatch, reap | `Scheduler` |
| Processes | `proc/process.cpp`, `proc/reaper.cpp`, `proc/user_program.cpp`, `syscall/wait.cpp`, `syscall/process.cpp` | process table, parents, exit status, child waiters | spawn, exit, waitpid, reap | `Processes` |
| Block I/O | `drivers/block/*`, `drivers/virtio/virtqueue.cpp`, `storage/*`, `sync/wait_queue.cpp` | request slots, rings, completions | submit, interrupt, poll, time out, wait | `BlockIo` |
| Device registries | `interrupt/vector_allocator.cpp`, `platform/irq_registry.cpp`, `platform/pci_msi.cpp`, `drivers/bus/*`, `mm/dma.cpp` | vectors, handlers, routes, BAR claims, DMA records, bindings | probe, bind, fall back, roll back, remove | `Devices` |
| Network | `drivers/net/*` | receive and transmit queues, ARP cache | receive, transmit, interrupt, smoke test | `VirtioNet` |
| Start-up | `core/kernel_main.cpp`, `arch/x86_64/cpu/cpu.cpp`, `cpu_start.asm` | stage, tick source, AP mailbox | every stage, tick, AP start | `BringUp` |
| USB | `drivers/usb/*` | command, event and transfer rings, HID devices | command, transfer, event, enumerate, release | `Usb` |
| Terminals | `console/terminal.*`, `drivers/display/*` | cells, cursor, shadow, screen | write, scroll, switch, redraw | `Terminals` |
| Event ring | `debug/event_ring.*` | ring of records, sequence number | record, snapshot | `EventRing` |
| Console | `console/*`, `syscall/console_read.cpp`, `syscall/observe.cpp`, `drivers/input/*` | edit line, ring of lines, readers | key, serial poll, USB report, echo, read, write, observe, wake | `Console` |
| Platform discovery | `platform/init.cpp`, `platform/acpi*`, `platform/pci.cpp`, `platform/pci_capability.cpp`, `platform/topology.cpp`, `platform/hpet.cpp` | firmware tables, namespace, configuration space | discover, enumerate, resolve a route | `Discovery` |
| Boot loaders, cpio, user programs | `src/boot`, `fs/*`, `src/user` | images | hand over, parse | not modelled |

How they interact, and why it is hard:

- A wake-up crosses from an interrupt on one CPU to the run queue of another,
  through three critical sections and an IPI, while the balancer and the target's
  own dispatcher work on the same queues.
- Switching threads is not atomic: `current_thread` is published before the old
  kernel stack and address space are left, and the reaper on the boot CPU decides
  from `current_thread` what it may free.
- `waitpid` on any CPU races the reaper for the same process record, and each
  decides from its own earlier look at it.
- `spawn` publishes the new thread before it has finished preparing it.
- A slab cache grows outside its lock, and a slab page goes back after the lock
  has been dropped.
- A load allocates page by page and has to give everything back when any page or
  table cannot be had.
- A block request lives on its caller's stack; the interrupt, the boot-time poll
  and the caller all hold a pointer to it.
- The xHCI driver polls the event ring its own interrupt handler serves, and tells
  completions apart by the address of their TRB.
- Drivers are probed with interrupts on, and any allocation of a probe may fail.
- All APs are started through one mailbox, and a late one is given up on.
- Console readers, block waiters and `waitpid` callers all depend on the boot CPU
  taking another interrupt.

`PROJECT.json` lists each such hazard at the line where it bites, with the
properties that would notice.

## 2. Modules

| Module | Stands for |
|---|---|
| `PageFrames` | what the page allocator promises, on sets of pages |
| `PageBitmap` | the allocator's code on bitmap words; implements `PageFrames` |
| `PageFramesProofs` | proofs about `PageFrames` |
| `PageBitmapProofs` | the proof that `PageBitmap` implements `PageFrames` |
| `Kmem` | the small-object allocator, over `PageFrames` |
| `AddressSpace` | page tables, program loading, exec, teardown and user copies, over `PageFrames` |
| `Scheduler` | threads, run queues, dispatch, wake-up, migration, thread reaping |
| `SchedulerInv`, `SchedulerProofs` | proofs about `Scheduler`: the invariant and half of its actions; the other half and the theorems |
| `Processes` | process records from spawn to the end of waitpid or the reaper |
| `BlockIo` | a block request from submit to the return of its wait |
| `BlockIoProofs` | proofs about `BlockIo` |
| `Discovery` | what `platform_discover` makes of a machine, as operators |
| `Devices` | the registries drivers share, and probe and remove of the three PCI drivers |
| `VirtioNet` | the network data path; extends `Devices` |
| `BringUp` | `kernel_main` and the APs; extends `VirtioNet` and `Discovery` |
| `DevicesProofs`, `BringUpProofs` | proofs about `Devices`, and about `BringUp` from them |
| `Usb` | the xHCI driver on a running controller |
| `Terminals`, `EventRing` | the two data structures `Console` composes |
| `Console` | input interrupts against read, write and observe |
| `ConsoleProofs` | proofs about `Console` |
| `MC*` | small instances for TLC |

Four of these are compositions: `Kmem` and `AddressSpace` run over the page
allocator's contract, which the bitmap code is proved to implement;
`BringUp` joins the boot sequence, discovery, the registries and the network; `Console` joins
terminals, event ring and line discipline.

A definition that begins with "Mutant" or "Mutation" in its comment is not part of
a specification: it is a plausible bug in the definition that follows it, kept to
show that a property would notice.

### PageFrames and PageBitmap

`PageBitmap` keeps `bitmap` as words of `WordBits` bits, and its actions are the
functions of `PageFrameContainer`: `Initialize` surveys the map, clips it to the
bitmap's size, paints usable regions word by word, counts, and reserves the boot
ranges; `Allocate`, `AllocateRun`, `Free` and `ReserveRange` follow. A loop of the
code is a recursive function over its rounds, one operator per round
(`SurveyRegion`, `PaintRegion`, `CountWord`, `ScanPage`). Addresses are naturals:
that a region's end does not wrap at 2^64 is left to the boot loader. `PageFrames` has
the set of free pages, the set of held ones and the counter instead, and states
what clients rely on. `ImplementsPageFrames` is the refinement: the abstract
specification, under the mapping in `PageBitmap`, as a property of the code.
`held`, `pinned` and `refused` are history.

### Kmem

Pages hold headers, free lists are sequences of addresses, sizes wrap. A step is
one critical section of a cache lock, one call of the page allocator, or one half
of an update of `g_kmem_global_stats`, which no lock protects. `inUse` and
`direct` are history: what callers were given and have not freed. `inUse` counts
the holders of an object, so that one given out twice is seen. `objectSize` is the
header's copy of the slot size, which a free compares with that of the cache. The build without `OS1_KMEM_DEBUG` is modelled.
When `slab_page_count` would underflow the CPU stops, as `kmem_corruption` does.

### AddressSpace

Memory is words; a word is what a page-table entry and user data have in common,
a page number and flags, so a table walk reads whatever the page holds. Loading a
program, building its stack, `exec` and teardown are sequences of steps that end
where the page allocator is called, on any CPU, for any number of processes. The
contents of a segment are copied after its last page has been mapped. Segment ends
are sums modulo `AddressMod`, as 64-bit sums are. A spawn may still fail once its
image is loaded (`SpawnFails`), and then destroys the space. Between the choice of
the next thread and the load of CR3 (`switch`) a CPU is still on the old root.
User stores and the user-copy functions act between those steps. `lost` counts the
pages the code forgets: `allocate_and_map` calls that fail in `map_physical`, and
leaves that a second segment overwrites in a page it shares with the first.

### Scheduler

A CPU is in user mode or inside one handler with interrupts masked. `pc[c]` names
the step the handler is at; a step is what the code does under one spinlock, or
one unlocked write another CPU can see. `current` is `cpu::current_thread`;
`stack` is the thread whose kernel stack the CPU really executes on, which
`restore_thread` leaves last. `arg`, `dest`, `entry` and `after` are the handler's
locals. Pending reschedule vectors are a set: the local APIC has one bit per
vector. Wait queues are one set, and whatever makes an event happen is left open.
The balancer may move any ready thread its length test allows, which covers every
cooldown and affinity; the target of a wake-up is any CPU, because the lengths it
is chosen by are read one at a time.

### Processes

A user process has one thread, so one value stands for both records, with a
state for each (`pstate`, `tstate`). `linked` is the registry list. Steps are the
critical sections of the process-table and thread-registry locks and the
unlocked accesses between them: the reaper's `clear`, `owner`, `state` steps, the
two halves of `reap_process` (`unlink` under the locks, `release` after), and the
three of a spawn (`process`, `thread`, `prepare`). A `waitpid` that finds no dead
child looks in one step and blocks in another (`WaitLook`, `WaitBlock`): the
process-table lock is held throughout, but the thread-registry lock is given back
in between. Run queues are one set, since
`Scheduler` has them in detail. `exited` and `got` are history: what each pid
passed to `exit` and what `waitpid` delivered for it. Releasing a record that is
already free stops the CPU, as `kmem_corruption` does.

### BlockIo

The thread that issues requests and the queue interrupt are both on the boot CPU,
where the boot sequence, the only caller of the block layer, starts. A waiter that
was woken on another CPU is not modelled (section 5). The handler runs between any
two steps of the thread, and whole: `completion_signal` sets `done` and takes the
waiters off their queue in one step because no thread of this CPU can run between
the two. The device takes chains in order and answers in any
order, with success or error. While booting, submit polls with interrupts on, so
poll and handler drain the same ring; reading an element and advancing
`last_used_idx` are two steps, and whether the build loads the index again for
the second is left open. Request objects are reused after their caller drops
them. The device is external and marked so in the map.

### Discovery, Devices, VirtioNet and BringUp

Discovery runs once, before interrupts, so `Discovery` has no state of its own: a
machine is a record with its root table list, ACPI namespace, link devices and
configuration space, and operators named after the code say what is refused and
what is found: enabled CPUs and the boot CPU, overrides, ECAM regions, interrupt
routes (cached per device, all or none, with the second look at the namespace when
the cache has no match), functions, BARs, capability lists. `Devices` keeps the
result in `platform` and `pci`. What a probe reads later from tables and
configuration space (`modes`, `wired`, `table`) is computed with it, since nothing
changes them in between.

`stage` walks through `kernel_main` with its early returns. From `sti` on,
interrupts arrive between stages. Probing is one step per call another party can
observe, and each allocation may fail; the first failed probe ends the boot.
Enabling MSI-X writes several registers in one step: the handler is in its place
before the message is written, and the function is masked until the table entry is
complete (`platform/pci_msi.cpp:132-150`). Some xHCI controllers want scratchpad buffers
as well. `dev`
holds what each device has in every registry and what its hardware was told
(`msg` is the vector it will really send). A device may use MSI-X, MSI or INTx, as far
as its capabilities and routes offer them, in the order the code tries them. The receive and transmit buffers, the handler and
the smoke test of virtio-net run inside the boot; frames are what the handler
tells apart. APs run the trampoline at their own pace and take the cpu record the
mailbox names when they read it. Two spins of the code have no bound: on the LAPIC's
delivery bit (`lapic.cpp:111`) and on the PIT in `micro_delay` (`lapic.cpp:141`),
which is called four times per AP. `spinsOn` says which the boot CPU is in; only
`ChipAnswers`, which has no fairness, ends it. Once the system runs, devices may be
removed.

### Usb

Enumeration polls the event ring while the handler, on the same CPU, serves it
too. The polling code's `dequeue_event_trb` is up to five steps, with the handler
between any two: read the cycle bit; compare it with the ring's, and find nothing or
read the TRB; increment the index; set it to 0 at the end of the ring; flip the cycle.
ERDP is written in a step after the last look at the ring; that the value is read
and written at once is an abstraction: the 256 TRBs of the real event ring are many
more than the requests that can be under way. The controller completes
TRBs when it likes, with success or failure, or not before the time-out; an
interrupt transfer that fails halts its endpoint. TRBs are
addressed by ring and index, as the driver recognises them. Ghost variables mark
what the driver cannot see: `late` completions of abandoned requests, buffers that
were `reused` under an abandoned TRB, and a handler that `reentered`
`dequeue_event_trb` where it does harm. After that index and cycle are wrong and the
behaviour is not followed further. The properties name the ghost they exclude;
section 5 says what happens otherwise.

### Console

All input comes through interrupts of the boot CPU: the tick polls the serial
port, the PS/2 handler delivers a character or a hot key, an xHCI report several
keys. Characters are counted, not kept; a completed line has a number. The input
lock covers the poll and the echo, the output lock one chunk of a write. Readers on
any CPU check for a line and block in separate critical sections. `observe` copies
the event ring into a static array that all callers share, then writes header and
records. A read that returns -1 at once (another file, no buffer) changes nothing and
is left out. Terminals are cells and a cursor, the screen a second set of cells, with
the shadow and the last cursor the redraw compares with. This is the framebuffer
display: all terminals have its size and it has a shadow buffer, as
`core/kernel_main.cpp:501-548` sees to. A hot key unlinks one terminal and links and presents the other in one
step. The echo does not take the output lock; once two CPUs write one terminal at
once the behaviour is not followed further (`overlapped`). This also ends the
behaviours in which lines and events are looked at: `LinesInOrder`,
`EventsConsecutive` and `ReaderServed` are checked up to there.

## 3. Runs

| Run | Instance | Shows |
|---|---|---|
| `page_bitmap` | 322 memory maps on three 4-bit words | the bitmap code implements the contract; pages are usable RAM; a run is refused only when none exists |
| `kernel_heap` | 2 CPUs, 5 pages of 6 bytes, two size classes and a named cache | no byte is given out twice, no page leaks, empty slabs per cache are at most as many as CPUs |
| `scheduler` | 2 CPUs, 2 threads | nothing lost, run twice or slept over; a ready thread runs in the end or is moved without end |
| `processes_one_cpu` | 1 CPU, 3 records, 3 pids | statuses are right, no exit is missed, zombies are left to parents, waiters leave the queue |
| `processes_smp` | 2 CPUs, 3 records, 3 pids | **violated**: finding 3 |
| `processes_wait_returns` | 1 CPU | **violated**: finding 1 |
| `block_io` | 3 requests, 2 slots, rings of 2, indices modulo 4 | no stale data, no dangling request, slots are back before reuse, every wait ends |
| `address_space` | 2 CPUs, 2 processes, 10 and 16 pages, 5 images | spaces share nothing, frames are accounted for, the layout is sound, threads run on their own root, read-only words and all translations are kept |
| `address_space_teardown` | the same, storing the integer 1 | **violated**: finding 2 |
| `bring_up` | 7 machines, 2 APs, 5 vectors, 3 frames | discovery misses and invents nothing, interrupts reach their owner, vectors do not leak, bound devices are complete and removed ones gone, APs have their own record, the boot ends unless a chip never answers |
| `usb` | 2 ports, event ring of 3, one time-out, two reports | results belong to their request, events are handled once, a device has exactly one report outstanding, freed buffers are idle |
| `console` | 2 CPUs, 2 readers, 2 terminals, 3 characters, 2 calls | lines keep their order, a reader is served, the screen shows the active terminal, an observer gets consecutive events |

Bounds, and why they are enough to be interesting:

- *Pages.* Words of 4 bits and pages of 2 units keep every alignment case of the
  64-bit, 4096-byte original: a region can start and end inside a page, inside a
  word and on either border; two regions can share a word.
- *Heap.* A page holds one object of the large class and two of the small one, so
  slabs are empty, partial and full; five pages run out. The sizes include 0, a
  class border, a whole page and one that wraps. `StatBound` limits how far lost
  updates let the global counter drift.
- *Address spaces.* Two-entry tables keep all four levels. Ten pages hold one
  process and part of a second, so every allocation of a load fails in some
  behaviour; sixteen hold two small programs, or one and
  the image it execs. The five images have text only; text and data on pages of their
  own; data that shares the page of the text; data that reaches the guard page; and
  data whose end wraps around. In `address_space` stored words name no tracked page,
  which keeps finding 2 out of the way; `address_space_teardown` stores one that
  does.
- *Scheduler.* Two threads and two CPUs reach every action: a thread stolen while
  another runs or dies, a wake-up racing a dispatch. Records are reused, so no
  number of creations is bounded. The safety properties are proved for any number
  of either (section 4).
- *Processes.* `MaxPid` bounds how many processes are ever created. With three
  records, three pids give a parent and two children, a grandchild, or a reused
  record. On two CPUs that is enough for finding 3.
  `Status` has 0, the value a new process starts with, and one
  other where a property compares statuses. The initial process is not
  interchangeable, so symmetry is over the other records only.
- *Block I/O.* Three requests for two slots give a busy submit; indices modulo 4
  over rings of 2 wrap, as 2^16 does over the queue size, and the same ring entry
  is used in both halves of the index range.
- *Discovery.* Five machines that boot: without devices and with the boot CPU
  second in the list and a disabled CPU; with a table that has an unusable entry;
  with two buses, a gap between functions and a second disk; with a line given as
  GSI and an MSI-X table outside every BAR; with more devices than vectors. Two are
  refused. The `Max` constants are the code's array sizes made small, `MaxSteps`
  the 48 steps of a capability walk, one list of which is a circle. A device that
  sends messages is only in machines that list the boot CPU first (finding 9).
- *Boot.* Five vectors are two for IPIs and three for devices and, after them, the
  timer: a machine with four devices uses them up. Two APs are the fewest that share a mailbox.
- *USB.* Rings wrap: the command ring after two requests, the event ring after
  three events, so the handler also meets the polling code where the cycle flips. `MaxTimeouts` is below the command ring's size: fewer
  commands are abandoned than the ring holds.
- *Console.* A line holds one character and its newline, the ring two lines, so
  both overflow; 2x2 cells scroll after two lines; the event ring wraps at two.
  `MaxKeys`, `MaxCalls` and `MaxEvents` bound the run.

On two CPUs the properties of `Processes` are not expected to hold: findings 3, 5
and 6 are in the way. `page_bitmap`, `kernel_heap` and
the address-space runs do not check for deadlock: a machine without usable memory,
or with every CPU stopped, has no further step. Each module also has a type invariant, which holds on the same
instances; those of `PageFrames`, `PageBitmap`, `Scheduler` and `BlockIo` are part
of what is proved.

### Fairness

- A handler that has been entered runs to its end, since interrupts are masked:
  weak fairness of the kernel steps of each CPU.
- A pending timer or reschedule vector stays in the local APIC until it is taken:
  strong fairness of `Tick` and `Resched`, which a busy CPU disables now and then.
- `WakeDone`: the wake loop consumes a console line per reader, and only the boot
  CPU's own masked interrupts add lines, so it ends.
- Only a CPU in `Ticking`, one with a timer, has fairness of `Tick`. The run has all
  of them there, as with the LAPIC timer; section 5 says what the PIT changes.
- Nothing is assumed of the balancer. Its cooldown compares tick counts of different
  CPUs (`sched/scheduler.cpp:80`), so `ReadyRuns` allows, as the one alternative to
  running, that a thread is moved between queues for ever.
- `Processes` assumes that a queued thread is dispatched; this is `ReadyRuns` of
  `Scheduler`.
- `BlockIo` assumes that the device answers what it has taken.
- `BringUp` assumes only that `kernel_main`, and the boot thread that a tick has
  put in its place, go on; devices, frames and APs may never answer. Neither may the
  chips the two unbounded spins wait for: `BootEnds` then has the boot CPU in the spin.
- `Console` assumes that the tick keeps arriving at the boot CPU, that handlers
  finish and that a system call once entered goes on.
- No run assumes that a user thread ever makes a call or that a key is pressed.

## 4. Proofs

TLAPS checks every proof; nothing is assumed but the named assumptions on the
constants, which TLC evaluates on each run.

**Page allocator** (`PageFramesProofs`), from `PageFramesAssumption` (a positive
page size, maps that are sequences of regions, arguments that are naturals). For
every page size, memory map and sequence of calls:

- `FreeCountIsExact`: the counter is the number of allocatable pages. The code
  decrements it only `if(free_page_count_ > 0)` and the like; the theorem says
  these guards never hide a drift.
- `NoPageSharedOrUnpinned`: free, held and reserved pages stay apart.
- `TypeCorrect`.

The inductive invariant adds that nothing is held before initialization;
counting needs the free set to be finite, which follows from its being a set of
tracked pages.

**The bitmap code** (`PageBitmapProofs`), from `PageBitmapAssumption` (positive
page size, word width and bitmap limit; maps that are sequences of regions;
arguments that are naturals):

- `BitmapImplements`: the code implements the contract. `initialize()` makes
  exactly the usable whole pages that fit the bitmap free, and counts them; every
  later call takes or gives the pages the contract says, or changes nothing.
- `OnlyUsableRam`: a page that is free or held lies in usable regions byte by byte.
- `RefusedOnlyWhenNone`: the one-pass scan misses no run.

What holds of `PageFrames` therefore holds of the code, the exact counter and
the separation of owners included. The invariant `Inv` says which numbers the
actions rely on: no bit is 1 at or behind `page_count_`, the words hold that many
pages, `memory_end_` is their end, and the count is the number of 1 bits. The
weight is in the loops. `EveryRound` (what each round keeps holds at the end) and
`LoopRuns` (the recursive function exists, so that its equation may be used) are
proved once, from the least element of a set of naturals. Each loop then has an
invariant for one round and a lemma for its result:

- `SurveyIs`: the first pass finds the end of the highest usable page;
- `PaintMapIs`: the second sets the bits of the usable pages and no others.
  `PaintSets` is the case analysis over first, whole and last words;
- `CountIs`: the third counts every 1 bit, although `ipage` falls behind the real
  position at each zero word (`mm/page_frame.cpp:159`): that only moves the cut at
  `page_count_` further back, where no bit is 1;
- `ScanIs`: the scan finds the lowest run, because a stretch that is still growing
  begins behind a busy page.

`PageOfBit` and `BitOfPage` carry facts between bits of words and page numbers.

**Scheduler** (`SchedulerInv`, `SchedulerProofs`), from
`SchedulerAssumption` (the boot CPU is a CPU; `Idle` and `None` are distinct and
no threads). For any number of CPUs and threads:

- `QueuesAreDisjoint`: a thread is on at most one run queue, once, and
  `run_queue_cpu` says which. The queues are linked through the thread.
- `OnlyReadyThreadsAreQueued`: what `schedule_next` resumes was Ready.
- `ThreadsAreNeverLost`: a Ready thread is queued or carried by a CPU to a queue or
  to execution; a Blocked one is on a wait queue or being woken.
- `ThreadsRunOnOneCpu`: no thread executes user code on two CPUs.
- `NoCpuSleepsOverWork`: a CPU idling over a non-empty queue has a reschedule
  vector pending or about to be sent.
- `TypeCorrect`.

None of these is inductive by itself, because `current_thread` goes stale: a CPU
that has requeued or blocked its thread still names it while another CPU may
already run it. `Holds(c, t)` says when a CPU really owns a thread (its current
one before it gives it up, or the one in its hands). The invariant `Inv` says that
a thread is in at most one place: held by one CPU (`OneHolder`), and then on no
queue (`HeldIsUnlinked`), on a wait queue, and then Blocked (`WaiterIsBlocked`),
or on a run queue; with the state each holder leaves the thread in
(`HolderState`) and what the handler's locals hold (`Locals`). There is one lemma
per action; two lemmas about steps that change no thread, or only the state of
one, carry most of them. `NoCpuSleepsOverWork` needs `IdleQueue`, which also
covers a CPU that has decided to idle and has not yet returned to its idle
thread: that is the window in which a wake-up must not be missed.

`ThreadsAreNeverLost` is about Ready and Blocked threads. It does not say that a
Running thread is on a CPU, and finding 1 is exactly a thread that is marked
Running and is nowhere.

**Block I/O** (`BlockIoProofs`), from `BlockIoAssumption` (at least one slot, no
more slots than ring entries, indices that wrap at a multiple of the ring size).
For any number of requests and slots, any ring and any index width:

- `OwnData`: a request that ends in Success has its own data.
- `NoDangling`: no slot refers to a request that is over.
- `SlotsComeBack`: a slot is handed out only when the device has neither its last
  chain nor an offer of it.

The first two need to know what a slot holds on the way: a request is in one slot
(`OneSlot`), that slot is active, its header was written for that request, and a
successful answer in it is the answer to that request (`SlotIsRequests`). `OneSlot`
is why completing one slot, or taking it back on a time-out, leaves no second
pointer; `SlotIsRequests` is why the time-out, which looks only at active slots,
finds the request. `CompleteInv` is about one round of the drain for *any* slot,
so it covers a poll whose element the interrupt has handled meanwhile, and ring
indices that go back. The invariant says nothing about which elements are in the
rings: these two theorems hold whatever order the device and both drains use them
in. The third depends on that order. `SlotInv` says that every offer, every chain the
device has taken and every answer not yet consumed is that of an active slot, and no
two are of the same one (`ChainInv`, `AnswerInv`), so completing a slot on its answer
leaves nothing of it with the device. While the boot poll runs, `last_used_idx` may go
wrong, because the interrupt consumes the element the poll has read; `Astray` says that
the one request is then done and no slot is active, so nothing is left to protect.

**Start-up, devices and network** (`DevicesProofs`, `BringUpProofs`), from the
assumptions of `Devices`, `VirtioNet` and `BringUp`. For any machines and any
number of processors, vectors, addresses and frames:

- `MessagesReachOwner`: a message-signalled interrupt reaches the boot CPU and the
  handler of the device that sent it. Its hypothesis, `BootCpuFirst`, is that every
  machine with PCI functions lists its boot CPU first; without it the theorem is
  false (finding 9).
- `NoVectorLeaks`: on every path of probe, fall-back, roll-back and removal an
  allocated vector is an IPI's, routed, being bound, or was given to a line.
- `BoundComplete`: a bound device has its registers, all of its buffers and an
  interrupt that reaches its handler.
- `NothingLeftBehind`: once the system runs, a device that was passed over or
  removed has nothing in any registry.
- `OwnRecords`: no two APs run on one cpu record, as long as none was given up on.
- `RepliesCached`: a probe reply the smoke test has seen is in the ARP cache, unless
  an allocation failed.

The first four rest on `DevInv`, which every step of `Devices` keeps. A device's
vector, message, handler and route name each other in both directions (`Owned`);
during the `route` stage of a probe the vector is the probe's and not yet the
device's (`Binding`), which is the window a failure has to roll back from;
`Progress` says what the device being probed has at each stage, buffer by buffer;
`BindingState` says what is left at the states of a binding. `BringUpProofs` adds
`StageInv`, how far `kernel_main` is when probing has begun or ended, since
interrupts and APs act in between. `ApInv` says that at most one AP, the one that
is waited for, is between its start and its record.

**Console** (`ConsoleProofs`), from `ConsoleAssumption`. For any number of CPUs,
threads and terminals and any size of screen, queue and ring:

- `ScreenCorrect`: between writes the screen shows the active terminal. The
  incremental redraw compares with a shadow, so the invariant is that the shadow
  and the last cursor are what is on the screen, in every state.
- `LinesCorrect`: the queue holds the lines that were committed and not taken,
  oldest first. The invariant places each line relative to the head, modulo the
  capacity, and the tail after the last.
- `EventsCorrect`: an observer gets consecutive records, the newest last. Going
  back from the head the ring holds the last sequence numbers, and a snapshot keeps
  them while recording goes on.

The exceptions are those of the properties (`overlapped` writes, two observers in
the static array).

**Only model-checked**: the liveness properties (`ReadyRuns`, `WaiterWoken`,
`WaitEnds`, `BootEnds`, `ReaderServed`), because the prover has no fairness
reasoning; `PlatformFaithful`, which compares discovery's
folds and table walks with what a machine has; the properties of `Kmem`,
`AddressSpace`, `Processes` and `Usb`. On several CPUs those of `Processes` are
not theorems: see findings 3, 5 and 6.

## 5. Findings

With a run that shows them:

1. *A waitpid caller can be lost* (`WaitReturns`), on a single CPU. The caller is
   Blocked and calls `schedule_next(false)`, which reaps the child first;
   `wake_blocked_thread` sees its own current thread, marks it Running and does
   not queue it (`proc/thread.cpp:721`); `schedule_next` then dispatches another
   thread and nobody holds the caller any more.
2. *Teardown frees pages that user data names* (`TeardownFreesOwn`).
   `destroy_user_slot` passes level 4 for an entry whose table is the level-3 one
   (`mm/virtual_memory.cpp:416`), so `destroy_table` walks one level too deep and
   reads the words of the user's data pages as entries.

3. *A waitpid caller can miss an exit* (`NoMissedExit`, run `processes_smp`).
   `try_complete_or_block_wait_pid` gives the thread-registry lock back
   (`syscall/wait.cpp:134`) before it links the caller (:157-164). On another CPU the
   reaper can clear the child's last thread and find the wait queue empty in between.
   The caller then blocks for a child nobody will announce again, though
   `syscall/wait.hpp:16-17` has it "atomically block the current thread before a
   child-exit wake can be missed".

Without a run of their own; the property is in the module, and checking it with
the constants of the `.cfg` named shows the violation:

4. *A kernel stack can be freed while in use* (`Scheduler!StackNotFreedInUse`,
   `Scheduler.cfg`). `restore_thread` publishes the next thread in its first
   instruction (`multitask.asm:38`) and leaves the dying thread's kernel stack in
   its last ones. In between, the boot CPU's reaper sees a Dying thread that is
   nobody's current thread and frees its stack, which `proc/reaper.cpp:52-54` sets
   out to avoid.
5. *An exit status can be overwritten* (`Processes!StatusDelivered`,
   `ProcessesSmp.cfg` with `Status = {0, 1}`). `create_user_thread` queues the
   thread before `prepare_user_thread_entry` runs (`proc/user_program.cpp:191`),
   which resets the status; a child that has run to its exit on another CPU by
   then is reported with status 0. It resets the thread's wait as well.
6. *A process record can be released twice* (`Processes!NoDoubleFree`,
   `ProcessesSmp.cfg`). Once the reaper has cleared the last thread, a `waitpid` on
   another CPU may collect the process; the reaper then reads the zeroed record,
   does not see a zombie and reaps it again (`proc/reaper.cpp:63`). When the record
   has been taken for a new process meanwhile, it reaps that one.
7. *A race on a counter can look like corruption* (`Kmem!NoFalseCorruption`,
   `Kmem.cfg`). `slab_page_count` is incremented and decremented under different
   cache locks (`mm/kmem.cpp:838`); after a lost increment a correct `kfree` finds
   it zero and halts (`mm/kmem.cpp:1383`).
8. *A PIT tick can enter the boot thread early* (`BringUp!TickAfterAps`,
   `BringUp.cfg`). `prepare_scheduler_timer` routes IRQ0 of the PIT to the scheduler
   (`core/kernel_main.cpp:313`) when the LAPIC timer cannot be calibrated; a tick during `cpu_boot_others` runs the boot-sequence thread, which `kernel_main`
   then enters again (`core/kernel_main.cpp:650`, against the comment at :647).
9. *Messages go to the first CPU listed, not to the boot CPU*
   (`BringUp!MessageReachesOwner`, `BringUp.cfg` with the boot CPU second in `Two`
   of `MCBringUp`). `acpica_parse_madt` accepts the boot CPU at any place of the
   MADT, but `bsp_apic_id` returns `g_platform.cpus[0].apic_id`
   (`platform/pci_msi.cpp:57`). On such a machine MSI and MSI-X are sent to an AP,
   which has not been started when the drivers are probed; IOAPIC entries use
   `g_cpu_boot->id`. `doc/2026-04-29-driver-device-platform-implementation-plan.md:276`
   asks to "Route early MSI/MSI-X to the BSP only."

10. *Empty slabs can pile up* (`Kmem!OneSpareSlab`, `Kmem.cfg`). Two CPUs that grow a
    cache at once leave an empty slab each, and a free returns only the slab it has
    emptied itself. `doc/2026-05-04-kernel-small-object-allocator.md:672` says "Return
    excess empty slabs", with `keep_empty_slabs_per_cache = 1` (:679).
    `SpareSlabsBounded` is what holds.
11. *With the PIT a ready thread may wait for ever* (`Scheduler!ReadyRuns`,
    `Scheduler.cfg` with `Ticking = {c0}`). APs then have no timer
    (`core/kernel_main.cpp:318`, `arch/x86_64/cpu/cpu.cpp:74`) but still count as
    schedulable (`proc/thread.cpp:18-20`), where
    `doc/2026-05-05-phased-smp-enablement.md:560-562` would "refuse to enable AP
    scheduling under PIT" and "keep APs idle".

Seen while modelling; a property that would notice excludes it by name, and where none
is named the properties do not speak of it:

- A thread woken while it is still in its block path on another CPU is queued
  while that CPU executes on its kernel stack (`proc/thread.cpp:631`;
  `doc/2026-05-05-phased-smp-enablement.md:609-613` is concerned with it). User
  code still runs on one CPU at a time, which is what `ThreadsRunOnOneCpu` says. The
  same holds of a thread `schedule_next` queues again (`sched/scheduler.cpp:322`):
  another CPU may take it while the first is still on its kernel stack.
- `allocate_and_map` drops the page it has just taken when `map_physical` fails
  (`FramesAccounted` counts these). So is the page of a segment lost when the next
  segment begins in the same page: it is mapped anew, and the first contents with it.
- An AP that comes up after it was given up on takes the next AP's record and
  stack (`ApOwnRecord` excludes it).
- The vector of an INTx route is not freed with the route (`VectorsAccounted`).
- `lapic_init` (`lapic.cpp:111`) and `micro_delay` (`lapic.cpp:141`) spin without a
  bound (`BootEnds`).
- The xHCI handler may take an event inside the polling code's `dequeue_event_trb`:
  after the read of the cycle bit, before the increment of the index, or before the
  flip of the cycle (`EachEventOnce`). An interrupt endpoint that has halted is armed
  again but never reset, and its device is not heard of again (`StaysArmed`). After a time-out buffers are released
  though the controller still holds their TRBs (`FreedBuffersIdle`,
  `TransferResultOwn`).
- The echo of input writes a terminal without the output lock; two observers share
  one static array of records (`EventsConsecutive`).
- The block driver's slot table has no lock, and nothing keeps the boot-sequence
  thread on the boot CPU. Away from it, a waiter may see `done` and return between
  `completion_signal`'s two steps (`wait_queue.cpp:130-131`), the second of which uses
  the completion on that waiter's stack.
- A line longer than the reader's buffer is lost, the hot keys of the terminals
  also yield control characters, and `observe` counts and copies processes in two
  critical sections.

## 6. Not modelled

- ACPICA and the OS layer under it (`platform/acpica_osl.cpp`), `_CRS` resources,
  power methods: that the namespace cannot be loaded is one of the ways `Discover`
  returns. Checksums and lengths of tables are one flag.
- Boot loaders and the hand-off: straight-line code before the kernel. The memory
  map and the boot source are inputs of `PageBitmap` and `BringUp`.
- The cpio reader: bytes of one image; its files are a constant of
  `AddressSpace`, which models how ELF images are checked and loaded.
- Register programming, timer calibration arithmetic, scan-code, usage and glyph
  tables, the VGA text device, log output: they change no state another part
  reasons about.
- The balancer's policy (threshold, cooldown, affinity): `Scheduler` allows every
  choice it could make. The order of nested locks: a critical section is one step.
- The kinds of `observe` other than events: they copy tables of other modules.
- User processes with several threads, which nothing creates; block waiters away from
  the boot CPU; redzones and leak dump of `OS1_KMEM_DEBUG`; `protect` and
  `free(range)` of `VirtualMemory`, which nothing calls; power management.
- User programs: the models let a user thread make any modelled call at any time.

Memory is taken to be sequentially consistent, except as noted for
`last_used_idx`. That is exact for accesses under a spinlock; for the few
unlocked ones it is an assumption, since x86 may delay a store past a later load.

## 7. What could come next

- The balancer with wrapping per-CPU ticks, to show when `ReadyRuns` needs no
  alternative; nested
  acquisitions against `doc/2026-04-29-smp-synchronization-contract.md`.
- `Processes` with `Scheduler`'s queues in place of its set, and an abstract
  process table that it implements on one CPU; a two-CPU `BlockIo`.
- Theorems: the rings of `Usb`; the ownership
  theorems of `Kmem` and `AddressSpace`; `Processes` on one CPU.
