------------------------------- MODULE BringUp -------------------------------
(***************************************************************************)
(* The boot of the machine: kernel_main (core/kernel_main.cpp) on the boot *)
(* CPU, stage after stage with its early returns, over the driver probing  *)
(* of Devices and the network smoke test of VirtioNet; the interrupts that *)
(* arrive from sti on; the choice of the scheduler's timer; and the start  *)
(* of the other CPUs through the one start-up mailbox                      *)
(* (arch/x86_64/cpu/cpu.cpp, asm/cpu_start.asm), each at its own pace.     *)
(***************************************************************************)
EXTENDS VirtioNet, Discovery

CONSTANTS
    Ap,         \* application processors: 1..n, in the order of the cpu list
    BootSources \* BootSource values the boot loader may hand over

VARIABLES
    stage,      \* where kernel_main is
    source,     \* BootSource
    established,    \* what the stages have put in place
    timer,      \* SchedulerTimerSource, or None before prepare_scheduler_timer
    armed,      \* the boot CPU's scheduler timer interrupt can arrive
    count,      \* APs discovered: the cpu list is 1..count
    next,       \* the AP cpu_boot_others is starting
    mailbox,    \* the cpu record at kApStartupCpuPageAddress
    ap,         \* how far each AP has come
    record,     \* the cpu record an AP runs on
    booted,     \* cpu::booted of each record
    gaveUp,     \* some wait_for_ap_boot has returned false
    running,    \* what the boot CPU executes: kernel_main or the boot thread
    spinsOn,    \* the chip kernel_main waits for without a limit, or None
    dispatched, \* the scheduler has already run the boot-sequence thread
    early       \* ... before cpu_boot_others was done

boot == <<stage, source, established, timer, armed>>
cpus == <<count, next, mailbox, ap, record, booted, gaveUp>>
bsp == <<running, spinsOn, dispatched, early>>
vars == <<devices, network, boot, cpus, bsp>>

Init ==
    /\ DevicesInit /\ NetInit
    /\ stage = "boot_info" /\ source \in BootSources /\ established = {}
    /\ timer = "None" /\ armed = FALSE
    /\ count = Nobody /\ next = 1 /\ mailbox = Nobody
    /\ ap = [c \in Ap |-> "off"] /\ record = [c \in Ap |-> Nobody]
    /\ booted = [c \in Ap |-> FALSE] /\ gaveUp = FALSE
    /\ running = "main" /\ spinsOn = "None" /\ dispatched = FALSE /\ early = FALSE

\* kernel_main executes its stage s.
At(s) == stage = s /\ running = "main" /\ spinsOn = "None"

\* A failed check: kernel_main returns, and the boot stops there.
Return ==
    stage' = "halted" /\ UNCHANGED <<source, established, timer, armed>>

Done(to, what) ==
    stage' = to /\ established' = established \cup what /\ UNCHANGED <<source, timer, armed>>

\* A stage that only succeeds or fails.
Stage(s, to, what) ==
    /\ At(s) /\ (Done(to, what) \/ Return)
    /\ UNCHANGED <<devices, network, cpus, bsp>>

-----------------------------------------------------------------------------
(* Up to sti: memory, page tables, topology, terminals, descriptor tables *)

\* own_boot_info validates and copies what the boot loader left; cpu_init follows.
OwnBootInfo == Stage("boot_info", "frames", {"boot_info", "cpu"})

\* The page allocator, and the modules and framebuffer reserved in it.
InitializeFrames == Stage("frames", "tables", {"page_frames"})

\* Identity window, kernel image, direct map, stack, modules, framebuffer, RSDP.
KernelPageTables == Stage("tables", "discover", {"direct_map", "kmem"})

\* allocate_cpus_from_topology: a record for every CPU but the boot CPU, which has one.
ApCount(cpuInfos) == Cardinality({i \in DOMAIN cpuInfos : ~cpuInfos[i].is_bsp})

\* platform_discover, on a machine whose tables it accepts.
PlatformDiscover ==
    LET p == Platform(Fw, source) IN Accepted(Fw) /\ DevicesFound(p, PciDevices(Fw, p))

\* platform_discover, then PIC, IOAPIC and LAPIC; lapic_init waits until its INIT
\* message is delivered.  Without memory for a mapping or a record, or when ACPICA
\* cannot load the namespace, kernel_main returns as well.
Discover ==
    /\ At("discover")
    /\ \/ Return /\ UNCHANGED <<devices, count, spinsOn>>
       \/ PlatformDiscover /\ Done("terminals", {"topology", "local_apic"})
          /\ count' = ApCount(platform'.cpus) /\ spinsOn' = "Lapic"
    /\ UNCHANGED <<network, next, mailbox, ap, record, booted, gaveUp>>
    /\ UNCHANGED <<running, dispatched, early>>

\* The display's shadow buffer and one buffer per terminal.
AllocateTerminals == Stage("terminals", "interrupts", {"terminal"})

\* Interrupts::initialize: vectors and handlers reset, IDT loaded.
InitializeInterrupts ==
    /\ At("interrupts")
    /\ vectors' = {} /\ handler' = [v \in Vector |-> Nobody]
    /\ Done("ipi", {"idt"})
    /\ UNCHANGED <<found, routes, dev, probe, network, cpus, bsp>>

\* ipi_initialize: two vectors; when only one is free it is not given back.
InitializeIpi ==
    /\ At("ipi")
    /\ vectors' = vectors \cup IpiVectors
    /\ IF Vectors >= 2 THEN Done("sti", {"ipi"}) ELSE Return
    /\ UNCHANGED <<found, handler, routes, dev, probe, network, cpus, bsp>>

\* g_boot_irq_thread becomes current, exception handlers are set, then sti.
EnableInterrupts ==
    /\ At("sti") /\ Done("probe", {"current", "interrupts"})
    /\ UNCHANGED <<devices, network, cpus, bsp>>

-----------------------------------------------------------------------------
(* platform_probe_devices, then keyboard, console and tasks *)

BeginProbe ==
    /\ At("probe") /\ ProbeAll /\ UNCHANGED <<network, boot, cpus, bsp>>

\* One step of the probe; virtio-net's last one also hands over the receive buffer.
Probe ==
    /\ At("probe") /\ ProbeStep
    /\ IF Probing("start") /\ Kind = "virtio-net" /\ probe'.stage = "next"
       THEN NetStart ELSE UNCHANGED network
    /\ UNCHANGED <<boot, cpus, bsp>>

ProbeEnds ==
    /\ At("probe")
    /\ \/ Probing("done") /\ Done("smoke", {"devices"})
       \/ Probing("failed") /\ Return
    /\ UNCHANGED <<devices, network, cpus, bsp>>

\* run_virtio_blk_smoke (its reads are those of BlockIo), then run_virtio_net_smoke.
Smoke ==
    /\ At("smoke")
    /\ \/ SmokeBegin /\ UNCHANGED boot
       \/ SmokeStep /\ UNCHANGED boot
       \/ /\ smoke \in {"ok", "failed"} /\ UNCHANGED network
          /\ IF smoke = "ok" THEN Done("console", {}) ELSE Return
       \/ smoke = "idle" /\ Return /\ UNCHANGED network
    /\ UNCHANGED <<devices, cpus, bsp>>

\* platform_route_isa_irq for a fixed vector: the IOAPIC takes the line, or not.
IsaRouted(irq) == IoApicAccepts(Fw, platform, IsaLine(platform, irq))

\* keyboard.initialize, console_input_initialize, the keyboard's route.
InitializeConsole ==
    /\ At("console")
    /\ (IsaRouted(1) /\ Done("tasks", {"keyboard", "console"})) \/ Return
    /\ UNCHANGED <<devices, network, cpus, bsp>>

\* init_tasks, the kernel process, one idle thread per CPU, the boot-sequence thread.
CreateTasks == Stage("tasks", "timer", {"tasks", "idle_threads", "boot_thread"})

-----------------------------------------------------------------------------
(* The scheduler's timer *)

\* The LAPIC's timer is measured against the HPET.
CanCalibrate == platform.hpet

\* prepare_scheduler_timer, LAPIC: a vector and its route; nothing is armed yet.
PrepareLapic ==
    /\ At("timer") /\ CanCalibrate /\ FreeVectors # {} /\ CanRegister(AllocatedVector)
    /\ vectors' = vectors \cup {AllocatedVector}
    /\ routes' = Registered(AllocatedVector, "LocalApic", Kernel)
    /\ timer' = "Lapic" /\ stage' = "aps" /\ UNCHANGED <<source, established, armed>>
    /\ UNCHANGED <<found, handler, dev, probe, network, cpus, bsp>>

\* prepare_scheduler_timer, fallback: IRQ0 is routed through the IOAPIC here.
PreparePit ==
    /\ At("timer")
    /\ \/ /\ IsaRouted(0)
          /\ timer' = "Pit" /\ armed' = TRUE /\ stage' = "aps" /\ UNCHANGED <<source, established>>
       \/ Return
    /\ UNCHANGED <<devices, network, cpus, bsp>>

\* After cpu_boot_others: the periodic timer of the boot CPU.
ArmTimer ==
    /\ At("arm")
    /\ \/ armed' = TRUE /\ stage' = "enter" /\ UNCHANGED <<source, established, timer>>
       \/ timer = "Lapic" /\ Return
    /\ UNCHANGED <<devices, network, cpus, bsp>>

\* A scheduler tick in kernel_main: schedule_next queues g_boot_irq_thread and runs
\* the boot-sequence thread.  (A PIT interrupt arrives from routing on: the delays
\* of lapic_start_cpu are counted down on the same channel.)
Tick ==
    /\ armed /\ running = "main" /\ ~dispatched /\ stage \in {"aps", "arm", "enter"}
    /\ running' = "boot_thread" /\ dispatched' = TRUE /\ early' = (stage = "aps")
    /\ UNCHANGED <<devices, network, boot, cpus, spinsOn>>

\* The boot-sequence thread sleeps or is preempted, and kernel_main goes on.
Resume ==
    /\ running = "boot_thread" /\ stage \in {"aps", "arm", "enter"}
    /\ running' = "main"
    /\ UNCHANGED <<devices, network, boot, cpus, spinsOn, dispatched, early>>

\* enter_first_thread(boot_sequence_thread).
EnterFirstThread ==
    /\ At("enter") /\ Done("running", {})
    /\ running' = "boot_thread" /\ dispatched' = TRUE /\ UNCHANGED <<spinsOn, early>>
    /\ UNCHANGED <<devices, network, cpus>>

-----------------------------------------------------------------------------
(* The other CPUs: cpu_boot_others and the code they run *)

\* micro_delay: the PIT counts down a channel, and the CPU spins until it is done.
MicroDelay ==
    spinsOn' = "Pit" /\ UNCHANGED <<running, dispatched, early>>

\* The mailbox is written; lapic_start_cpu asserts and deasserts INIT, with a delay
\* after each (one here) ...
StartAp ==
    /\ At("aps") /\ next \in 1..count /\ ap[next] = "off"
    /\ mailbox' = next /\ ap' = [ap EXCEPT ![next] = "reset"] /\ MicroDelay
    /\ UNCHANGED <<count, next, record, booted, gaveUp>>
    /\ UNCHANGED <<devices, network, boot>>

\* ... then sends STARTUP, with a delay; the second STARTUP is ignored.
StartupSent ==
    /\ At("aps") /\ next \in 1..count /\ ap[next] = "reset"
    /\ ap' = [ap EXCEPT ![next] = "started"] /\ MicroDelay
    /\ UNCHANGED <<count, next, mailbox, record, booted, gaveUp>>
    /\ UNCHANGED <<devices, network, boot>>

\* The LAPIC has delivered the message, the PIT has counted down.
ChipAnswers ==
    /\ spinsOn # "None" /\ spinsOn' = "None"
    /\ UNCHANGED <<devices, network, boot, cpus, running, dispatched, early>>

\* Mutant: the next AP is started without waiting for this one.
WaitForAp_NoWait ==
    /\ At("aps") /\ next \in 1..count /\ ap[next] \notin {"off", "reset"}
    /\ next' = next + 1 /\ UNCHANGED gaveUp
    /\ UNCHANGED <<count, mailbox, ap, record, booted>>
    /\ UNCHANGED <<devices, network, boot, bsp>>

\* Mutant: the wait has no limit.
WaitForAp_Unbounded ==
    /\ At("aps") /\ next \in 1..count /\ ap[next] \notin {"off", "reset"} /\ booted[next]
    /\ next' = next + 1 /\ UNCHANGED gaveUp
    /\ UNCHANGED <<count, mailbox, ap, record, booted>>
    /\ UNCHANGED <<devices, network, boot, bsp>>

\* wait_for_ap_boot returns: the record says booted, or the spins are used up.
WaitForAp ==
    /\ At("aps") /\ next \in 1..count /\ ap[next] \notin {"off", "reset"}
    /\ next' = next + 1 /\ gaveUp' = (gaveUp \/ ~booted[next])
    /\ UNCHANGED <<count, mailbox, ap, record, booted>>
    /\ UNCHANGED <<devices, network, boot, bsp>>

ApsDone ==
    /\ At("aps") /\ next \notin 1..count /\ Done("arm", {"cpus"})
    /\ UNCHANGED <<devices, network, cpus, bsp>>

\* cpu_start.asm: the AP takes its record, stack and entry point from the mailbox.
ApReadMailbox(c) ==
    /\ ap[c] = "started"
    /\ ap' = [ap EXCEPT ![c] = "init"] /\ record' = [record EXCEPT ![c] = mailbox]
    /\ UNCHANGED <<count, next, mailbox, booted, gaveUp, devices, network, boot, bsp>>

\* init and enter_ap_idle_thread: booted is set, then the idle thread is entered.
ApOnline(c) ==
    /\ ap[c] = "init"
    /\ ap' = [ap EXCEPT ![c] = "online"] /\ booted' = [booted EXCEPT ![record[c]] = TRUE]
    /\ UNCHANGED <<count, next, mailbox, record, gaveUp, devices, network, boot, bsp>>

-----------------------------------------------------------------------------
(* Interrupts, the network and, once the system runs, the removal of a device *)

Network ==
    /\ Receive \/ Transmit \/ ("interrupts" \in established /\ NetIrq)
    /\ UNCHANGED <<devices, boot, cpus, bsp>>

Remove(d) ==
    /\ stage = "running"
    /\ \/ (RemoveVirtio(d) \/ RemoveXhci(d)) /\ UNCHANGED network
       \/ /\ RemoveResources(d)
          /\ IF pci[d].kind = "virtio-net" THEN NetRemoved ELSE UNCHANGED network
    /\ UNCHANGED <<boot, cpus, bsp>>

Main ==
    \/ OwnBootInfo \/ InitializeFrames \/ KernelPageTables \/ Discover
    \/ AllocateTerminals \/ InitializeInterrupts \/ InitializeIpi \/ EnableInterrupts
    \/ BeginProbe \/ Probe \/ ProbeEnds \/ Smoke
    \/ InitializeConsole \/ CreateTasks
    \/ PrepareLapic \/ PreparePit \/ StartAp \/ StartupSent \/ WaitForAp \/ ApsDone
    \/ ArmTimer \/ EnterFirstThread

\* The boot is over, one way or the other.
Finished == stage \in {"halted", "running"} /\ UNCHANGED vars

Next ==
    \/ Main \/ ChipAnswers \/ Tick \/ Resume \/ Network \/ Finished
    \/ \E c \in Ap : ApReadMailbox(c) \/ ApOnline(c)
    \/ \E d \in Dev : Remove(d)

\* The boot CPU executes; chips, devices and the other CPUs may never answer.
Spec == Init /\ [][Next]_vars /\ WF_vars(Main) /\ WF_vars(Resume)

-----------------------------------------------------------------------------
(* Properties *)

TypeOK ==
    /\ vectors \subseteq Vector /\ handler \in [Vector -> Dev \cup {Nobody}]
    /\ \A r \in routes : r.vector \in Vector /\ r.owner \in Dev \cup {Kernel}
    /\ \A d \in Dev : dev[d].pages \subseteq BufferSet(pci[d].kind)
    /\ mailbox \in Ap \cup {Nobody} /\ record \in [Ap -> Ap \cup {Nobody}]
    /\ rx.avail \in 0..2 /\ tx.avail \in 0..2 /\ arp \subseteq Ip

\* Discovery misses nothing and makes nothing up (acpica_parse_madt, enumerate_pci,
\* acpica_resolve_pci_route_details): there is one CPU record for every processor the
\* firmware enables, one of them the boot CPU's; every function software can address
\* is listed once; and a pin that any table of its bus routes has one of its routes,
\* even if another entry of that table is unusable.
PlatformFaithful ==
    At("terminals") =>
        LET madt == Table(Fw, "APIC").body
            enabled == {i \in DOMAIN madt : madt[i].type = "lapic" /\ madt[i].enabled}
            own == {i \in DOMAIN platform.cpus : platform.cpus[i].is_bsp}
            regions == Table(Fw, "MCFG").body
            visible(at) ==
                /\ \E i \in DOMAIN regions : at[1] \in regions[i].first..regions[i].last
                /\ \E f \in DOMAIN Fw.config :
                       f = <<at[1], at[2], 0>> /\ (at = f \/ Fw.config[f].multi)
            ns == Fw.namespace
            usable(i) == {e \in {ns[i].prt[j] : j \in DOMAIN ns[i].prt} : EntryResolves(Fw, e)}
            routable == UNION {{Route(Fw, BusNumber(ns)[i], e) : e \in usable(i)} : i \in DOMAIN ns}
            pin(d) == Fw.config[pci[d].at].pin - 1
            irqs(d) == {r.irq : r \in {q \in routable : Matches(q, pci[d].at, pin(d))}}
            ids(set) == {platform.cpus[i].apic_id : i \in set}
        IN  /\ ids(DOMAIN platform.cpus) = {madt[i].id : i \in enabled}
            /\ Len(platform.cpus) = Cardinality(enabled) /\ count = Len(platform.cpus) - 1
            /\ ids(own) = {Fw.bsp}
            /\ {pci[d].at : d \in Dev} = {at \in DOMAIN Fw.config : visible(at)}
            /\ \A d, e \in Dev : pci[d].at = pci[e].at => d = e
            /\ \A d \in Dev : irqs(d) # {} =>
                   "Intx" \in pci[d].modes /\ pci[d].irq \in irqs(d)

\* A message-signalled interrupt reaches the driver that asked for it, from the
\* moment the device is programmed to after its removal: it goes to the boot CPU, the
\* only one that is sure to run, and the vector it carries is allocated, belongs to
\* nobody else, and calls that device's handler (pci_enable_msix_interrupt,
\* pci_release_interrupt, irq_allocate_vector).  It needs the boot CPU to be the first
\* one of the firmware's list.
MessageReachesOwner ==
    \A d \in Dev : dev[d].msg # Nobody =>
        /\ bsp_apic_id = Fw.bsp
        /\ dev[d].msg \in vectors \ IpiVectors /\ handler[dev[d].msg] = d
        /\ \A r \in routes : r.vector = dev[d].msg => r.owner = d

\* No vector leaks: an allocated one is an IPI's, has a route, is being bound by the
\* probe, or was used for INTx, whose vector platform_release_irq_route never frees.
VectorsAccounted ==
    "ipi" \in established =>
        \A v \in vectors : \/ v \in IpiVectors \/ \E r \in routes : r.vector = v
                           \/ probe.vector = v \/ \E d \in Dev : dev[d].line = v

\* A device the bus has bound has everything its driver uses: registers, every DMA
\* buffer, and an interrupt that arrives at its handler (the probe functions).
StartedComplete ==
    \A d \in Dev : dev[d].state = "Started" =>
        /\ "registers" \in dev[d].bars /\ dev[d].pages = BufferSet(pci[d].kind)
        /\ dev[d].vector \in vectors /\ handler[dev[d].vector] = d
        /\ \E r \in routes : r.owner = d /\ r.vector = dev[d].vector

\* A device the probe has passed over or pci_bus_remove_device has removed holds
\* nothing in any registry.
RemovedClean ==
    \A d \in Dev : stage = "running" /\ ~dev[d].present =>
        /\ dev[d].bars = {} /\ dev[d].pages = {} /\ dev[d].msg = Nobody
        /\ RoutesOf(d) = {} /\ \A v \in Vector : handler[v] # d

\* The smoke test's flag does not outlive the cache entry it announces: a probe
\* reply that was seen is in the cache unless memory ran out (run_virtio_net_smoke
\* clears the cache before it resets the flag).
ReplySeenIsCached ==
    smoke \in {"probe", "wait_tx", "wait_rx", "lookup"} /\ seen =>
        TargetIp \in arp \/ insertFailed

\* As long as no AP was given up on, two APs never run on one cpu record and
\* stack, and an AP that is online set its own record's flag (cpu_boot_others).
ApOwnRecord ==
    ~gaveUp => \A c \in Ap : /\ record[c] \in {Nobody, c}
                             /\ ap[c] = "online" => booted[c]

\* No tick takes the boot CPU out of kernel_main before the other CPUs have been
\* started, as the comment before prepare_scheduler_timer has it: so with the LAPIC
\* timer, which it does not arm, and not with the PIT, whose interrupt it routes.
TickAfterAps == ~early

\* The boot ends: kernel_main enters the first thread or returns, whether or not
\* devices and APs answer, since every wait for one is bounded; unless the LAPIC or
\* the PIT leaves lapic_init or micro_delay, which are not, spinning for ever.
BootEnds == <>(stage \in {"halted", "running"}) \/ <>[](spinsOn # "None")

=============================================================================
