------------------------------- MODULE Devices -------------------------------
(***************************************************************************)
(* The registries device drivers share, and the three PCI drivers' probe   *)
(* and remove paths over them: interrupt vectors                           *)
(* (arch/x86_64/interrupt/vector_allocator.cpp), vector handlers           *)
(* (interrupt.cpp), IRQ routes (platform/irq_registry.cpp), PCI interrupt  *)
(* enabling (platform/pci_msi.cpp), BAR claims (drivers/bus/resource.cpp), *)
(* DMA buffers (mm/dma.cpp) and bindings (drivers/bus/device.cpp).         *)
(*                                                                         *)
(* Probing runs in kernel_main on the boot CPU with interrupts on, so a    *)
(* probe is one step per call that another party can observe; every        *)
(* allocation may fail.  The first failed probe ends the boot.             *)
(***************************************************************************)
EXTENDS Integers, Sequences, FiniteSets

CONSTANTS
    Machines,   \* a sequence of machines, as Discovery describes them
    Vectors     \* dynamic vectors: kDynamicIrqVectorBase .. Limit

ASSUME DevicesAssumption == Vectors \in Nat \ {0}

Vector == 1..Vectors
Nobody == 0     \* no device, no vector
Kernel == -1    \* owner of what the kernel itself takes: IPIs, the LAPIC timer

VARIABLES
    machine,    \* which of Machines this is
    platform,   \* what discovery has found, but for the PCI devices
    pci,        \* g_platform.devices, with what the probes will find in them
    vectors,    \* allocated dynamic vectors
    handler,    \* g_interrupt_handlers: the device whose handler a vector calls
    routes,     \* IrqRoute records of dynamic vectors
    dev,        \* what each device holds, and its hardware state
    probe       \* the probe in progress

found == <<machine, platform, pci>>
devices == <<found, vectors, handler, routes, dev, probe>>

Fw == Machines[machine]

Dev == DOMAIN pci

\* DMA buffers in the order a driver's probe allocates them.
BlkBuffers == <<"queue", "request0", "request1">>
NetBuffers == <<"rx_queue", "tx_queue", "rx_buffer", "tx_buffer">>
XhciBuffers == <<"dcbaa", "command_ring", "event_ring", "erst">>

\* A controller with scratchpad_count # 0 wants two more; with them prepare_dcbaa,
\* which ends allocate_controller_buffers, cannot fail.
ScratchpadBuffers ==
    <<"dcbaa", "command_ring", "event_ring", "erst", "scratchpad_array", "scratchpad_buffers">>

XhciKinds == {"xhci", "xhci_scratchpads"}

Buffers(kind) ==
    CASE kind = "virtio-blk" -> BlkBuffers
      [] kind = "virtio-net" -> NetBuffers
      [] kind = "xhci" -> XhciBuffers
      [] kind = "xhci_scratchpads" -> ScratchpadBuffers
      [] OTHER -> <<>>

BufferSet(kind) == {Buffers(kind)[i] : i \in DOMAIN Buffers(kind)}

Untouched ==
    [present |-> FALSE, state |-> "None", bars |-> {}, records |-> {}, pages |-> {},
     mode |-> "None", vector |-> Nobody, msg |-> Nobody, line |-> Nobody, live |-> FALSE]

Idle == [at |-> 0, stage |-> "off", next |-> 0, tried |-> {}, vector |-> Nobody]

DevicesInit ==
    /\ machine \in DOMAIN Machines /\ platform = <<>> /\ pci = <<>>
    /\ vectors = {} /\ handler = [v \in Vector |-> Nobody] /\ routes = {}
    /\ dev = <<>> /\ probe = Idle

\* platform_discover has made p of the machine, and a list of its PCI functions.
DevicesFound(p, list) ==
    /\ platform' = p /\ pci' = list
    /\ dev' = [d \in DOMAIN list |-> Untouched]
    /\ UNCHANGED <<machine, vectors, handler, routes, probe>>

-----------------------------------------------------------------------------
(* The registries *)

FreeVectors == Vector \ vectors

\* The vectors ipi_initialize takes, before any device does.
IpiVectors == {v \in Vector : v <= 2}

\* irq_allocate_vector: the lowest free one.
AllocatedVector == CHOOSE v \in FreeVectors : \A w \in FreeVectors : v <= w

\* register_route: refused when the vector has a record already.
CanRegister(v) == \A r \in routes : r.vector # v
Registered(v, kind, d) == routes \cup {[vector |-> v, kind |-> kind, owner |-> d]}

\* platform_release_irq_routes_for_owner finds them by owner.
RoutesOf(d) == {r \in routes : r.owner = d}

\* Mutant: MSI is forgotten among the kinds that own their vector.
OwnsVector_NoMsi(kind) == kind \in {"Msix", "LocalApic"}

\* route_kind_uses_dynamic_vector: a LegacyIsa route does not own its vector.
OwnsVector(kind) == kind \in {"Msi", "Msix", "LocalApic"}

\* platform_release_irq_route: the vectors that freeing the routes rs frees.
FreedBy(rs) == {r.vector : r \in {q \in rs : OwnsVector(q.kind)}}

\* claim_pci_bar: the owner may claim a BAR again.
BarClaimed(x, bar) == [x EXCEPT !.bars = @ \cup {bar}]

\* release_pci_bars_for_owner
BarsReleased(x) == [x EXCEPT !.bars = {}]

\* dma_allocate_buffer leaves pages and a record ...
DmaAllocated(x, b) == [x EXCEPT !.pages = @ \cup {b}, !.records = @ \cup {b}]

\* ... or, when there is no page or no memory for the record, neither.
DmaRolledBack(x, b) == x

\* dma_release_buffer of every buffer in bs.
DmaReleased(x, bs) == [x EXCEPT !.pages = @ \ bs, !.records = @ \ bs]

\* device_binding_publish and device_binding_set_state; both results are ignored.
Bound(x, published) == [x EXCEPT !.state = IF published THEN "Started" ELSE "None"]

\* device_binding_remove
Unbound(x) == [x EXCEPT !.state = "None"]

\* Mutant: the capability's enable bit is left set.
Quieted_StillEnabled(x) == [x EXCEPT !.mode = "None", !.vector = Nobody]

\* pci_release_interrupt: the device's own state after it.
Quieted(x) == [x EXCEPT !.msg = Nobody, !.mode = "None", !.vector = Nobody]

\* ... the registries after it: handler cleared, route unlinked, vector freed.
ReleaseInterrupt(d) ==
    LET v == dev[d].vector
        rs == {r \in routes : r.vector = v}
    IN  /\ handler' = IF v = Nobody THEN handler ELSE [handler EXCEPT ![v] = Nobody]
        /\ routes' = routes \ rs
        /\ vectors' = vectors \ FreedBy(rs)

-----------------------------------------------------------------------------
(* Probing: pci_bus_probe_all *)

Probing(stage) == probe.stage = stage
Kind == pci[probe.at].kind

Continue(x, stage) ==
    /\ dev' = [dev EXCEPT ![probe.at] = x]
    /\ probe' = [probe EXCEPT !.stage = stage, !.next = IF stage = "dma" THEN @ + 1 ELSE @]

\* Any check on the way that fails ends the boot; what is released on the way out
\* differs by driver and by how far the probe got.
Fail(x) ==
    /\ dev' = [dev EXCEPT ![probe.at] = x]
    /\ probe' = [Idle EXCEPT !.at = probe.at, !.stage = "failed"]

\* platform_probe_devices: registries reset, drivers registered.
ProbeAll ==
    /\ Probing("off")
    /\ routes' = {} /\ vectors' = vectors \ FreedBy(routes)
    /\ dev' = [d \in Dev |-> Untouched]
    /\ probe' = [Idle EXCEPT !.stage = "next"]
    /\ UNCHANGED <<found, handler>>

\* pci_driver_matches_device for the three registered drivers.
Matched(d) == pci[d].kind \in {"virtio-blk", "virtio-net"} \cup XhciKinds

\* The virtio drivers have one device each and ignore another.
Ignored(d) ==
    pci[d].kind \notin XhciKinds /\ \E e \in Dev : pci[e].kind = pci[d].kind /\ dev[e].present

\* The first stage of the next device's probe.
NextDevice ==
    /\ Probing("next")
    /\ LET d == probe.at + 1 IN
       probe' = [Idle EXCEPT !.at = IF d \in Dev THEN d ELSE probe.at,
                             !.stage = CASE d \notin Dev -> "done"
                                         [] d \in Dev /\ Matched(d) /\ ~Ignored(d) -> "bars"
                                         [] OTHER -> "next"]
    /\ UNCHANGED <<found, vectors, handler, routes, dev>>

\* virtio_pci_bind_transport: the BARs of the capabilities, claimed one by one.
BindTransport ==
    /\ Probing("bars") /\ Kind \notin XhciKinds
    /\ LET x == dev[probe.at] IN
       \/ Continue(BarClaimed(x, "registers"), "features")
       \/ Fail(x) \/ Fail(BarClaimed(x, "registers"))
    /\ UNCHANGED <<found, vectors, handler, routes>>

\* virtio_pci_negotiate_features; a refusal leaves the claims.
NegotiateFeatures ==
    /\ Probing("features")
    /\ Continue(dev[probe.at], "dma") \/ Fail(dev[probe.at])
    /\ UNCHANGED <<found, vectors, handler, routes>>

\* release_controller, also run by the failing probes of xhci; whether the
\* controller stops in time is not looked at.
Released(x) == BarsReleased(DmaReleased(Quieted(x), x.pages))

\* probe_xhci_controller up to the capability checks.
ClaimController ==
    /\ Probing("bars") /\ Kind \in XhciKinds
    /\ LET x == BarClaimed(dev[probe.at], "registers") IN Continue(x, "dma") \/ Fail(Released(x))
    /\ UNCHANGED <<found, vectors, handler, routes>>

\* What a driver leaves behind when its buffer number n cannot be allocated:
\* virtio-blk releases its queue but not its request buffers, virtio-net nothing.
AfterDmaFailure(x, n) ==
    CASE Kind \in XhciKinds -> Released(x)
      [] Kind = "virtio-blk" /\ n > 1 -> DmaReleased(x, {"queue"})
      [] OTHER -> x

\* virtqueue_allocate, allocate_packet_buffer, allocate_controller_buffers, ...: one
\* dma_allocate_buffer after the other.
AllocateBuffer ==
    /\ Probing("dma")
    /\ LET x == dev[probe.at]
           b == Buffers(Kind)[probe.next]
       IN \/ Continue(DmaAllocated(x, b),
                      IF probe.next = Len(Buffers(Kind)) THEN "interrupt" ELSE "dma")
          \/ Fail(AfterDmaFailure(DmaRolledBack(x, b), probe.next))
    /\ UNCHANGED <<found, vectors, handler, routes>>

-----------------------------------------------------------------------------
(* pci_enable_best_interrupt: MSI-X, then MSI, then INTx *)

Preference == <<"Msix", "Msi", "Intx">>
Untried == {i \in 1..3 : Preference[i] \in pci[probe.at].modes \ probe.tried}

\* The mode tried next.
Mode == Preference[CHOOSE i \in Untried : \A j \in Untried : i <= j]
Trying(mode) == Untried # {} /\ Mode = mode

\* Where messages go: the first CPU of the table, taken to be the boot CPU.
bsp_apic_id == platform.cpus[1].apic_id

\* allocate_handler_vector: the handler is set before the device learns the vector.
TakeVector ==
    /\ FreeVectors # {}
    /\ vectors' = vectors \cup {AllocatedVector}
    /\ handler' = [handler EXCEPT ![AllocatedVector] = probe.at]
    /\ probe' = [probe EXCEPT !.stage = "route", !.vector = AllocatedVector]
    /\ UNCHANGED <<found, routes>>

\* pci_enable_msix_interrupt: the table's BAR is claimed, and stays so if MSI-X fails.
EnableMsix ==
    /\ Probing("interrupt") /\ Trying("Msix") /\ pci[probe.at].table = "usable" /\ TakeVector
    /\ dev' = [dev EXCEPT ![probe.at] = [BarClaimed(@, "table") EXCEPT !.msg = AllocatedVector]]

EnableMsi ==
    /\ Probing("interrupt") /\ Trying("Msi") /\ TakeVector
    /\ dev' = [dev EXCEPT ![probe.at].msg = AllocatedVector]

\* pci_enable_intx_interrupt: the IOAPIC entry is written with the route.
EnableIntx ==
    /\ Probing("interrupt") /\ Trying("Intx") /\ TakeVector /\ UNCHANGED dev

\* The mode cannot be used: no vector is free; for MSI-X also when the table's BAR
\* cannot be claimed, or, once it is, the table does not fit or cannot be mapped.
ModeUnavailable ==
    /\ Probing("interrupt") /\ Untried # {}
    /\ \/ Mode # "Msix" /\ FreeVectors = {} /\ UNCHANGED dev
       \/ Mode = "Msix" /\ UNCHANGED dev
       \/ /\ Mode = "Msix" /\ pci[probe.at].table # "none"
          /\ dev' = [dev EXCEPT ![probe.at] = BarClaimed(@, "table")]
    /\ probe' = [probe EXCEPT !.tried = @ \cup {Mode}]
    /\ UNCHANGED <<found, vectors, handler, routes>>

\* No mode is left.
NoInterrupt ==
    /\ Probing("interrupt") /\ Untried = {}
    /\ LET x == dev[probe.at] IN
       Fail(CASE Kind \in XhciKinds -> Released(x)
              [] Kind = "virtio-blk" -> BarsReleased(DmaReleased(x, x.pages))
              [] OTHER -> x)
    /\ UNCHANGED <<found, vectors, handler, routes>>

\* platform_register_msi_irq_route, platform_register_msix_irq_route
RouteMessage ==
    /\ Probing("route") /\ Mode # "Intx" /\ CanRegister(probe.vector)
    /\ routes' = Registered(probe.vector, Mode, probe.at)
    /\ Continue([dev[probe.at] EXCEPT !.mode = Mode, !.vector = probe.vector], "start")
    /\ UNCHANGED <<found, vectors, handler>>

\* ioapic_enable_gsi: the entry of the device's line carries the vector, unmasked.
LineEnabled(x, v) == [x EXCEPT !.line = v]

\* platform_route_isa_irq, platform_route_gsi_irq: the IOAPIC, then the record.
RouteLine ==
    /\ Probing("route") /\ Mode = "Intx" /\ CanRegister(probe.vector)
    /\ pci[probe.at].wired
    /\ routes' = Registered(probe.vector, "LegacyIsa", probe.at)
    /\ Continue([LineEnabled(dev[probe.at], probe.vector) EXCEPT
                     !.mode = Mode, !.vector = probe.vector], "start")
    /\ UNCHANGED <<found, vectors, handler>>

\* Mutant: the failed registration is cleaned up but not reported to the caller.
RouteFails_Ignored ==
    /\ Probing("route")
    /\ handler' = [handler EXCEPT ![probe.vector] = Nobody]
    /\ vectors' = vectors \ {probe.vector}
    /\ Continue([dev[probe.at] EXCEPT !.msg = Nobody], "start")
    /\ UNCHANGED <<found, routes>>

\* The IOAPIC refuses the line, or there is no memory for the record: device, handler
\* and vector are put back, an IOAPIC entry is not, and the next mode is tried.
RouteFails ==
    /\ Probing("route")
    /\ dev' = [dev EXCEPT ![probe.at] =
                  IF Mode = "Intx" /\ pci[probe.at].wired
                  THEN LineEnabled(@, probe.vector) ELSE [@ EXCEPT !.msg = Nobody]]
    /\ handler' = [handler EXCEPT ![probe.vector] = Nobody]
    /\ vectors' = vectors \ {probe.vector}
    /\ probe' = [probe EXCEPT !.stage = "interrupt", !.vector = Nobody,
                              !.tried = @ \cup {Mode}]
    /\ UNCHANGED <<found, routes>>

-----------------------------------------------------------------------------
(* Starting the device; the results of publishing the binding are not looked at *)

\* virtio_pci_bind_queue_interrupt reads back another MSI-X table index: virtio-blk
\* then releases its memory and BARs, but the interrupt stays enabled.
QueueVectorRefused ==
    /\ Probing("start") /\ Kind \notin XhciKinds /\ dev[probe.at].mode = "Msix"
    /\ LET x == dev[probe.at] IN
       Fail(IF Kind = "virtio-blk" THEN BarsReleased(DmaReleased(x, x.pages)) ELSE x)
    /\ UNCHANGED <<found, vectors, handler, routes>>

Running(x) == [x EXCEPT !.live = TRUE, !.present = TRUE]

StartBlk ==
    /\ Probing("start") /\ Kind = "virtio-blk"
    /\ \/ /\ \E published \in BOOLEAN : Continue(Bound(Running(dev[probe.at]), published), "next")
          /\ UNCHANGED <<vectors, handler, routes>>
       \/ Fail(Released(dev[probe.at])) /\ ReleaseInterrupt(probe.at)
    /\ UNCHANGED found

StartNet ==
    /\ Probing("start") /\ Kind = "virtio-net"
    /\ \/ \E published \in BOOLEAN : Continue(Bound(Running(dev[probe.at]), published), "next")
       \/ Fail(dev[probe.at])
    /\ UNCHANGED <<found, vectors, handler, routes>>

StartXhci ==
    /\ Probing("start") /\ Kind \in XhciKinds
    /\ \/ /\ \E published \in BOOLEAN : Continue(Bound(Running(dev[probe.at]), published), "next")
          /\ UNCHANGED <<vectors, handler, routes>>
       \/ Fail(Released(dev[probe.at])) /\ ReleaseInterrupt(probe.at)
    /\ UNCHANGED found

ProbeStep ==
    \/ NextDevice \/ BindTransport \/ NegotiateFeatures \/ ClaimController \/ AllocateBuffer
    \/ EnableMsix \/ EnableMsi \/ EnableIntx \/ ModeUnavailable \/ NoInterrupt
    \/ RouteMessage \/ RouteLine \/ RouteFails
    \/ QueueVectorRefused \/ StartBlk \/ StartNet \/ StartXhci

-----------------------------------------------------------------------------
(* pci_bus_remove_device, after the boot: the interrupt first, then the rest *)

Removing(x, live) == [Quieted(x) EXCEPT !.state = "Removing", !.live = live]

\* remove_virtio_blk_device and remove_virtio_net_device do not reset the device.
RemoveVirtio(d) ==
    /\ dev[d].state = "Started" /\ pci[d].kind \notin XhciKinds
    /\ dev' = [dev EXCEPT ![d] = Removing(@, TRUE)] /\ ReleaseInterrupt(d)
    /\ UNCHANGED <<found, probe>>

\* xhci stops the controller first, if it answers in time.
RemoveXhci(d) ==
    /\ dev[d].state = "Started" /\ pci[d].kind \in XhciKinds
    /\ \E live \in BOOLEAN : dev' = [dev EXCEPT ![d] = Removing(@, live)]
    /\ ReleaseInterrupt(d)
    /\ UNCHANGED <<found, probe>>

\* Mutant: release_pci_bars_for_owner is missing.
RemoveResources_KeepsBars(d) ==
    /\ dev[d].state = "Removing"
    /\ dev' = [dev EXCEPT ![d] =
                  [Unbound(DmaReleased(@, @.pages)) EXCEPT !.present = FALSE]]
    /\ routes' = routes \ RoutesOf(d)
    /\ vectors' = vectors \ FreedBy(RoutesOf(d))
    /\ UNCHANGED <<found, handler, probe>>

RemoveResources(d) ==
    /\ dev[d].state = "Removing"
    /\ dev' = [dev EXCEPT ![d] =
                  [Unbound(BarsReleased(DmaReleased(@, @.pages))) EXCEPT !.present = FALSE]]
    /\ routes' = routes \ RoutesOf(d)
    /\ vectors' = vectors \ FreedBy(RoutesOf(d))
    /\ UNCHANGED <<found, handler, probe>>

=============================================================================
