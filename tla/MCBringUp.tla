------------------------------ MODULE MCBringUp ------------------------------
(* Instances of BringUp for TLC. *)
EXTENDS BringUp, TLC

Lapic(id, enabled) == [type |-> "lapic", ok |-> TRUE, id |-> id, enabled |-> enabled]
IoApic == [type |-> "ioapic", ok |-> TRUE, gsi_base |-> 0]
Override(bus, irq, gsi, flags) ==
    [type |-> "override", ok |-> TRUE, bus |-> bus, irq |-> irq, gsi |-> gsi, flags |-> flags]

Apic(body) == [sig |-> "APIC", ok |-> TRUE, address |-> 1, body |-> body]
Mcfg(body) == [sig |-> "MCFG", ok |-> TRUE, body |-> body]
Facp == [sig |-> "FACP", ok |-> TRUE, dsdt |-> 7, x_dsdt |-> 0]
Hpet == [sig |-> "HPET", ok |-> TRUE, address |-> 1]
Ssdt == [sig |-> "SSDT", ok |-> TRUE]
Buses(first, last) == [first |-> first, last |-> last]

\* The timer is on input 2, as on every PC; input 1 is the keyboard's.
Timer == Override(0, 0, 2, "default")

\* Root, host bridge on bus 0, a device below it: the routes of the link 1 and of 9.
Prt(entries) ==
    <<[parent |-> 0, bbn |-> Unspecified, bridge |-> FALSE, prt |-> <<>>],
      [parent |-> 1, bbn |-> Unspecified, bridge |-> TRUE, prt |-> <<>>],
      [parent |-> 2, bbn |-> Unspecified, bridge |-> FALSE, prt |-> entries]>>
Entry(slot, function, link, irq) ==
    [slot |-> slot, function |-> function, pin |-> 0, link |-> link, irq |-> irq]

\* Capability lists: MSI-X at 64 and MSI at 80; one that runs in a circle.
Msix(to) == [id |-> "Msix", next |-> to, bar |-> 1, fits |-> TRUE]
Other(to) == [id |-> "other", next |-> to]
Caps(modes) ==
    CASE modes = {"Msix", "Msi"} -> (64 :> Msix(80) @@ 80 :> [id |-> "Msi", next |-> 0])
      [] modes = {"Msix"} -> (64 :> Msix(0))
      [] modes = {"Msi"} -> (64 :> Other(80) @@ 80 :> [id |-> "Msi", next |-> 0])
      [] OTHER -> (64 :> Other(80) @@ 80 :> Other(64))

\* The table is in the second BAR; the first one is for ports.
Regs == <<[type |-> "io", sized |-> TRUE], [type |-> "mmio64", sized |-> TRUE],
          [type |-> "io", sized |-> TRUE], [type |-> "zero", sized |-> FALSE],
          [type |-> "zero", sized |-> FALSE], [type |-> "zero", sized |-> FALSE]>>
Fn(kind, modes, multi, pin, line) ==
    [kind |-> kind, multi |-> multi, header |-> 0, listed |-> TRUE, pointer |-> 64,
     caps |-> Caps(modes), pin |-> pin, line |-> line, regs |-> Regs]

M(cpuEntries, regions, more, ns, config) ==
    [rsdp |-> TRUE, dsdts |-> {7}, bsp |-> 0, period |-> 10, maxintr |-> 9,
     tables |-> <<Apic(cpuEntries \o <<IoApic, Timer>>), Facp, Mcfg(regions), Ssdt>> \o more,
     namespace |-> ns, links |-> (1 :> 5 @@ 2 :> NoIrq), config |-> config]

None == [a \in {} |-> 0]
Two == <<Lapic(0, TRUE), Lapic(1, TRUE)>>

\* Where a device can send messages the boot CPU is listed first: see MessageReachesOwner.
MCMachines == <<
    \* nothing on the bus; the boot CPU is listed second, one CPU is not enabled; no HPET
    M(<<Lapic(3, TRUE), Lapic(0, TRUE), Lapic(2, FALSE), Lapic(1, TRUE)>>, <<Buses(0, 0)>>,
      <<>>, <<>>, None),
    \* a network device with every way to interrupt, its line by a table whose other
    \* entry names a link without interrupt
    M(Two, <<Buses(0, 0)>>, <<Hpet>>, Prt(<<Entry(3, 0, 2, 0), Entry(2, Unspecified, 1, 0)>>),
      <<0, 2, 0>> :> Fn("virtio-net", {"Msix", "Msi"}, FALSE, 1, 255)),
    \* a second disk, which is ignored, beside a device without driver, on two buses
    M(<<Lapic(0, TRUE)>>, <<Buses(0, 1)>>, <<Hpet>>, <<>>,
      <<0, 2, 0>> :> Fn("virtio-blk", {"Msix"}, TRUE, 0, 255)
      @@ <<0, 2, 3>> :> Fn("other", {}, FALSE, 0, 255)
      @@ <<1, 4, 0>> :> Fn("virtio-blk", {"Msix"}, FALSE, 0, 255)
      @@ <<1, 4, 1>> :> Fn("xhci_scratchpads", {"Msix"}, FALSE, 0, 255)),
    \* a line that the firmware gives as GSI; an MSI-X table in what is no BAR, but the
    \* upper half of one
    M(Two \o <<Lapic(2, TRUE)>>, <<Buses(0, 0)>>, <<Hpet>>, Prt(<<Entry(3, 0, 0, 8)>>),
      <<0, 2, 0>> :> Fn("virtio-net", {"Msix"}, FALSE, 0, 255)
      @@ <<0, 3, 0>> :> [Fn("xhci", {"Msix", "Msi"}, FALSE, 1, 255) EXCEPT !.caps[64].bar = 2]),
    \* more devices than vectors; lines from the register, one of them not an input
    M(Two, <<Buses(0, 0), Buses(1, 1)>>, <<Hpet>>, <<>>,
      <<0, 2, 0>> :> Fn("virtio-blk", {"Msi"}, FALSE, 0, 255)
      @@ <<0, 3, 0>> :> Fn("xhci_scratchpads", {"Msix"}, FALSE, 1, 4)
      @@ <<1, 0, 0>> :> Fn("xhci", {}, FALSE, 1, 4)
      @@ <<1, 1, 0>> :> Fn("xhci", {"Msi"}, FALSE, 1, 11)),
    \* machines that are refused: the boot CPU is not listed; no bus
    M(<<Lapic(1, TRUE), Lapic(0, FALSE)>>, <<Buses(0, 0)>>, <<>>, <<>>, None),
    M(Two, <<>>, <<>>, <<>>, None) >>

MCAp == 1..2
=============================================================================
