------------------------------ MODULE Discovery ------------------------------
(***************************************************************************)
(* What platform_discover (platform/init.cpp) makes of a machine: the ACPI *)
(* tables (acpica_integration.cpp, acpi.cpp), the interrupt routes of the  *)
(* namespace, the CPU topology (topology.cpp), the HPET (hpet.cpp) and the *)
(* PCI functions (pci.cpp, pci_capability.cpp).                            *)
(*                                                                         *)
(* A machine fw has                                                        *)
(*   rsdp       whether the boot loader left a valid RSDP,                 *)
(*   tables     the root table list; "ok" stands for length and checksum,  *)
(*   dsdts      the addresses that hold a valid DSDT,                      *)
(*   namespace  ACPI devices: parent (0: the root), bbn, bridge and _PRT,  *)
(*   links      the interrupt of each link device, or NoIrq,               *)
(*   config     configuration space: <<bus, slot, function>> to function,  *)
(*   bsp, period, maxintr   the boot CPU's APIC id, the HPET's counter     *)
(*              period and the last input of the first IOAPIC.             *)
(***************************************************************************)
EXTENDS Integers, Sequences, FiniteSets
LOCAL INSTANCE Folds

CONSTANTS
    MaxCpus,        \* kPlatformMaxCpus
    MaxIoApics,     \* kPlatformMaxIoApics
    MaxOverrides,   \* kPlatformMaxInterruptOverrides
    MaxRegions,     \* kPlatformMaxPciEcamRegions
    MaxPciDevices,  \* kPlatformMaxPciDevices
    MaxBlocks,      \* kPlatformMaxAcpiDefinitionBlocks
    MaxRoutes,      \* kAcpiMaxPciRoutes
    MaxSteps        \* of a walk through a capability list: 48

ASSUME DiscoveryAssumption ==
    {MaxCpus, MaxIoApics, MaxOverrides, MaxRegions, MaxPciDevices, MaxBlocks, MaxRoutes,
     MaxSteps} \subseteq Nat \ {0}

NoIrq == -1     \* a link device whose resources name no interrupt
Unspecified == 255  \* a route for every function of its slot; a device without _BBN

\* The elements of a sequence worked off from the first to the last, and sequences
\* one after the other.
InOrder(op(_, _), base, s) ==
    MapThenFoldSet(LAMBDA x, done : op(done, x), base, LAMBDA i : s[i],
                   LAMBDA I : CHOOSE i \in I : \A j \in I : j <= i, DOMAIN s)
Joined(seqs) == InOrder(LAMBDA s, t : s \o t, <<>>, seqs)

-----------------------------------------------------------------------------
(* Tables *)

Tables(fw, sig) == SelectSeq(fw.tables, LAMBDA t : t.sig = sig)

\* get_table: the first of its kind.
Table(fw, sig) == Head(Tables(fw, sig))

\* acpica_initialize_tables
TablesReady(fw) == fw.rsdp /\ Tables(fw, "FACP") # <<>>

\* acpica_discover_tables
RequiredTables(fw) ==
    /\ \A sig \in {"APIC", "MCFG", "FACP"} : Tables(fw, sig) # <<>>
    /\ Len(Tables(fw, "SSDT")) <= MaxBlocks

Entries(madt, type) == SelectSeq(madt.body, LAMBDA e : e.type = type)

EnabledLapics(madt) == SelectSeq(Entries(madt, "lapic"), LAMBDA e : e.enabled)

\* Only overrides of bus 0, ISA, are kept.
IsaOverrides(madt) == SelectSeq(Entries(madt, "override"), LAMBDA e : e.bus = 0)

\* The table's address, or that of the last override entry.
LapicBase(madt) ==
    LET o == Entries(madt, "lapic_address") IN
    IF o = <<>> THEN madt.address ELSE o[Len(o)].address

\* The boot CPU is the first entry with the id cpuid reports.
Cpus(madt, bsp) ==
    LET es == EnabledLapics(madt)
        first(i) == es[i].id = bsp /\ \A j \in 1..(i - 1) : es[j].id # bsp
    IN  [i \in DOMAIN es |-> [apic_id |-> es[i].id, is_bsp |-> first(i)]]

\* acpica_parse_madt
MadtAccepted(madt, bsp) ==
    /\ madt.ok /\ \A i \in DOMAIN madt.body : madt.body[i].ok
    /\ Len(EnabledLapics(madt)) \in 1..MaxCpus
    /\ Len(Entries(madt, "ioapic")) \in 1..MaxIoApics
    /\ Len(IsaOverrides(madt)) <= MaxOverrides
    /\ LapicBase(madt) # 0
    /\ \E i \in DOMAIN EnabledLapics(madt) : EnabledLapics(madt)[i].id = bsp

\* acpica_parse_mcfg
McfgAccepted(mcfg) ==
    /\ mcfg.ok /\ Len(mcfg.body) \in 1..MaxRegions
    /\ \A i \in DOMAIN mcfg.body : mcfg.body[i].first <= mcfg.body[i].last

\* parse_fadt: the last FADT of the list, and the DSDT its longer field names.
Dsdt(fadt) == IF fadt.x_dsdt # 0 THEN fadt.x_dsdt ELSE fadt.dsdt
FadtAccepted(fw) ==
    LET list == Tables(fw, "FACP")
        fadt == list[Len(list)]
    IN  fadt.ok /\ Dsdt(fadt) # 0 /\ Dsdt(fadt) \in fw.dsdts

\* add_definition_block: the DSDT and every SSDT.
BlocksAccepted(fw) ==
    /\ \A i \in DOMAIN Tables(fw, "SSDT") : Tables(fw, "SSDT")[i].ok
    /\ 1 + Len(Tables(fw, "SSDT")) <= MaxBlocks

\* discover_acpi_platform, but for the HPET, without which the boot goes on.
AcpiAccepted(fw) ==
    /\ RequiredTables(fw)
    /\ MadtAccepted(Table(fw, "APIC"), fw.bsp) /\ McfgAccepted(Table(fw, "MCFG"))
    /\ FadtAccepted(fw) /\ BlocksAccepted(fw)

\* acpica_parse_hpet: address 0 also stands for one that is not in memory.
HpetFound(fw) ==
    Tables(fw, "HPET") # <<>> /\ Table(fw, "HPET").ok /\ Table(fw, "HPET").address # 0

\* Dropped on the BIOS path, and by platform_hpet_initialize without a period.
HpetUsable(fw, source) == HpetFound(fw) /\ source # "BiosLegacy" /\ fw.period # 0

-----------------------------------------------------------------------------
(* The namespace: interrupt routes of PCI slots *)

\* A device's own _BBN, bus 0 for a root bridge, or that of the nearest ancestor.
BusNumber(ns) ==
    LET bus[i \in 0..Len(ns)] ==
            IF i = 0 THEN Unspecified
            ELSE IF ns[i].bbn # Unspecified THEN ns[i].bbn
            ELSE IF ns[i].bridge THEN 0 ELSE bus[ns[i].parent]
    IN  bus

\* collect_device_callback: what routing uses of a device.
DeviceInfo(ns) == [i \in DOMAIN ns |-> [bus |-> BusNumber(ns)[i], prt |-> ns[i].prt]]

\* resolve_route_entry_irq: a GSI in the entry, or the interrupt of a link device.
EntryResolves(fw, e) == e.link = 0 \/ (e.link \in DOMAIN fw.links /\ fw.links[e.link] # NoIrq)

Route(fw, bus, e) ==
    [bus |-> bus, slot |-> e.slot, function |-> e.function, pin |-> e.pin,
     gsi |-> e.link = 0, irq |-> IF e.link = 0 THEN e.irq ELSE fw.links[e.link]]

\* build_routes_for_device: all of a device's entries, or none of them.
WithRoutes(fw, routes, d) ==
    IF /\ \A i \in DOMAIN d.prt : EntryResolves(fw, d.prt[i])
       /\ Len(routes) + Len(d.prt) <= MaxRoutes
    THEN routes \o [i \in DOMAIN d.prt |-> Route(fw, d.bus, d.prt[i])]
    ELSE routes

\* acpica_build_device_info_with_capacity
PciRoutes(fw) ==
    InOrder(LAMBDA routes, d : WithRoutes(fw, routes, d), <<>>, DeviceInfo(fw.namespace))

\* route_entry_matches
Matches(r, at, pin) ==
    r.bus = at[1] /\ r.slot = at[2] /\ r.function \in {Unspecified, at[3]} /\ r.pin = pin

\* resolve_route_direct: the tables once more, entry by entry.
DirectRoutes(fw) ==
    LET resolved(d) == SelectSeq(d.prt, LAMBDA e : EntryResolves(fw, e))
        of(d) == [i \in DOMAIN resolved(d) |-> Route(fw, d.bus, resolved(d)[i])]
        info == DeviceInfo(fw.namespace)
    IN  Joined([i \in DOMAIN info |-> of(info[i])])

\* Mutant: the tables are not read again when the cached routes have no match.
ResolveRoute_CacheOnly(fw, routes, at, pin) ==
    SelectSeq(routes, LAMBDA r : Matches(r, at, pin))

\* acpica_resolve_pci_route_details: the first of these is the answer.
ResolveRoute(fw, routes, at, pin) ==
    SelectSeq(routes \o DirectRoutes(fw), LAMBDA r : Matches(r, at, pin))

-----------------------------------------------------------------------------
(* PCI functions *)

\* size_pci_bars: a 64-bit BAR takes two registers, the second is not one.
SizedBars(fn) ==
    LET limit == CASE fn.header = 0 -> 6 [] fn.header = 1 -> 2 [] OTHER -> 0
        starts[i \in 1..limit] ==
            i = 1 \/ ~(starts[i - 1] /\ fn.regs[i - 1].type = "mmio64")
    IN  [i \in 1..6 |->
            IF i <= limit /\ starts[i] /\ fn.regs[i].sized THEN fn.regs[i].type ELSE "unused"]

\* record_pci_device
Recorded(fw, at) ==
    LET fn == fw.config[at] IN
    [at |-> at, kind |-> fn.kind, pin |-> fn.pin, line |-> fn.line,
     capabilities |-> IF fn.listed THEN fn.pointer ELSE 0, bars |-> SizedBars(fn)]

\* enumerate_pci, one slot: nothing without a function 0, one unless it says more.
SlotFunctions(fw, b, s) ==
    LET here(f) == <<b, s, f>> \in DOMAIN fw.config
        n == IF ~here(0) THEN 0 ELSE IF fw.config[<<b, s, 0>>].multi THEN 8 ELSE 1
    IN  SelectSeq([f \in 1..n |-> <<b, s, f - 1>>], LAMBDA at : here(at[3]))

BusFunctions(fw, b) == Joined([s \in 1..32 |-> SlotFunctions(fw, b, s - 1)])

\* enumerate_pci
PciFunctions(fw) ==
    LET region(r) == Joined([i \in 1..(r.last - r.first + 1) |->
                                 BusFunctions(fw, r.first + i - 1)])
        regions == Table(fw, "MCFG").body
    IN  Joined([i \in DOMAIN regions |-> region(regions[i])])

\* pci_find_capability: the offset, or 0; a list may run in a circle.
FindCapability(fn, pointer, id) ==
    LET valid(o) == o \in 64..252
        read(o) == IF o \in DOMAIN fn.caps THEN fn.caps[o] ELSE [id |-> "none", next |-> 0]
        walk[n \in 0..(MaxSteps - 1)] ==
            IF n = 0 THEN pointer
            ELSE LET o == walk[n - 1] IN
                 IF ~valid(o) \/ read(o).id = id THEN o ELSE read(o).next
        end == walk[MaxSteps - 1]
    IN  IF valid(end) /\ read(end).id = id THEN end ELSE 0

-----------------------------------------------------------------------------
(* What a driver's probe will find: configuration space and tables stay as they are *)

\* The routes of a device's pin: the firmware's, or its interrupt line register.
IntxRoutes(fw, p, x) ==
    LET named == ResolveRoute(fw, p.routes, x.at, x.pin - 1) IN
    IF x.pin = 0 THEN <<>>
    ELSE IF named # <<>> THEN named
    ELSE IF x.line <= 15 THEN <<[gsi |-> FALSE, irq |-> x.line]>> ELSE <<>>

\* platform_route_isa_irq: the first override for the interrupt, or none.
IsaLine(p, irq) ==
    LET os == SelectSeq(p.overrides, LAMBDA o : o.irq = irq) IN
    IF os = <<>> THEN [gsi |-> irq, flags |-> "default"] ELSE Head(os)

\* ioapic_enable_gsi: an input of the first IOAPIC, with flags it can decode.
IoApicAccepts(fw, p, line) ==
    line.gsi - p.gsi_base \in 0..fw.maxintr /\ line.flags # "reserved"

\* pci_enable_intx_interrupt: platform_route_gsi_irq or platform_route_isa_irq.
Wired(fw, p, x) ==
    LET r == Head(IntxRoutes(fw, p, x)) IN
    IoApicAccepts(fw, p, IF r.gsi THEN [gsi |-> r.irq, flags |-> "default"] ELSE IsaLine(p, r.irq))

\* pci_enable_msix_interrupt: the BAR of the table and whether the table is in it.
MsixTable(fw, x) ==
    LET fn == fw.config[x.at]
        info == fn.caps[FindCapability(fn, x.capabilities, "Msix")]
        bar == x.bars[info.bar + 1]
    IN  IF bar = "unused" THEN "none"
        ELSE IF bar \in {"mmio32", "mmio64"} /\ info.fits THEN "usable" ELSE "unusable"

\* The ways to interrupt a device has, before anything is allocated for one.
Modes(fw, p, x) ==
    {m \in {"Msix", "Msi"} : FindCapability(fw.config[x.at], x.capabilities, m) # 0}
    \cup {m \in {"Intx"} : IntxRoutes(fw, p, x) # <<>>}

Described(fw, p, x) ==
    LET modes == Modes(fw, p, x) IN
    [at |-> x.at, kind |-> x.kind, modes |-> modes,
     irq |-> IF "Intx" \in modes THEN Head(IntxRoutes(fw, p, x)).irq ELSE NoIrq,
     wired |-> "Intx" \in modes /\ Wired(fw, p, x),
     table |-> IF "Msix" \in modes THEN MsixTable(fw, x) ELSE "none"]

-----------------------------------------------------------------------------
(* The whole *)

\* platform_discover goes through, as far as the machine is concerned.
Accepted(fw) ==
    TablesReady(fw) /\ AcpiAccepted(fw) /\ Len(PciFunctions(fw)) <= MaxPciDevices

\* g_platform, but for the PCI devices.
Platform(fw, source) ==
    LET madt == Table(fw, "APIC") IN
    [cpus |-> Cpus(madt, fw.bsp), gsi_base |-> Head(Entries(madt, "ioapic")).gsi_base,
     overrides |-> IsaOverrides(madt), routes |-> PciRoutes(fw),
     hpet |-> HpetUsable(fw, source)]

\* g_platform.devices
PciDevices(fw, p) ==
    LET at == PciFunctions(fw) IN [i \in 1..Len(at) |-> Described(fw, p, Recorded(fw, at[i]))]

=============================================================================
