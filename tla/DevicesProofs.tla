---------------------------- MODULE DevicesProofs ----------------------------
(***************************************************************************)
(* Proofs about Devices, for any number of devices and vectors and any     *)
(* machine: DevInv says which device owns which vector, handler and route, *)
(* from probe to removal, and every step of Devices keeps it.              *)
(***************************************************************************)
EXTENDS Devices, TLAPS

-----------------------------------------------------------------------------
(* Vectors, handlers, routes and devices *)

AnyBuffer ==
    {"queue", "request0", "request1", "rx_queue", "tx_queue", "rx_buffer", "tx_buffer",
     "dcbaa", "command_ring", "event_ring", "erst", "scratchpad_array", "scratchpad_buffers"}
Bar == {"registers", "table"}

DevRec ==
    [present : BOOLEAN, state : {"None", "Started", "Removing"}, bars : SUBSET Bar,
     records : SUBSET AnyBuffer, pages : SUBSET AnyBuffer,
     mode : {"None", "Msix", "Msi", "Intx"}, vector : Int, msg : Int, line : Int, live : BOOLEAN]

InProbe == {"bars", "features", "dma", "interrupt", "route", "start"}

ProbeRec ==
    [at : Nat, stage : InProbe \cup {"off", "next", "failed", "done"}, next : Nat,
     tried : SUBSET {"Msix", "Msi", "Intx"}, vector : Int]

RouteRec == [vector : Int, kind : {"Msi", "Msix", "LocalApic", "LegacyIsa"}, owner : Int]

DevTypes ==
    /\ Dev \subseteq Nat \ {0} /\ dev \in [Dev -> DevRec] /\ probe \in ProbeRec
    /\ vectors \subseteq Vector /\ handler \in [Vector -> Int] /\ routes \subseteq RouteRec

\* The probe is binding vector v for device d.
Binding(d, v) == probe.stage = "route" /\ probe.at = d /\ probe.vector = v

Dynamic == vectors \ IpiVectors

\* Before probing nothing is taken but the IPIs' vectors; from then on those are.
BeforeProbe ==
    IF probe.stage = "off"
    THEN /\ vectors \subseteq IpiVectors /\ routes = {}
         /\ \A d \in Dev : dev[d] = Untouched
         /\ \A v \in Vector : handler[v] = Nobody
    ELSE IpiVectors \subseteq vectors

\* A device's vector, message, handler and route agree, in both directions.
VectorOwned ==
    \A d \in Dev : dev[d].vector # Nobody =>
        /\ dev[d].vector \in Dynamic /\ handler[dev[d].vector] = d
        /\ \E r \in routes : r.vector = dev[d].vector /\ r.owner = d
MessageOwned ==
    \A d \in Dev : dev[d].msg # Nobody => dev[d].msg = dev[d].vector \/ Binding(d, dev[d].msg)
HandlerOwned ==
    \A v \in Vector : handler[v] # Nobody =>
        handler[v] \in Dev /\ (dev[handler[v]].vector = v \/ Binding(handler[v], v))
RouteOwned ==
    \A r \in routes :
        /\ r.vector \in Dynamic
        /\ IF r.owner = Kernel THEN handler[r.vector] = Nobody
           ELSE r.owner \in Dev /\ dev[r.owner].vector = r.vector
Owned == VectorOwned /\ MessageOwned /\ HandlerOwned /\ RouteOwned

\* VectorsAccounted, with what tells a vector of the probe from a routed one.
VectorAccounted(v) ==
    \/ v \in IpiVectors \/ \E r \in routes : r.vector = v
    \/ (probe.stage = "route" /\ probe.vector = v)
    \/ \E d \in Dev : dev[d].line = v
LineAccounted ==
    \A r \in routes : ~OwnsVector(r.kind) => r.owner \in Dev /\ dev[r.owner].line = r.vector
Accounted == (\A v \in vectors : VectorAccounted(v)) /\ LineAccounted

\* What a device has by the state of its binding, and when it is not in use.
BindingState ==
    \A d \in Dev :
        /\ dev[d].state = "Started" =>
              /\ "registers" \in dev[d].bars /\ dev[d].pages = BufferSet(pci[d].kind)
              /\ dev[d].vector # Nobody /\ dev[d].present
        /\ dev[d].state = "Removing" => dev[d].vector = Nobody /\ dev[d].present
        /\ ~dev[d].present => \/ dev[d].bars = {} /\ dev[d].pages = {} /\ dev[d].vector = Nobody
                              \/ probe.at = d /\ probe.stage \in InProbe \cup {"failed"}
        /\ d > probe.at => dev[d] = Untouched

\* The first n - 1 buffers of a driver.
BuffersBefore(kind, n) == {Buffers(kind)[i] : i \in 1..(n - 1)}

\* What the device being probed has at each stage.
Progress ==
    LET x == dev[probe.at]
    IN  probe.stage \in InProbe =>
            /\ probe.at \in Dev /\ Matched(probe.at) /\ ~x.present /\ x.state = "None"
            /\ probe.stage = "bars" => x = Untouched /\ probe.next = 0 /\ probe.tried = {}
            /\ probe.stage # "bars" => "registers" \in x.bars
            /\ probe.stage = "features" => probe.next = 0
            /\ probe.stage \in {"features", "dma"} => x.pages = BuffersBefore(Kind, probe.next) /\ probe.tried = {}
            /\ probe.stage = "dma" => probe.next \in 1..Len(Buffers(Kind))
            /\ probe.stage \in {"interrupt", "route", "start"} => x.pages = BufferSet(Kind)
            /\ x.vector # Nobody <=> probe.stage = "start"
            /\ probe.stage \in {"bars", "features", "dma", "interrupt"} => x.msg = Nobody
            /\ probe.stage # "start" /\ "Intx" \notin probe.tried => x.line = Nobody
            /\ probe.stage = "route" =>
                  /\ probe.vector \in Dynamic /\ handler[probe.vector] = probe.at
                  /\ CanRegister(probe.vector)
                  /\ Untried # {} /\ (Mode = "Intx" => x.msg = Nobody)

DevInv == DevTypes /\ BeforeProbe /\ Owned /\ Accounted /\ BindingState /\ Progress

-----------------------------------------------------------------------------
(* What the operators on a device's record change *)

SameInterrupt(x, y) == y.vector = x.vector /\ y.msg = x.msg /\ y.line = x.line
SameBinding(x, y) == y.state = x.state /\ y.present = x.present
SameMemory(x, y) == y.bars = x.bars /\ y.pages = x.pages

LEMMA ClaimedRecord ==
    ASSUME NEW x \in DevRec, NEW b \in Bar
    PROVE  LET y == BarClaimed(x, b)
           IN  /\ y \in DevRec /\ SameInterrupt(x, y) /\ SameBinding(x, y)
               /\ y.bars = x.bars \cup {b} /\ y.pages = x.pages
  BY DEF DevRec, BarClaimed, SameInterrupt, SameBinding

LEMMA BarsReleasedRecord ==
    ASSUME NEW x \in DevRec
    PROVE  LET y == BarsReleased(x)
           IN  /\ y \in DevRec /\ SameInterrupt(x, y) /\ SameBinding(x, y)
               /\ y.bars = {} /\ y.pages = x.pages
  BY DEF DevRec, BarsReleased, SameInterrupt, SameBinding

LEMMA DmaAllocatedRecord ==
    ASSUME NEW x \in DevRec, NEW b \in AnyBuffer
    PROVE  LET y == DmaAllocated(x, b)
           IN  /\ y \in DevRec /\ SameInterrupt(x, y) /\ SameBinding(x, y)
               /\ y.bars = x.bars /\ y.pages = x.pages \cup {b}
  BY Zenon DEF DevRec, DmaAllocated, SameInterrupt, SameBinding

LEMMA DmaReleasedRecord ==
    ASSUME NEW x \in DevRec, NEW bs
    PROVE  LET y == DmaReleased(x, bs)
           IN  /\ y \in DevRec /\ SameInterrupt(x, y) /\ SameBinding(x, y)
               /\ y.bars = x.bars /\ y.pages = x.pages \ bs
  BY Zenon DEF DevRec, DmaReleased, SameInterrupt, SameBinding

LEMMA QuietedRecord ==
    ASSUME NEW x \in DevRec
    PROVE  LET y == Quieted(x)
           IN  /\ y \in DevRec /\ SameBinding(x, y) /\ SameMemory(x, y)
               /\ y.msg = Nobody /\ y.vector = Nobody /\ y.line = x.line
  <1>1. Nobody \in Int
    BY DEF Nobody
  <1> QED BY <1>1, Zenon DEF DevRec, Quieted, SameBinding, SameMemory

LEMMA ReleasedRecord ==
    ASSUME NEW x \in DevRec
    PROVE  LET y == Released(x)
           IN  /\ y \in DevRec /\ SameBinding(x, y) /\ y.bars = {} /\ y.pages = {}
               /\ y.msg = Nobody /\ y.vector = Nobody /\ y.line = x.line
  <1>1. Nobody \in Int
    BY DEF Nobody
  <1> QED BY <1>1, Zenon DEF DevRec, Released, BarsReleased, DmaReleased, Quieted, SameBinding

LEMMA MessageRecord ==
    ASSUME NEW x \in DevRec, NEW v \in Int
    PROVE  LET y == [x EXCEPT !.msg = v]
           IN  /\ y \in DevRec /\ SameBinding(x, y) /\ SameMemory(x, y)
               /\ y.msg = v /\ y.vector = x.vector /\ y.line = x.line
  BY DEF DevRec, SameBinding, SameMemory

LEMMA LineRecord ==
    ASSUME NEW x \in DevRec, NEW v \in Int
    PROVE  LET y == LineEnabled(x, v)
           IN  /\ y \in DevRec /\ SameBinding(x, y) /\ SameMemory(x, y)
               /\ y.msg = x.msg /\ y.vector = x.vector /\ y.line = v
  BY DEF DevRec, LineEnabled, SameBinding, SameMemory

\* The record RouteMessage leaves.
MessageRouted(x, m, v) == [x EXCEPT !.mode = m, !.vector = v]

LEMMA MessageRoutedRecord ==
    ASSUME NEW x \in DevRec, NEW v \in Int, NEW m \in {"Msix", "Msi", "Intx"}
    PROVE  LET y == MessageRouted(x, m, v)
           IN  /\ y \in DevRec /\ SameBinding(x, y) /\ SameMemory(x, y)
               /\ y.msg = x.msg /\ y.vector = v /\ y.line = x.line
  BY Zenon DEF MessageRouted, DevRec, SameBinding, SameMemory

\* The record RouteLine leaves.
LineRouted(x, v) == [LineEnabled(x, v) EXCEPT !.mode = "Intx", !.vector = v]

LEMMA LineRoutedRecord ==
    ASSUME NEW x \in DevRec, NEW v \in Int
    PROVE  LET y == LineRouted(x, v)
           IN  /\ y \in DevRec /\ SameBinding(x, y) /\ SameMemory(x, y)
               /\ y.msg = x.msg /\ y.vector = v /\ y.line = v
  BY Zenon DEF LineRouted, DevRec, LineEnabled, SameBinding, SameMemory

LEMMA StartedRecord ==
    ASSUME NEW x \in DevRec, NEW published \in BOOLEAN
    PROVE  LET y == Bound(Running(x), published)
           IN  /\ y \in DevRec /\ SameInterrupt(x, y) /\ SameMemory(x, y)
               /\ y.present /\ y.state \in {"None", "Started"}
  BY Zenon DEF DevRec, Bound, Running, SameInterrupt, SameMemory

LEMMA RemovingRecord ==
    ASSUME NEW x \in DevRec, NEW live \in BOOLEAN
    PROVE  LET y == Removing(x, live)
           IN  /\ y \in DevRec /\ y.present = x.present /\ SameMemory(x, y)
               /\ y.msg = Nobody /\ y.vector = Nobody /\ y.line = x.line /\ y.state = "Removing"
  <1>1. Nobody \in Int
    BY DEF Nobody
  <1> QED BY <1>1, Zenon DEF DevRec, Removing, Quieted, SameMemory

LEMMA RemovedRecord ==
    ASSUME NEW x \in DevRec
    PROVE  LET y == [Unbound(BarsReleased(DmaReleased(x, x.pages))) EXCEPT !.present = FALSE]
           IN  /\ y \in DevRec /\ SameInterrupt(x, y) /\ y.bars = {} /\ y.pages = {}
               /\ ~y.present /\ y.state = "None"
  BY Zenon DEF DevRec, Unbound, BarsReleased, DmaReleased, SameInterrupt

LEMMA UntouchedRecord ==
    /\ Untouched \in DevRec /\ Untouched.bars = {} /\ Untouched.pages = {}
    /\ Untouched.vector = Nobody /\ Untouched.msg = Nobody /\ Untouched.line = Nobody
    /\ ~Untouched.present /\ Untouched.state = "None"
  <1>1. Nobody \in Int
    BY DEF Nobody
  <1> QED BY <1>1, Zenon DEF Untouched, DevRec

-----------------------------------------------------------------------------
(* The steps of a probe that leave the registries alone *)

\* The probe at device n, at one of the stages that begin or end a device's.
Restarted(n, st) == [Idle EXCEPT !.at = n, !.stage = st]

LEMMA ProbeRestarted ==
    ASSUME NEW n \in Nat, NEW st \in {"bars", "next", "failed", "done"}
    PROVE  LET p == Restarted(n, st)
           IN  /\ p \in ProbeRec /\ p.at = n /\ p.stage = st
               /\ p.next = 0 /\ p.tried = {}
  <1>1. 0 \in Nat /\ Nobody \in Int
    BY DEF Nobody
  <1> QED BY <1>1, Zenon DEF Restarted, Idle, ProbeRec, InProbe

\* The device probed is a device.
LEMMA ProbedIsDevice ==
    ASSUME DevInv, probe.stage \in InProbe
    PROVE  /\ probe.at \in Dev /\ dev[probe.at] \in DevRec /\ Matched(probe.at)
           /\ ~dev[probe.at].present /\ dev[probe.at].state = "None"
  BY Zenon DEF DevInv, DevTypes, Progress

LEMMA OneDevice ==
    ASSUME DevTypes, NEW a \in Dev, NEW y \in DevRec, dev' = [dev EXCEPT ![a] = y], pci' = pci
    PROVE  /\ Dev' = Dev /\ dev' \in [Dev -> DevRec] /\ dev'[a] = y
           /\ \A d \in Dev : d # a => dev'[d] = dev[d]
  BY Zenon DEF DevTypes, Dev

\* As long as no vector is being bound, what the registries hold concerns only the
\* devices' vectors, messages and lines.
LEMMA RegistriesKept ==
    ASSUME DevInv, UNCHANGED <<found, vectors, handler, routes>>,
           probe.stage \notin {"route", "off"}, NEW a \in Dev,
           NEW y \in DevRec, dev' = [dev EXCEPT ![a] = y], SameInterrupt(dev[a], y),
           probe' \in ProbeRec, probe'.stage \notin {"route", "off"}
    PROVE  DevTypes' /\ BeforeProbe' /\ Owned' /\ Accounted'
  <1>1. DevTypes /\ BeforeProbe /\ Owned /\ Accounted
    BY DEF DevInv
  <1>2. /\ Dev' = Dev /\ dev' \in [Dev -> DevRec] /\ dev'[a] = y
        /\ \A d \in Dev : d # a => dev'[d] = dev[d]
        /\ vectors' = vectors /\ handler' = handler /\ routes' = routes
    BY <1>1, OneDevice, Zenon DEF found
  <1>3. \A d \in Dev : SameInterrupt(dev[d], dev'[d])
    BY <1>2, Zenon DEF SameInterrupt
  <1>4. DevTypes'
    BY <1>1, <1>2, Zenon DEF DevTypes, Vector
  <1>5. BeforeProbe'
    BY <1>1, <1>2, Zenon DEF BeforeProbe, IpiVectors, Vector
  <1>6. Dynamic' = Dynamic /\ Vector' = Vector /\ IpiVectors' = IpiVectors
    BY <1>2 DEF Dynamic, IpiVectors, Vector
  <1>7. \A d \in Dev : dev'[d].vector = dev[d].vector /\ dev'[d].msg = dev[d].msg /\ dev'[d].line = dev[d].line
    BY <1>3 DEF SameInterrupt
  <1>8. VectorOwned' /\ RouteOwned'
    BY <1>1, <1>2, <1>6, <1>7 DEF Owned, VectorOwned, RouteOwned
  <1>9. MessageOwned' /\ HandlerOwned'
    BY <1>1, <1>2, <1>6, <1>7 DEF Owned, MessageOwned, HandlerOwned, Binding
  <1>10. Accounted'
    BY <1>1, <1>2, <1>6, <1>7 DEF Accounted, VectorAccounted, LineAccounted, OwnsVector
  <1> QED BY <1>4, <1>5, <1>8, <1>9, <1>10 DEF Owned

\* A probe that goes on leaves the device unbound.
LEMMA UnboundKept ==
    ASSUME DevInv, pci' = pci, probe.stage \in InProbe,
           NEW y \in DevRec, dev' = [dev EXCEPT ![probe.at] = y], SameBinding(dev[probe.at], y),
           probe'.at = probe.at, probe'.stage \in InProbe \cup {"failed"}
    PROVE  BindingState'
  <1>1. /\ probe.at \in Dev /\ DevTypes /\ BindingState
        /\ ~dev[probe.at].present /\ dev[probe.at].state = "None"
    BY ProbedIsDevice DEF DevInv
  <1>2. /\ Dev' = Dev /\ dev'[probe.at] = y
        /\ \A d \in Dev : d # probe.at => dev'[d] = dev[d]
    BY <1>1, OneDevice, Zenon
  <1>3. ~y.present /\ y.state = "None"
    BY <1>1, Zenon DEF SameBinding
  <1>4. probe.at \in Nat
    BY <1>1 DEF DevTypes, ProbeRec
  <1>6. ~(probe.at > probe.at)
    BY <1>4
  <1>5. "None" # "Started" /\ "None" # "Removing"
    OBVIOUS
  <1> QED BY <1>1, <1>2, <1>3, <1>5, <1>6, ZenonT(40) DEF BindingState

LEMMA FailStep ==
    ASSUME DevInv, UNCHANGED <<found, vectors, handler, routes>>,
           probe.stage \in InProbe \ {"route"},
           NEW y \in DevRec, SameInterrupt(dev[probe.at], y), SameBinding(dev[probe.at], y), Fail(y)
    PROVE  DevInv'
  <1>1. probe' = Restarted(probe.at, "failed") /\ probe.at \in Nat
    BY DEF Fail, DevInv, DevTypes, ProbeRec, Restarted
  <1>2. probe' \in ProbeRec /\ probe'.at = probe.at /\ probe'.stage = "failed"
    BY <1>1, ProbeRestarted
  <1>3. dev' = [dev EXCEPT ![probe.at] = y] /\ pci' = pci
    BY DEF Fail, found
  <1>4. DevTypes' /\ BeforeProbe' /\ Owned' /\ Accounted'
    BY <1>2, <1>3, RegistriesKept, ProbedIsDevice, Zenon DEF InProbe
  <1>5. BindingState'
    BY <1>2, <1>3, UnboundKept, Zenon
  <1>6. Progress'
    BY <1>2 DEF Progress, InProbe
  <1> QED BY <1>4, <1>5, <1>6 DEF DevInv

LEMMA Continued ==
    ASSUME probe \in ProbeRec, NEW st \in InProbe \cup {"next"}, NEW y, Continue(y, st)
    PROVE  /\ dev' = [dev EXCEPT ![probe.at] = y]
           /\ probe' \in ProbeRec /\ probe'.at = probe.at /\ probe'.stage = st
           /\ probe'.tried = probe.tried /\ probe'.vector = probe.vector
           /\ probe'.next = IF st = "dma" THEN probe.next + 1 ELSE probe.next
  <1>1. probe.next + 1 \in Nat /\ probe.next \in Nat
    BY DEF ProbeRec
  <1>2. CASE st = "dma"
    BY <1>1, <1>2, Zenon DEF ProbeRec, Continue
  <1>3. CASE st # "dma"
    BY <1>1, <1>3, Zenon DEF ProbeRec, Continue
  <1> QED BY <1>2, <1>3

\* A probe goes on to its next stage, up to where it asks for an interrupt.
LEMMA ContinueStep ==
    ASSUME DevInv, UNCHANGED <<found, vectors, handler, routes>>,
           probe.stage \in {"bars", "features", "dma", "interrupt"},
           NEW y \in DevRec, SameInterrupt(dev[probe.at], y), SameBinding(dev[probe.at], y),
           dev' = [dev EXCEPT ![probe.at] = y], "registers" \in y.bars,
           probe' \in ProbeRec, probe'.at = probe.at, probe.tried \subseteq probe'.tried,
           \/ /\ probe'.stage \in {"features", "dma"}
              /\ y.pages = BuffersBefore(Kind, probe'.next) /\ probe'.tried = {}
              /\ IF probe'.stage = "features" THEN probe'.next = 0
                 ELSE probe'.next \in 1..Len(Buffers(Kind))
           \/ probe'.stage = "interrupt" /\ y.pages = BufferSet(Kind)
    PROVE  DevInv'
  <1>1. probe.stage \in InProbe \ {"route", "start"} /\ probe'.stage \in InProbe \ {"bars", "route", "start"}
    BY DEF InProbe
  <1>2. DevTypes' /\ BeforeProbe' /\ Owned' /\ Accounted'
    BY <1>1, RegistriesKept, ProbedIsDevice, Zenon DEF InProbe
  <1>3. pci' = pci
    BY DEF found
  <1>4. BindingState'
    BY <1>1, <1>3, UnboundKept, Zenon
  <1>5. /\ probe.at \in Dev /\ Matched(probe.at) /\ DevTypes /\ Progress
        /\ ~dev[probe.at].present /\ dev[probe.at].state = "None"
    BY <1>1, ProbedIsDevice DEF DevInv
  <1>6. Dev' = Dev /\ dev'[probe.at] = y
    BY <1>3, <1>5, OneDevice, Zenon
  <1>7. ~y.present /\ y.state = "None"
    BY <1>5, Zenon DEF SameBinding
  <1>8. /\ dev[probe.at].vector = Nobody /\ dev[probe.at].msg = Nobody
        /\ "Intx" \notin probe.tried => dev[probe.at].line = Nobody
    BY <1>1, <1>5 DEF Progress
  <1>9. y.vector = Nobody /\ y.msg = Nobody /\ ("Intx" \notin probe'.tried => y.line = Nobody)
    BY <1>8 DEF SameInterrupt
  <1>10. Matched(probe.at)' /\ Kind' = Kind
    BY <1>3, <1>5 DEF Matched, Kind
  <1>11. Progress'
    BY <1>1, <1>3, <1>5, <1>6, <1>7, <1>9, <1>10 DEF Progress
  <1> QED BY <1>2, <1>4, <1>11 DEF DevInv

LEMMA NoBuffers ==
    ASSUME NEW kind
    PROVE  BuffersBefore(kind, 0) = {} /\ BuffersBefore(kind, 1) = {}
  BY DEF BuffersBefore

LEMMA OneMoreBuffer ==
    ASSUME NEW kind, NEW n \in Nat \ {0}
    PROVE  BuffersBefore(kind, n + 1) = BuffersBefore(kind, n) \cup {Buffers(kind)[n]}
  <1>1. 1..((n + 1) - 1) = 1..(n - 1) \cup {n}
    OBVIOUS
  <1> QED BY <1>1, Zenon DEF BuffersBefore

LEMMA AllBuffers ==
    ASSUME NEW kind \in {"virtio-blk", "virtio-net"} \cup XhciKinds
    PROVE  LET s == Buffers(kind)
           IN  /\ Len(s) \in Nat \ {0} /\ \A i \in 1..Len(s) : s[i] \in AnyBuffer
               /\ BufferSet(kind) = BuffersBefore(kind, Len(s) + 1)
  <1> DEFINE s == Buffers(kind)
  <1>1. /\ s \in {BlkBuffers, NetBuffers, XhciBuffers, ScratchpadBuffers} /\ Len(s) \in {3, 4, 6}
        /\ \A i \in 1..Len(s) : s[i] \in AnyBuffer
    BY DEF Buffers, BlkBuffers, NetBuffers, XhciBuffers, ScratchpadBuffers, XhciKinds, AnyBuffer
  <1>2. DOMAIN s = 1..Len(s)
    BY <1>1 DEF BlkBuffers, NetBuffers, XhciBuffers, ScratchpadBuffers
  <1>3. Len(s) \in Nat \ {0} /\ (Len(s) + 1) - 1 = Len(s)
    BY <1>1
  <1>4. BufferSet(kind) = BuffersBefore(kind, Len(s) + 1)
    BY <1>2, <1>3, Zenon DEF BufferSet, BuffersBefore
  <1> QED BY <1>1, <1>3, <1>4

LEMMA BindTransportStep ==
    ASSUME DevInv, BindTransport
    PROVE  DevInv'
  <1> DEFINE x == dev[probe.at]
             y == BarClaimed(x, "registers")
  <1>1. /\ probe.stage = "bars" /\ UNCHANGED <<found, vectors, handler, routes>>
        /\ Continue(y, "features") \/ Fail(x) \/ Fail(y)
    BY DEF BindTransport, Probing
  <1>2. /\ x = Untouched /\ x \in DevRec /\ probe \in ProbeRec /\ probe.next = 0 /\ probe.tried = {}
        /\ probe.stage \in InProbe \ {"route"}
    BY <1>1, ProbedIsDevice DEF DevInv, DevTypes, Progress, InProbe
  <1>3. /\ y \in DevRec /\ SameInterrupt(x, y) /\ SameBinding(x, y) /\ "registers" \in y.bars
        /\ y.pages = {}
    BY <1>2, UntouchedRecord, ClaimedRecord, Zenon DEF Bar
  <1>4. SameInterrupt(x, x) /\ SameBinding(x, x)
    BY DEF SameInterrupt, SameBinding
  <1> HIDE DEF x, y
  <1>5. CASE Fail(x)
    BY <1>1, <1>2, <1>4, <1>5, FailStep DEF x
  <1>6. CASE Fail(y)
    BY <1>1, <1>2, <1>3, <1>6, FailStep DEF x
  <1>7. CASE Continue(y, "features")
    <2>1. /\ dev' = [dev EXCEPT ![probe.at] = y] /\ probe' \in ProbeRec /\ probe'.at = probe.at
          /\ probe'.stage = "features" /\ probe'.tried = {} /\ probe'.next = 0
      BY <1>2, <1>7, Continued DEF InProbe
    <2> QED BY <1>1, <1>2, <1>3, <2>1, NoBuffers, ContinueStep, Zenon DEF x
  <1> QED BY <1>1, <1>5, <1>6, <1>7

LEMMA ClaimControllerStep ==
    ASSUME DevInv, ClaimController
    PROVE  DevInv'
  <1> DEFINE x == dev[probe.at]
             y == BarClaimed(x, "registers")
             z == Released(y)
  <1>1. /\ probe.stage = "bars" /\ UNCHANGED <<found, vectors, handler, routes>>
        /\ Continue(y, "dma") \/ Fail(z)
    BY DEF ClaimController, Probing
  <1>2. /\ x = Untouched /\ x \in DevRec /\ probe \in ProbeRec /\ probe.next = 0 /\ probe.tried = {}
        /\ probe.stage \in InProbe \ {"route"} /\ Matched(probe.at)
    BY <1>1, ProbedIsDevice DEF DevInv, DevTypes, Progress, InProbe
  <1>3. /\ y \in DevRec /\ SameInterrupt(x, y) /\ SameBinding(x, y) /\ "registers" \in y.bars
        /\ y.pages = {} /\ x.vector = Nobody /\ x.msg = Nobody
    BY <1>2, UntouchedRecord, ClaimedRecord, Zenon DEF Bar
  <1>4. z \in DevRec /\ SameInterrupt(x, z) /\ SameBinding(x, z)
    BY <1>3, ReleasedRecord, Zenon DEF SameInterrupt, SameBinding
  <1> HIDE DEF x, y, z
  <1>5. CASE Fail(z)
    BY <1>1, <1>2, <1>4, <1>5, FailStep DEF x
  <1>6. CASE Continue(y, "dma")
    <2>1. /\ dev' = [dev EXCEPT ![probe.at] = y] /\ probe' \in ProbeRec /\ probe'.at = probe.at
          /\ probe'.stage = "dma" /\ probe'.tried = {} /\ probe'.next = 1
      BY <1>2, <1>6, Continued DEF InProbe
    <2>2. 1 \in 1..Len(Buffers(Kind))
      <3>1. Kind \in {"virtio-blk", "virtio-net"} \cup XhciKinds
        BY <1>2 DEF Matched, Kind
      <3>2. Len(Buffers(Kind)) \in Nat \ {0}
        BY <3>1, AllBuffers
      <3> QED BY <3>2
    <2> QED BY <1>1, <1>2, <1>3, <2>1, <2>2, NoBuffers, ContinueStep, Zenon DEF x
  <1> QED BY <1>1, <1>5, <1>6

LEMMA NegotiateFeaturesStep ==
    ASSUME DevInv, NegotiateFeatures
    PROVE  DevInv'
  <1> DEFINE x == dev[probe.at]
  <1>1. /\ probe.stage = "features" /\ UNCHANGED <<found, vectors, handler, routes>>
        /\ Continue(x, "dma") \/ Fail(x)
    BY DEF NegotiateFeatures, Probing
  <1>2. /\ x \in DevRec /\ probe \in ProbeRec /\ probe.next = 0 /\ probe.tried = {}
        /\ probe.stage \in InProbe \ {"route"} /\ Matched(probe.at)
        /\ "registers" \in x.bars /\ x.pages = BuffersBefore(Kind, 0)
    BY <1>1, ProbedIsDevice DEF DevInv, DevTypes, Progress, InProbe
  <1>3. SameInterrupt(x, x) /\ SameBinding(x, x)
    BY DEF SameInterrupt, SameBinding
  <1> HIDE DEF x
  <1>4. CASE Fail(x)
    BY <1>1, <1>2, <1>3, <1>4, FailStep DEF x
  <1>5. CASE Continue(x, "dma")
    <2>1. /\ dev' = [dev EXCEPT ![probe.at] = x] /\ probe' \in ProbeRec /\ probe'.at = probe.at
          /\ probe'.stage = "dma" /\ probe'.tried = {} /\ probe'.next = 1
      BY <1>2, <1>5, Continued DEF InProbe
    <2>2. 1 \in 1..Len(Buffers(Kind))
      <3>1. Kind \in {"virtio-blk", "virtio-net"} \cup XhciKinds
        BY <1>2 DEF Matched, Kind
      <3>2. Len(Buffers(Kind)) \in Nat \ {0}
        BY <3>1, AllBuffers
      <3> QED BY <3>2
    <2> QED BY <1>1, <1>2, <1>3, <2>1, <2>2, NoBuffers, ContinueStep, Zenon DEF x
  <1> QED BY <1>1, <1>4, <1>5

\* Whatever a driver releases of its memory on its way out, it has no interrupt yet.
LEMMA FailureRecords ==
    ASSUME NEW x \in DevRec, x.vector = Nobody, x.msg = Nobody, NEW bs,
           NEW y \in {x, Released(x), DmaReleased(x, bs), BarsReleased(DmaReleased(x, bs))}
    PROVE  y \in DevRec /\ SameInterrupt(x, y) /\ SameBinding(x, y)
  <1> DEFINE z == DmaReleased(x, bs)
  <1>1. CASE y = x
    BY <1>1 DEF SameInterrupt, SameBinding
  <1>2. CASE y = Released(x)
    BY <1>2, ReleasedRecord DEF SameInterrupt, SameBinding
  <1>3. z \in DevRec /\ SameInterrupt(x, z) /\ SameBinding(x, z)
    BY DmaReleasedRecord
  <1> HIDE DEF z
  <1>4. CASE y = BarsReleased(z)
    BY <1>3, <1>4, BarsReleasedRecord, Zenon DEF SameInterrupt, SameBinding
  <1> QED BY <1>1, <1>2, <1>3, <1>4 DEF z

LEMMA AllocateBufferStep ==
    ASSUME DevInv, AllocateBuffer
    PROVE  DevInv'
  <1> DEFINE x == dev[probe.at]
             n == probe.next
             y == DmaAllocated(x, Buffers(Kind)[n])
             z == AfterDmaFailure(x, n)
             st == IF n = Len(Buffers(Kind)) THEN "interrupt" ELSE "dma"
  <1>1. /\ probe.stage = "dma" /\ UNCHANGED <<found, vectors, handler, routes>>
        /\ Continue(y, st) \/ Fail(z)
    BY DEF AllocateBuffer, Probing, DmaRolledBack
  <1>2. /\ x \in DevRec /\ probe \in ProbeRec /\ n \in 1..Len(Buffers(Kind)) /\ probe.tried = {}
        /\ probe.stage \in InProbe \ {"route"} /\ Matched(probe.at)
        /\ "registers" \in x.bars /\ x.pages = BuffersBefore(Kind, n)
        /\ x.vector = Nobody /\ x.msg = Nobody
    BY <1>1, ProbedIsDevice DEF DevInv, DevTypes, Progress, InProbe
  <1>3. /\ Buffers(Kind)[n] \in AnyBuffer /\ Len(Buffers(Kind)) \in Nat \ {0} /\ n \in Nat \ {0}
        /\ BufferSet(Kind) = BuffersBefore(Kind, Len(Buffers(Kind)) + 1)
    <2>1. Kind \in {"virtio-blk", "virtio-net"} \cup XhciKinds
      BY <1>2 DEF Matched, Kind
    <2> HIDE DEF n
    <2> QED BY <1>2, <2>1, AllBuffers
  <1>4. /\ y \in DevRec /\ SameInterrupt(x, y) /\ SameBinding(x, y)
        /\ "registers" \in y.bars /\ y.pages = BuffersBefore(Kind, n + 1)
    <2>1. BuffersBefore(Kind, n + 1) = BuffersBefore(Kind, n) \cup {Buffers(Kind)[n]}
      BY <1>3, OneMoreBuffer, Zenon
    <2> HIDE DEF x, n
    <2> QED BY <1>2, <1>3, <2>1, DmaAllocatedRecord, Zenon
  <1>5. z \in {x, Released(x), DmaReleased(x, {"queue"})}
    BY DEF AfterDmaFailure
  <1>6. z \in DevRec /\ SameInterrupt(x, z) /\ SameBinding(x, z)
    BY <1>2, <1>5, FailureRecords
  <1>7. st \in {"interrupt", "dma"} /\ (st = "interrupt" <=> n = Len(Buffers(Kind)))
    OBVIOUS
  <1> HIDE DEF x, n, y, z, st
  <1>8. CASE Fail(z)
    BY <1>1, <1>2, <1>6, <1>8, FailStep DEF x
  <1>9. CASE Continue(y, st)
    <2>1. /\ dev' = [dev EXCEPT ![probe.at] = y] /\ probe' \in ProbeRec /\ probe'.at = probe.at
          /\ probe'.stage = st /\ probe'.tried = {} /\ (st = "dma" => probe'.next = n + 1)
      BY <1>2, <1>7, <1>9, Continued DEF InProbe, n
    <2>2. CASE st = "dma"
      <3>1. n + 1 \in 1..Len(Buffers(Kind))
        BY <1>2, <1>3, <1>7, <2>2
      <3> QED BY <1>1, <1>2, <1>4, <2>1, <2>2, <3>1, ContinueStep, Zenon DEF x
    <2>3. CASE st = "interrupt"
      <3>1. y.pages = BufferSet(Kind)
        BY <1>3, <1>4, <1>7, <2>3
      <3> QED BY <1>1, <1>2, <1>4, <2>1, <2>3, <3>1, ContinueStep, Zenon DEF x
    <2> QED BY <1>7, <2>2, <2>3
  <1> QED BY <1>1, <1>8, <1>9

LEMMA ModeTried ==
    ASSUME Untried # {}
    PROVE  Mode \in {"Msix", "Msi", "Intx"} /\ Mode \notin probe.tried
  <1> DEFINE i == CHOOSE k \in Untried : \A j \in Untried : k <= j
  <1>1. \E k \in Untried : \A j \in Untried : k <= j
    <2>1. Untried \subseteq {1, 2, 3}
      BY DEF Untried
    <2>2. CASE 1 \in Untried
      BY <2>1, <2>2
    <2>3. CASE 1 \notin Untried /\ 2 \in Untried
      BY <2>1, <2>3
    <2>4. CASE 1 \notin Untried /\ 2 \notin Untried
      <3>1. Untried = {3}
        BY <2>1, <2>4
      <3> QED BY <3>1
    <2> QED BY <2>2, <2>3, <2>4
  <1>2. i \in Untried
    BY <1>1, Zenon
  <1> HIDE DEF i
  <1>3. i \in 1..3 /\ Preference[i] \notin probe.tried
    BY <1>2 DEF Untried
  <1>4. Preference[i] \in {"Msix", "Msi", "Intx"}
    BY <1>3 DEF Preference
  <1> QED BY <1>3, <1>4 DEF Mode, i

LEMMA ModeUnavailableStep ==
    ASSUME DevInv, ModeUnavailable
    PROVE  DevInv'
  <1> DEFINE x == dev[probe.at]
  <1>1. /\ probe.stage = "interrupt" /\ UNCHANGED <<found, vectors, handler, routes>> /\ Untried # {}
        /\ probe' = [probe EXCEPT !.tried = @ \cup {Mode}]
        /\ UNCHANGED dev \/ dev' = [dev EXCEPT ![probe.at] = BarClaimed(x, "table")]
    BY Zenon DEF ModeUnavailable, Probing
  <1>2. /\ x \in DevRec /\ probe \in ProbeRec /\ probe.at \in Dev /\ dev \in [Dev -> DevRec]
        /\ "registers" \in x.bars /\ x.pages = BufferSet(Kind)
    BY <1>1, ProbedIsDevice DEF DevInv, DevTypes, Progress, InProbe
  <1>3. Mode \in {"Msix", "Msi", "Intx"}
    BY <1>1, ModeTried
  <1>4. PICK y \in {x, BarClaimed(x, "table")} : dev' = [dev EXCEPT ![probe.at] = y]
    <2>1. CASE UNCHANGED dev
      BY <1>2, <2>1, Zenon
    <2> QED BY <1>1, <2>1
  <1>5. /\ y \in DevRec /\ SameInterrupt(x, y) /\ SameBinding(x, y)
        /\ "registers" \in y.bars /\ y.pages = BufferSet(Kind)
    <2>1. CASE y = x
      BY <1>2, <2>1 DEF SameInterrupt, SameBinding
    <2>2. CASE y = BarClaimed(x, "table")
      <3>1. "table" \in Bar
        BY DEF Bar
      <3> HIDE DEF x
      <3> QED BY <1>2, <2>2, <3>1, ClaimedRecord
    <2> QED BY <1>4, <2>1, <2>2
  <1>6. /\ probe' \in ProbeRec /\ probe'.at = probe.at /\ probe'.stage = "interrupt"
        /\ probe.tried \subseteq probe'.tried
    BY <1>1, <1>2, <1>3 DEF ProbeRec
  <1> HIDE DEF x
  <1> QED BY <1>1, <1>4, <1>5, <1>6, ContinueStep, Zenon DEF x

LEMMA NoInterruptStep ==
    ASSUME DevInv, NoInterrupt
    PROVE  DevInv'
  <1> DEFINE x == dev[probe.at]
  <1>1. PICK y \in {x, Released(x), BarsReleased(DmaReleased(x, x.pages))} :
            /\ probe.stage = "interrupt" /\ UNCHANGED <<found, vectors, handler, routes>> /\ Fail(y)
    BY DEF NoInterrupt, Probing
  <1>2. x \in DevRec /\ x.vector = Nobody /\ x.msg = Nobody /\ probe.stage \in InProbe \ {"route"}
    BY <1>1, ProbedIsDevice DEF DevInv, DevTypes, Progress, InProbe
  <1> HIDE DEF x
  <1>3. y \in DevRec /\ SameInterrupt(x, y) /\ SameBinding(x, y)
    BY <1>1, <1>2, FailureRecords
  <1> QED BY <1>1, <1>2, <1>3, FailStep DEF x

LEMMA QueueVectorRefusedStep ==
    ASSUME DevInv, QueueVectorRefused
    PROVE  DevInv'
  <1> DEFINE x == dev[probe.at]
             z == DmaReleased(x, x.pages)
  <1>1. PICK y \in {x, BarsReleased(z)} :
            /\ probe.stage = "start" /\ UNCHANGED <<found, vectors, handler, routes>> /\ Fail(y)
    BY DEF QueueVectorRefused, Probing
  <1>2. x \in DevRec /\ probe.stage \in InProbe \ {"route"}
    BY <1>1, ProbedIsDevice DEF DevInv, InProbe
  <1>3. z \in DevRec /\ SameInterrupt(x, z) /\ SameBinding(x, z)
    BY <1>2, DmaReleasedRecord
  <1> HIDE DEF x, z
  <1>4. y \in DevRec /\ SameInterrupt(x, y) /\ SameBinding(x, y)
    BY <1>1, <1>2, <1>3, BarsReleasedRecord DEF SameInterrupt, SameBinding
  <1> QED BY <1>1, <1>2, <1>4, FailStep DEF x

\* The probe succeeds: the device is in use, whether or not its binding was published.
LEMMA StartedStep ==
    ASSUME DevInv, probe.stage = "start", UNCHANGED <<found, vectors, handler, routes>>,
           NEW published \in BOOLEAN, Continue(Bound(Running(dev[probe.at]), published), "next")
    PROVE  DevInv'
  <1> DEFINE x == dev[probe.at]
             y == Bound(Running(x), published)
  <1>1. /\ x \in DevRec /\ probe \in ProbeRec /\ probe.at \in Dev /\ DevTypes /\ BindingState /\ pci' = pci
        /\ "registers" \in x.bars /\ x.pages = BufferSet(Kind) /\ x.vector # Nobody
    BY ProbedIsDevice DEF DevInv, DevTypes, Progress, InProbe, found
  <1>2. /\ y \in DevRec /\ SameInterrupt(x, y) /\ SameMemory(x, y)
        /\ y.present /\ y.state \in {"None", "Started"}
    BY <1>1, StartedRecord
  <1> HIDE DEF x
  <1>3. "registers" \in y.bars /\ y.pages = BufferSet(pci[probe.at].kind) /\ y.vector # Nobody
    BY <1>1, <1>2 DEF SameInterrupt, SameMemory, Kind
  <1>4. /\ dev' = [dev EXCEPT ![probe.at] = y] /\ probe' \in ProbeRec /\ probe'.at = probe.at
        /\ probe'.stage = "next"
    BY <1>1, Continued DEF x, y
  <1> HIDE DEF y
  <1>5. DevTypes' /\ BeforeProbe' /\ Owned' /\ Accounted'
    BY <1>1, <1>2, <1>4, RegistriesKept, Zenon DEF x
  <1>6. /\ Dev' = Dev /\ dev'[probe.at] = y
        /\ \A d \in Dev : d # probe.at => dev'[d] = dev[d]
    BY <1>1, <1>2, <1>4, OneDevice, Zenon
  <1>7. ~(probe.at > probe.at)
    BY <1>1 DEF ProbeRec
  <1>8. y.state # "Removing"
    BY <1>2
  <1>9. BindingState'
    BY <1>1, <1>2, <1>3, <1>4, <1>6, <1>7, <1>8, ZenonT(40) DEF BindingState
  <1>10. Progress'
    BY <1>4 DEF Progress, InProbe
  <1> QED BY <1>5, <1>9, <1>10 DEF DevInv

LEMMA VectorNumbers ==
    ASSUME DevTypes
    PROVE  Nobody \notin Vector /\ Nobody \notin Dev /\ Kernel \notin Dev
  BY DEF DevTypes, Vector, Nobody, Kernel

\* pci_release_interrupt: handler, route and, unless it is a line's, vector are gone.
LEMMA ReleaseStep ==
    ASSUME DevInv, NEW d \in Dev, dev[d].vector # Nobody, ReleaseInterrupt(d), UNCHANGED found,
           probe.stage \notin {"route", "off"},
           NEW y \in DevRec, y.vector = Nobody, y.msg = Nobody, y.line = dev[d].line,
           dev' = [dev EXCEPT ![d] = y],
           probe' \in ProbeRec, probe'.stage \notin {"route", "off"}
    PROVE  DevTypes' /\ BeforeProbe' /\ Owned' /\ Accounted'
  <1> DEFINE v == dev[d].vector
             freed == FreedBy({r \in routes : r.vector = v})
  <1>1. DevTypes /\ BeforeProbe /\ Owned /\ Accounted /\ Nobody \notin Vector
    BY VectorNumbers DEF DevInv
  <1>2. /\ Dev' = Dev /\ dev' \in [Dev -> DevRec] /\ dev'[d] = y
        /\ \A e \in Dev : e # d => dev'[e] = dev[e]
    BY <1>1, OneDevice, Zenon DEF found
  <1>3. v \in vectors /\ v \in Vector /\ v \notin IpiVectors /\ handler[v] = d
    BY <1>1 DEF Owned, VectorOwned, Dynamic, DevTypes
  <1>4. /\ handler' = [handler EXCEPT ![v] = Nobody] /\ routes' = {r \in routes : r.vector # v}
        /\ vectors' = vectors \ freed
    BY DEF ReleaseInterrupt
  <1>5. \A w \in freed : w = v
    BY DEF FreedBy
  <1>6. v \in vectors' => dev[d].line = v
    <2>1. PICK r \in routes : r.vector = v /\ r.owner = d
      BY <1>1 DEF Owned, VectorOwned
    <2>2. OwnsVector(r.kind) => v \in freed
      BY <2>1 DEF FreedBy
    <2> QED BY <1>1, <1>4, <2>1, <2>2 DEF Accounted, LineAccounted
  <1> HIDE DEF freed, v
  <1>7. handler' \in [Vector -> Int] /\ handler'[v] = Nobody /\ \A w \in Vector : w # v => handler'[w] = handler[w]
    BY <1>1, <1>3, <1>4 DEF DevTypes, Nobody
  <1>8. vectors' \subseteq vectors /\ \A w \in vectors : w # v => w \in vectors'
    BY <1>4, <1>5
  <1>9. Vector' = Vector /\ IpiVectors' = IpiVectors
    BY DEF IpiVectors, Vector
  <1>10. DevTypes'
    BY <1>1, <1>2, <1>4, <1>7, <1>8, <1>9 DEF DevTypes
  <1>11. BeforeProbe'
    BY <1>1, <1>3, <1>8, <1>9 DEF BeforeProbe
  <1>12. VectorOwned'
    <2> SUFFICES ASSUME NEW e \in Dev, dev'[e].vector # Nobody
                 PROVE  /\ dev'[e].vector \in Dynamic' /\ handler'[dev'[e].vector] = e
                        /\ \E r \in routes' : r.vector = dev'[e].vector /\ r.owner = e
      BY <1>2 DEF VectorOwned
    <2>1. e # d /\ dev'[e] = dev[e]
      BY <1>2
    <2>2. dev[e].vector \in vectors \ IpiVectors /\ handler[dev[e].vector] = e
      BY <1>1, <2>1 DEF Owned, VectorOwned, Dynamic
    <2>3. dev[e].vector # v /\ dev[e].vector \in Vector
      BY <1>1, <1>3, <2>1, <2>2 DEF DevTypes
    <2>4. \E r \in routes : r.vector = dev[e].vector /\ r.owner = e
      BY <1>1, <2>1 DEF Owned, VectorOwned
    <2> QED BY <1>4, <1>7, <1>8, <1>9, <2>1, <2>2, <2>3, <2>4 DEF Dynamic
  <1>13. MessageOwned'
    BY <1>1, <1>2 DEF Owned, MessageOwned, Binding
  <1>14. HandlerOwned'
    <2> SUFFICES ASSUME NEW w \in Vector, handler'[w] # Nobody
                 PROVE  handler'[w] \in Dev /\ dev'[handler'[w]].vector = w
      BY <1>2, <1>9 DEF HandlerOwned
    <2>1. w # v /\ handler'[w] = handler[w]
      BY <1>7
    <2>2. handler[w] \in Dev /\ dev[handler[w]].vector = w
      BY <1>1, <2>1 DEF Owned, HandlerOwned, Binding
    <2> QED BY <1>2, <2>1, <2>2 DEF v
  <1>15. RouteOwned'
    <2> SUFFICES ASSUME NEW r \in routes'
                 PROVE  /\ r.vector \in Dynamic'
                        /\ IF r.owner = Kernel THEN handler'[r.vector] = Nobody
                           ELSE r.owner \in Dev /\ dev'[r.owner].vector = r.vector
      BY <1>2 DEF RouteOwned
    <2>1. /\ r.vector # v /\ r.vector \in Dynamic /\ r.vector \in Vector
          /\ IF r.owner = Kernel THEN handler[r.vector] = Nobody
             ELSE r.owner \in Dev /\ dev[r.owner].vector = r.vector
      BY <1>1, <1>4 DEF Owned, RouteOwned, Dynamic, DevTypes
    <2> QED BY <1>2, <1>7, <1>8, <1>9, <2>1 DEF Dynamic, v
  <1>16. \A e \in Dev : dev'[e].line = dev[e].line
    BY <1>2
  <1>17. Accounted'
    <2>1. LineAccounted'
      BY <1>1, <1>2, <1>4, <1>16 DEF Accounted, LineAccounted, OwnsVector
    <2>2. ASSUME NEW w \in vectors' PROVE VectorAccounted(w)'
      <3>1. CASE w = v
        BY <1>2, <1>6, <1>16, <2>2, <3>1 DEF VectorAccounted
      <3>2. CASE w # v
        <4>1. w \in vectors /\ VectorAccounted(w)
          BY <1>1, <1>8, <2>2 DEF Accounted
        <4> QED BY <1>2, <1>4, <1>9, <1>16, <3>2, <4>1 DEF VectorAccounted
      <3> QED BY <3>1, <3>2
    <2> QED BY <2>1, <2>2 DEF Accounted
  <1> QED BY <1>10, <1>11, <1>12, <1>13, <1>14, <1>15, <1>17 DEF Owned

-----------------------------------------------------------------------------
(* Binding a vector *)

\* What holds while a vector is being bound.
LEMMA WhileBinding ==
    ASSUME DevInv, probe.stage = "route"
    PROVE  /\ DevTypes /\ IpiVectors \subseteq vectors /\ Owned /\ Accounted /\ Nobody \notin Vector
           /\ probe \in ProbeRec /\ probe.at \in Dev /\ probe.at # Kernel /\ Matched(probe.at)
           /\ dev[probe.at] \in DevRec
           /\ ~dev[probe.at].present /\ dev[probe.at].state = "None"
           /\ "registers" \in dev[probe.at].bars /\ dev[probe.at].pages = BufferSet(Kind)
           /\ dev[probe.at].vector = Nobody /\ dev[probe.at].msg \in {Nobody, probe.vector}
           /\ Mode = "Intx" => dev[probe.at].msg = Nobody
           /\ "Intx" \notin probe.tried => dev[probe.at].line = Nobody
           /\ Mode \in {"Msix", "Msi", "Intx"} /\ Mode \notin probe.tried
           /\ probe.vector \in Dynamic /\ probe.vector \in Vector /\ handler[probe.vector] = probe.at
           /\ \A r \in routes : r.vector # probe.vector /\ r.owner # probe.at
  <1>1. /\ DevTypes /\ IpiVectors \subseteq vectors /\ Owned /\ Accounted /\ Nobody \notin Vector
        /\ probe \in ProbeRec /\ probe.at \in Dev /\ probe.at # Kernel /\ Matched(probe.at)
        /\ dev[probe.at] \in DevRec
        /\ ~dev[probe.at].present /\ dev[probe.at].state = "None"
    BY VectorNumbers, ProbedIsDevice DEF DevInv, DevTypes, BeforeProbe, InProbe
  <1>2. /\ "registers" \in dev[probe.at].bars /\ dev[probe.at].pages = BufferSet(Kind)
        /\ dev[probe.at].vector = Nobody
        /\ Mode = "Intx" => dev[probe.at].msg = Nobody
        /\ "Intx" \notin probe.tried => dev[probe.at].line = Nobody
        /\ probe.vector \in Dynamic /\ handler[probe.vector] = probe.at
        /\ CanRegister(probe.vector) /\ Untried # {}
    BY DEF DevInv, Progress, InProbe
  <1>3. dev[probe.at].msg \in {Nobody, probe.vector}
    BY <1>1, <1>2 DEF Owned, MessageOwned, Binding
  <1>4. Mode \in {"Msix", "Msi", "Intx"} /\ Mode \notin probe.tried
    BY <1>2, ModeTried
  <1>5. probe.vector \in Vector
    BY <1>1, <1>2 DEF Dynamic, DevTypes
  <1>6. \A r \in routes : r.vector # probe.vector /\ r.owner # probe.at
    BY <1>1, <1>2 DEF Owned, RouteOwned, CanRegister, Dynamic, DevTypes
  <1> QED BY <1>1, <1>2, <1>3, <1>4, <1>5, <1>6

\* The route of the vector is registered: the device is ready to start.
LEMMA RoutedStep ==
    ASSUME DevInv, probe.stage = "route", UNCHANGED <<found, vectors, handler>>,
           NEW k \in {"Msi", "Msix", "LegacyIsa"}, routes' = Registered(probe.vector, k, probe.at),
           NEW y \in DevRec, Continue(y, "start"), SameBinding(dev[probe.at], y),
           SameMemory(dev[probe.at], y), y.vector = probe.vector, y.msg = dev[probe.at].msg,
           IF k = "LegacyIsa" THEN Mode = "Intx" /\ y.line = probe.vector
           ELSE y.line = dev[probe.at].line
    PROVE  DevInv'
  <1> DEFINE a == probe.at
             x == dev[a]
             v == probe.vector
             q == [vector |-> v, kind |-> k, owner |-> a]
  <1>1. /\ DevTypes /\ IpiVectors \subseteq vectors /\ Owned /\ Accounted /\ Nobody \notin Vector
        /\ probe \in ProbeRec /\ a \in Dev /\ a # Kernel /\ Matched(a)
        /\ ~x.present /\ x.state = "None" /\ "registers" \in x.bars /\ x.pages = BufferSet(Kind)
        /\ x.vector = Nobody /\ x.msg \in {Nobody, v} /\ Mode \notin probe.tried
        /\ "Intx" \notin probe.tried => x.line = Nobody
        /\ v \in Dynamic /\ v \in Vector /\ handler[v] = a
        /\ \A r \in routes : r.vector # v /\ r.owner # a
    BY WhileBinding
  <1>2. /\ vectors' = vectors /\ handler' = handler /\ pci' = pci /\ routes' = routes \cup {q}
    BY SMTT(30) DEF found, Registered
  <1>3. /\ dev' = [dev EXCEPT ![a] = y] /\ probe' \in ProbeRec /\ probe'.at = a /\ probe'.stage = "start"
        /\ probe'.tried = probe.tried
    BY <1>1, Continued DEF InProbe
  <1>4. /\ Dev' = Dev /\ dev' \in [Dev -> DevRec] /\ dev'[a] = y
        /\ \A e \in Dev : e # a => dev'[e] = dev[e]
    BY <1>1, <1>2, <1>3, OneDevice, Zenon
  <1>5. q \in RouteRec /\ q.vector = v /\ q.owner = a /\ q.kind = k
    BY <1>1, SMTT(30) DEF RouteRec, Vector, DevTypes
  <1>6. Vector' = Vector /\ IpiVectors' = IpiVectors /\ Dynamic' = Dynamic
    BY <1>2 DEF IpiVectors, Vector, Dynamic
  <1>7. \A r \in routes' : r \in routes \/ r = q
    BY <1>2
  <1>8. BindingState'
    BY <1>2, <1>3, UnboundKept, Zenon DEF InProbe
  <1>9. ~y.present /\ y.state = "None"
    BY <1>1, Zenon DEF SameBinding
  <1>10. Matched(probe.at)' /\ Kind' = Kind
    BY <1>1, <1>2, <1>3 DEF Matched, Kind
  <1>11. y.vector = v /\ y.msg = x.msg /\ "registers" \in y.bars /\ y.pages = BufferSet(Kind)
    BY <1>1 DEF SameMemory
  <1>12. /\ ~OwnsVector(k) => y.line = v
         /\ y.line = x.line \/ x.line = Nobody
    BY <1>1 DEF OwnsVector
  <1> HIDE DEF a, x, v, q
  <1>13. DevTypes'
    BY <1>1, <1>2, <1>3, <1>4, <1>5, <1>6, <1>7, SMTT(30) DEF DevTypes
  <1>14. BeforeProbe'
    BY <1>1, <1>2, <1>3, <1>6 DEF BeforeProbe
  <1>15. VectorOwned'
    <2> SUFFICES ASSUME NEW e \in Dev, dev'[e].vector # Nobody
                 PROVE  /\ dev'[e].vector \in Dynamic /\ handler[dev'[e].vector] = e
                        /\ \E r \in routes' : r.vector = dev'[e].vector /\ r.owner = e
      BY <1>2, <1>4, <1>6, SMTT(30) DEF VectorOwned
    <2>1. CASE e = a
      BY <1>1, <1>2, <1>4, <1>5, <1>11, <2>1, SMTT(30)
    <2>2. CASE e # a
      BY <1>1, <1>2, <1>4, <2>2 DEF Owned, VectorOwned
    <2> QED BY <2>1, <2>2
  <1>16. MessageOwned'
    <2> SUFFICES ASSUME NEW e \in Dev, dev'[e].msg # Nobody PROVE dev'[e].msg = dev'[e].vector
      BY <1>4, SMTT(30) DEF MessageOwned
    <2>1. CASE e = a
      BY <1>1, <1>4, <1>11, <2>1, SMTT(30)
    <2>2. CASE e # a
      BY <1>1, <1>4, <2>2, SMTT(30) DEF Owned, MessageOwned, Binding, a
    <2> QED BY <2>1, <2>2
  <1>17. HandlerOwned'
    <2> SUFFICES ASSUME NEW w \in Vector, handler[w] # Nobody
                 PROVE  handler[w] \in Dev /\ dev'[handler[w]].vector = w
      BY <1>2, <1>4, <1>6, SMTT(30) DEF HandlerOwned
    <2>1. handler[w] \in Dev /\ (dev[handler[w]].vector = w \/ (handler[w] = a /\ w = v))
      BY <1>1, ZenonT(40) DEF Owned, HandlerOwned, Binding, a, v
    <2> QED BY <1>1, <1>4, <1>11, <2>1, SMTT(30) DEF x
  <1>18. RouteOwned'
    <2> SUFFICES ASSUME NEW r \in routes'
                 PROVE  /\ r.vector \in Dynamic
                        /\ IF r.owner = Kernel THEN handler[r.vector] = Nobody
                           ELSE r.owner \in Dev /\ dev'[r.owner].vector = r.vector
      BY <1>2, <1>4, <1>6, SMTT(30) DEF RouteOwned
    <2>1. CASE r = q
      BY <1>1, <1>4, <1>5, <1>11, <2>1, ZenonT(40)
    <2>2. CASE r \in routes
      BY <1>1, <1>4, <2>2 DEF Owned, RouteOwned
    <2> QED BY <1>7, <2>1, <2>2, SMTT(30)
  <1>19. Accounted'
    <2>1. LineAccounted'
      BY <1>1, <1>4, <1>5, <1>7, <1>12, SMTT(30) DEF Accounted, LineAccounted, OwnsVector
    <2>2. ASSUME NEW w \in vectors PROVE VectorAccounted(w)'
      <3>1. w # Nobody
        BY <1>1, SMTT(30) DEF DevTypes
      <3>2. CASE \E e \in Dev : dev[e].line = w
        BY <1>4, <1>12, <3>1, <3>2, SMTT(30) DEF VectorAccounted, x
      <3>3. CASE w = v
        BY <1>2, <1>5, <3>3, SMTT(30) DEF VectorAccounted
      <3>4. CASE w \in IpiVectors \/ \E r \in routes : r.vector = w
        BY <1>2, <1>6, <3>4, ZenonT(40) DEF VectorAccounted
      <3> QED BY <1>1, <3>2, <3>3, <3>4, SMTT(30) DEF Accounted, VectorAccounted, v
    <2> QED BY <1>2, <2>1, <2>2, SMTT(30) DEF Accounted
  <1>20. Progress'
    BY <1>1, <1>3, <1>4, <1>9, <1>10, <1>11, Zenon DEF Progress, InProbe
  <1> QED BY <1>8, <1>13, <1>14, <1>15, <1>16, <1>17, <1>18, <1>19, <1>20, SMTT(30) DEF DevInv, Owned

\* The route is refused: handler and vector are given back, the next mode is tried.
LEMMA RouteFailsStep ==
    ASSUME DevInv, RouteFails
    PROVE  DevInv'
  <1> DEFINE a == probe.at
             x == dev[a]
             v == probe.vector
             y == IF Mode = "Intx" /\ pci[a].wired THEN LineEnabled(x, v) ELSE [x EXCEPT !.msg = Nobody]
  <1>1. /\ probe.stage = "route" /\ dev' = [dev EXCEPT ![a] = y]
        /\ handler' = [handler EXCEPT ![v] = Nobody] /\ vectors' = vectors \ {v}
        /\ probe' = [probe EXCEPT !.stage = "interrupt", !.vector = Nobody, !.tried = @ \cup {Mode}]
        /\ pci' = pci /\ routes' = routes
    BY DEF RouteFails, Probing, found
  <1>2. /\ DevTypes /\ IpiVectors \subseteq vectors /\ Owned /\ Accounted /\ Nobody \notin Vector
        /\ probe \in ProbeRec /\ a \in Dev /\ a # Kernel /\ Matched(a) /\ x \in DevRec
        /\ ~x.present /\ x.state = "None" /\ "registers" \in x.bars /\ x.pages = BufferSet(Kind)
        /\ x.vector = Nobody /\ x.msg \in {Nobody, v}
        /\ Mode = "Intx" => x.msg = Nobody
        /\ Mode \in {"Msix", "Msi", "Intx"} /\ Mode \notin probe.tried
        /\ "Intx" \notin probe.tried => x.line = Nobody
        /\ v \in Dynamic /\ v \in Vector /\ handler[v] = a
        /\ \A r \in routes : r.vector # v /\ r.owner # a
    BY <1>1, WhileBinding
  <1>3. v \in Int /\ Nobody \in Int
    BY <1>2 DEF Vector, Nobody
  <1>4. /\ y \in DevRec /\ SameBinding(x, y) /\ SameMemory(x, y) /\ y.vector = Nobody /\ y.msg = Nobody
        /\ y.line = x.line \/ Mode = "Intx"
    <2> HIDE DEF x, v, a
    <2>1. CASE Mode = "Intx" /\ pci[a].wired
      BY <1>2, <1>3, <2>1, LineRecord
    <2>2. CASE ~(Mode = "Intx" /\ pci[a].wired)
      BY <1>2, <1>3, <2>2, MessageRecord
    <2> QED BY <2>1, <2>2
  <1> HIDE DEF y
  <1>5. /\ Dev' = Dev /\ dev' \in [Dev -> DevRec] /\ dev'[a] = y
        /\ \A e \in Dev : e # a => dev'[e] = dev[e]
    BY <1>1, <1>2, <1>4, OneDevice, Zenon
  <1>6. /\ probe' \in ProbeRec /\ probe'.at = a /\ probe'.stage = "interrupt"
        /\ probe'.tried = probe.tried \cup {Mode}
    BY <1>1, <1>2, <1>3, Zenon DEF ProbeRec, InProbe
  <1>7. Vector' = Vector /\ IpiVectors' = IpiVectors /\ Dynamic' = Dynamic \ {v}
    BY <1>1 DEF IpiVectors, Vector, Dynamic
  <1>8. BindingState'
    BY <1>1, <1>4, <1>6, UnboundKept, Zenon DEF InProbe
  <1>9. ~y.present /\ y.state = "None"
    BY <1>2, <1>4, Zenon DEF SameBinding
  <1>10. Matched(probe.at)' /\ Kind' = Kind
    BY <1>1, <1>2, <1>6, SMTT(30) DEF Matched, Kind
  <1>11. /\ "registers" \in y.bars /\ y.pages = BufferSet(Kind)
         /\ y.line = x.line \/ x.line = Nobody
         /\ "Intx" \notin probe'.tried => y.line = Nobody
    BY <1>2, <1>4, <1>6 DEF SameMemory
  <1>12. /\ handler' \in [Vector -> Int] /\ handler'[v] = Nobody
         /\ \A w \in Vector : w # v => handler'[w] = handler[w]
    BY <1>1, <1>2, <1>3 DEF DevTypes
  <1> HIDE DEF a, x, v
  <1>13. DevTypes'
    BY <1>1, <1>2, <1>5, <1>6, <1>7, <1>12 DEF DevTypes
  <1>14. BeforeProbe'
    BY <1>1, <1>2, <1>6, <1>7 DEF BeforeProbe, Dynamic
  <1>15. \A e \in Dev : dev'[e].vector = dev[e].vector
    BY <1>2, <1>4, <1>5 DEF x
  <1>16. VectorOwned'
    <2> SUFFICES ASSUME NEW e \in Dev, dev[e].vector # Nobody
                 PROVE  /\ dev[e].vector \in Dynamic' /\ handler'[dev[e].vector] = e
                        /\ \E r \in routes : r.vector = dev[e].vector /\ r.owner = e
      BY <1>1, <1>5, <1>15 DEF VectorOwned
    <2>1. /\ dev[e].vector \in Dynamic /\ handler[dev[e].vector] = e
          /\ \E r \in routes : r.vector = dev[e].vector /\ r.owner = e
      BY <1>2 DEF Owned, VectorOwned
    <2>2. dev[e].vector \in Vector /\ dev[e].vector # v
      BY <1>2, <2>1 DEF Dynamic, DevTypes
    <2> QED BY <1>7, <1>12, <2>1, <2>2
  <1>17. MessageOwned'
    <2> SUFFICES ASSUME NEW e \in Dev, dev'[e].msg # Nobody PROVE dev'[e].msg = dev'[e].vector
      BY <1>5 DEF MessageOwned
    <2>1. e # a
      BY <1>4, <1>5
    <2> QED BY <1>2, <1>5, <2>1 DEF Owned, MessageOwned, Binding, a
  <1>18. HandlerOwned'
    <2> SUFFICES ASSUME NEW w \in Vector, handler'[w] # Nobody
                 PROVE  handler'[w] \in Dev /\ dev[handler'[w]].vector = w
      BY <1>5, <1>7, <1>15 DEF HandlerOwned
    <2>1. w # v /\ handler'[w] = handler[w]
      BY <1>12
    <2> QED BY <1>2, <2>1 DEF Owned, HandlerOwned, Binding, v
  <1>19. RouteOwned'
    <2> SUFFICES ASSUME NEW r \in routes
                 PROVE  /\ r.vector \in Dynamic'
                        /\ IF r.owner = Kernel THEN handler'[r.vector] = Nobody
                           ELSE r.owner \in Dev /\ dev[r.owner].vector = r.vector
      BY <1>1, <1>5, <1>15 DEF RouteOwned
    <2>1. r.vector \in Dynamic /\ r.vector \in Vector /\ r.vector # v
      BY <1>2 DEF Owned, RouteOwned, Dynamic, DevTypes
    <2> QED BY <1>2, <1>7, <1>12, <2>1 DEF Owned, RouteOwned
  <1>20. Accounted'
    <2>1. LineAccounted'
      BY <1>1, <1>2, <1>5 DEF Accounted, LineAccounted, OwnsVector
    <2>2. ASSUME NEW w \in vectors' PROVE VectorAccounted(w)'
      <3>1. w # Nobody /\ w \in vectors /\ w # v
        BY <1>1, <1>2, <2>2 DEF DevTypes
      <3>2. CASE \E e \in Dev : dev[e].line = w
        BY <1>5, <1>11, <3>1, <3>2 DEF VectorAccounted, x
      <3>3. CASE w \in IpiVectors \/ \E r \in routes : r.vector = w
        BY <1>1, <1>7, <3>3, SMTT(30) DEF VectorAccounted
      <3> QED BY <1>2, <3>1, <3>2, <3>3 DEF Accounted, VectorAccounted, v
    <2> QED BY <2>1, <2>2 DEF Accounted
  <1>21. Progress'
    BY <1>2, <1>4, <1>5, <1>6, <1>9, <1>10, <1>11 DEF Progress, InProbe
  <1> QED BY <1>8, <1>13, <1>14, <1>16, <1>17, <1>18, <1>19, <1>20, <1>21 DEF DevInv, Owned

LEMMA RouteStep ==
    ASSUME DevInv, RouteMessage \/ RouteLine
    PROVE  DevInv'
  <1> DEFINE x == dev[probe.at]
             v == probe.vector
  <1>1. probe.stage = "route" /\ UNCHANGED <<found, vectors, handler>>
    BY Zenon DEF RouteMessage, RouteLine, Probing
  <1>2. x \in DevRec /\ v \in Vector /\ Mode \in {"Msix", "Msi", "Intx"}
    BY <1>1, WhileBinding
  <1>3. v \in Int
    BY <1>2, SMTT(30) DEF Vector
  <1>4. CASE RouteMessage
    <2> DEFINE y == MessageRouted(x, Mode, v)
    <2>1. routes' = Registered(v, Mode, probe.at) /\ Continue(y, "start") /\ Mode # "Intx"
      BY <1>4, Zenon DEF RouteMessage, MessageRouted
    <2> HIDE DEF x, v
    <2>2. y \in DevRec /\ SameBinding(x, y) /\ SameMemory(x, y) /\ y.msg = x.msg /\ y.vector = v /\ y.line = x.line
      BY <1>2, <1>3, MessageRoutedRecord, Zenon
    <2>3. Mode \in {"Msi", "Msix"}
      BY <1>2, <2>1
    <2> HIDE DEF y
    <2> QED BY <1>1, <2>1, <2>2, <2>3, RoutedStep DEF x, v
  <1>5. CASE RouteLine
    <2> DEFINE y == LineRouted(x, v)
    <2>1. routes' = Registered(v, "LegacyIsa", probe.at) /\ Continue(y, "start") /\ Mode = "Intx"
      BY <1>5, Zenon DEF RouteLine, LineRouted
    <2> HIDE DEF x, v
    <2>2. y \in DevRec /\ SameBinding(x, y) /\ SameMemory(x, y) /\ y.msg = x.msg /\ y.vector = v /\ y.line = v
      BY <1>2, <1>3, LineRoutedRecord, Zenon
    <2> HIDE DEF y
    <2> QED BY <1>1, <2>1, <2>2, RoutedStep DEF x, v
  <1> QED BY <1>4, <1>5

\* The start of virtio-blk or xhci: done, or everything the probe took is given back.
LEMMA StartStep ==
    ASSUME DevInv, StartBlk \/ StartNet \/ StartXhci
    PROVE  DevInv'
  <1> DEFINE x == dev[probe.at]
             y == Released(x)
  <1>1. probe.stage = "start" /\ UNCHANGED found
    BY Zenon DEF StartBlk, StartNet, StartXhci, Probing, found
  <1>2. /\ x \in DevRec /\ probe.at \in Dev /\ x.vector # Nobody /\ probe.at \in Nat
        /\ probe.stage \in InProbe \ {"route"}
    BY <1>1, ProbedIsDevice DEF DevInv, DevTypes, ProbeRec, Progress, InProbe
  <1>3. CASE /\ \E published \in BOOLEAN : Continue(Bound(Running(x), published), "next")
             /\ UNCHANGED <<vectors, handler, routes>>
    BY <1>1, <1>3, StartedStep
  <1>4. CASE Fail(y) /\ ReleaseInterrupt(probe.at)
    <2>1. /\ y \in DevRec /\ SameBinding(x, y) /\ y.msg = Nobody /\ y.vector = Nobody /\ y.line = x.line
      BY <1>2, ReleasedRecord
    <2> HIDE DEF x, y
    <2>2. /\ dev' = [dev EXCEPT ![probe.at] = y] /\ pci' = pci
          /\ probe' \in ProbeRec /\ probe'.at = probe.at /\ probe'.stage = "failed"
      <3>1. probe' = Restarted(probe.at, "failed")
        BY <1>4 DEF Fail, Restarted
      <3> QED BY <1>1, <1>2, <1>4, <3>1, ProbeRestarted DEF Fail, found
    <2>3. DevTypes' /\ BeforeProbe' /\ Owned' /\ Accounted'
      BY <1>1, <1>2, <1>4, <2>1, <2>2, ReleaseStep, Zenon DEF x
    <2>4. BindingState'
      BY <1>2, <2>1, <2>2, UnboundKept, Zenon DEF x
    <2>5. Progress'
      BY <2>2 DEF Progress, InProbe
    <2> QED BY <2>3, <2>4, <2>5 DEF DevInv
  <1>5. CASE Fail(x) /\ UNCHANGED <<vectors, handler, routes>>
    <2>1. SameInterrupt(x, x) /\ SameBinding(x, x)
      BY DEF SameInterrupt, SameBinding
    <2> HIDE DEF x
    <2> QED BY <1>1, <1>2, <1>5, <2>1, FailStep DEF x
  <1> QED BY <1>3, <1>4, <1>5, Zenon DEF StartBlk, StartNet, StartXhci

LEMMA NextDeviceStep ==
    ASSUME DevInv, NextDevice
    PROVE  DevInv'
  <1> DEFINE at == IF probe.at + 1 \in Dev THEN probe.at + 1 ELSE probe.at
  <1>1. /\ probe.stage = "next" /\ pci' = pci /\ vectors' = vectors /\ handler' = handler
        /\ routes' = routes /\ dev' = dev
        /\ \E st \in {"bars", "next", "done"} :
              /\ probe' = [Idle EXCEPT !.at = at, !.stage = st]
              /\ st = "bars" => probe.at + 1 \in Dev /\ Matched(probe.at + 1)
    BY Zenon DEF NextDevice, Probing, found
  <1>2. DevTypes /\ BeforeProbe /\ Owned /\ Accounted /\ BindingState /\ probe.at \in Nat
    BY DEF DevInv, DevTypes, ProbeRec
  <1>3. at \in Nat /\ probe.at <= at
    BY <1>2
  <1>4. /\ probe' \in ProbeRec /\ probe'.at = at /\ probe'.stage \in {"bars", "next", "done"}
        /\ probe'.next = 0 /\ probe'.tried = {}
        /\ probe'.stage = "bars" => at = probe.at + 1 /\ at \in Dev /\ Matched(at)
    <2> HIDE DEF at
    <2>1. PICK st \in {"bars", "next", "done"} :
              /\ probe' = [Idle EXCEPT !.at = at, !.stage = st]
              /\ st = "bars" => probe.at + 1 \in Dev /\ Matched(probe.at + 1)
      BY <1>1, Zenon
    <2>2. /\ probe' \in ProbeRec /\ probe'.at = at /\ probe'.stage = st
          /\ probe'.next = 0 /\ probe'.tried = {}
      <3>1. st \in {"bars", "next", "failed", "done"}
        OBVIOUS
      <3>2. probe' = Restarted(at, st)
        BY <2>1 DEF Restarted
      <3> QED BY <1>3, <3>1, <3>2, ProbeRestarted
    <2> QED BY <2>1, <2>2 DEF at
  <1> HIDE DEF at
  <1>5. Dev' = Dev /\ Vector' = Vector /\ IpiVectors' = IpiVectors /\ Dynamic' = Dynamic
    BY <1>1 DEF Dev, Vector, IpiVectors, Dynamic
  <1>6. DevTypes' /\ BeforeProbe'
    BY <1>1, <1>2, <1>4, <1>5 DEF DevTypes, BeforeProbe
  <1>7. Owned'
    BY <1>1, <1>2, <1>4, <1>5 DEF Owned, VectorOwned, MessageOwned, HandlerOwned, RouteOwned, Binding
  <1>8. Accounted'
    BY <1>1, <1>2, <1>4, <1>5 DEF Accounted, VectorAccounted, LineAccounted, OwnsVector
  <1>9. \A d \in Dev : d > at => dev[d] = Untouched
    <2>1. \A d \in Dev : d > at => d > probe.at
      BY <1>2, <1>3 DEF DevTypes
    <2> QED BY <1>2, <2>1, Zenon DEF BindingState
  <1>10. BindingState'
    <2>1. "next" \notin InProbe \cup {"failed"}
      BY DEF InProbe
    <2> QED BY <1>1, <1>2, <1>4, <1>5, <1>9, <2>1, Zenon DEF BindingState
  <1>11. Progress'
    <2> SUFFICES ASSUME probe'.stage = "bars" PROVE Progress'
      BY <1>4, Zenon DEF Progress, InProbe
    <2>1. at > probe.at /\ at \in Dev /\ Matched(at)
      BY <1>2, <1>4
    <2>2. dev'[probe'.at] = Untouched
      BY <1>1, <1>2, <1>4, <2>1 DEF BindingState
    <2>3. Matched(probe.at)'
      BY <1>1, <1>4, <2>1 DEF Matched
    <2> QED BY <1>4, <1>5, <2>1, <2>2, <2>3, UntouchedRecord, SMTT(30) DEF Progress
  <1> QED BY <1>6, <1>7, <1>8, <1>10, <1>11 DEF DevInv

-----------------------------------------------------------------------------
(* The removal of a device *)

LEMMA RemovalStep ==
    ASSUME DevInv, probe.stage = "done", NEW d \in Dev, RemoveVirtio(d) \/ RemoveXhci(d)
    PROVE  DevInv'
  <1>1. /\ dev[d].state = "Started" /\ ReleaseInterrupt(d) /\ UNCHANGED <<found, probe>>
        /\ \E live \in BOOLEAN : dev' = [dev EXCEPT ![d] = Removing(dev[d], live)]
    BY Zenon DEF RemoveVirtio, RemoveXhci
  <1>2. PICK live \in BOOLEAN : dev' = [dev EXCEPT ![d] = Removing(dev[d], live)]
    BY <1>1, Zenon
  <1> DEFINE x == dev[d]
             y == Removing(x, live)
  <1>3. x \in DevRec /\ DevTypes /\ BindingState /\ probe \in ProbeRec /\ x.vector # Nobody
    BY <1>1 DEF DevInv, DevTypes, BindingState
  <1>4. x.present
    BY <1>1, <1>3, Zenon DEF BindingState
  <1>5. /\ y \in DevRec /\ y.present = x.present /\ y.msg = Nobody /\ y.vector = Nobody
        /\ y.line = x.line /\ y.state = "Removing"
    BY <1>3, RemovingRecord
  <1>6. dev' = [dev EXCEPT ![d] = y] /\ pci' = pci /\ probe' = probe
    BY <1>1, <1>2, Zenon DEF found
  <1> HIDE DEF x, y
  <1>7. DevTypes' /\ BeforeProbe' /\ Owned' /\ Accounted'
    BY <1>1, <1>3, <1>5, <1>6, ReleaseStep, Zenon DEF x
  <1>8. Dev' = Dev /\ dev'[d] = y /\ \A e \in Dev : e # d => dev'[e] = dev[e]
    BY <1>3, <1>5, <1>6, OneDevice, Zenon
  <1>9. y.present /\ y.state # "Started" /\ ~(d > probe.at)
    <2>1. y.present /\ "Removing" # "Started" /\ "Started" # "None"
      BY <1>4, <1>5, Zenon
    <2>2. x # Untouched
      BY <1>1, <2>1, UntouchedRecord DEF x
    <2> QED BY <1>3, <1>5, <2>1, <2>2, Zenon DEF BindingState, x
  <1>10. BindingState'
    BY <1>3, <1>5, <1>6, <1>8, <1>9, ZenonT(40) DEF BindingState
  <1>11. Progress'
    BY <1>6 DEF Progress, InProbe
  <1> QED BY <1>7, <1>10, <1>11 DEF DevInv

LEMMA RemovedStep ==
    ASSUME DevInv, probe.stage = "done", NEW d \in Dev, RemoveResources(d)
    PROVE  DevInv'
  <1> DEFINE x == dev[d]
             y == [Unbound(BarsReleased(DmaReleased(x, x.pages))) EXCEPT !.present = FALSE]
  <1>1. /\ x.state = "Removing" /\ dev' = [dev EXCEPT ![d] = y]
        /\ routes' = routes \ RoutesOf(d) /\ vectors' = vectors \ FreedBy(RoutesOf(d))
        /\ UNCHANGED <<found, handler, probe>>
    BY Zenon DEF RemoveResources
  <1>2. x \in DevRec /\ DevTypes /\ BindingState /\ Owned /\ probe \in ProbeRec /\ x.vector = Nobody
    BY <1>1 DEF DevInv, DevTypes, BindingState
  <1>3. y \in DevRec /\ SameInterrupt(x, y) /\ y.bars = {} /\ y.pages = {} /\ ~y.present /\ y.state = "None"
    BY <1>2, RemovedRecord, Zenon
  <1> HIDE DEF x, y
  <1>4. RoutesOf(d) = {}
    BY <1>2, VectorNumbers DEF Owned, RouteOwned, RoutesOf, Dynamic, DevTypes, x
  <1>5. vectors' = vectors /\ routes' = routes /\ pci' = pci /\ probe' = probe
    BY <1>1, <1>4 DEF FreedBy, found
  <1>6. DevTypes' /\ BeforeProbe' /\ Owned' /\ Accounted'
    BY <1>1, <1>2, <1>3, <1>5, RegistriesKept, Zenon DEF x
  <1>7. Dev' = Dev /\ dev'[d] = y /\ \A e \in Dev : e # d => dev'[e] = dev[e]
    BY <1>1, <1>2, <1>3, <1>5, OneDevice, Zenon
  <1>8. y.state # "Started" /\ y.state # "Removing" /\ y.vector = Nobody /\ ~(d > probe.at)
    <2>1. x # Untouched
      BY <1>1, UntouchedRecord DEF x
    <2>2. ~(d > probe.at)
      BY <1>2, <2>1, Zenon DEF BindingState, x
    <2> QED BY <1>2, <1>3, <2>2 DEF SameInterrupt
  <1>9. BindingState'
    BY <1>2, <1>3, <1>5, <1>7, <1>8, ZenonT(40) DEF BindingState
  <1>10. Progress'
    BY <1>5 DEF Progress, InProbe
  <1> QED BY <1>6, <1>9, <1>10 DEF DevInv

-----------------------------------------------------------------------------
(* Discovery, the interrupt tables and the start of probing *)

NoProbe == probe = Idle

\* Before probing there is nothing more to DevInv.
LEMMA NothingProbed == DevTypes /\ BeforeProbe /\ NoProbe => DevInv
  <1> SUFFICES ASSUME DevTypes, BeforeProbe, probe = Idle PROVE DevInv
    BY DEF NoProbe
  <1>1. probe.stage = "off" /\ probe.at = 0
    BY DEF Idle
  <1>2. /\ vectors \subseteq IpiVectors /\ routes = {}
        /\ \A d \in Dev : dev[d] = Untouched
        /\ \A v \in Vector : handler[v] = Nobody
    BY <1>1 DEF BeforeProbe
  <1>3. \A d \in Dev : dev[d].vector = Nobody /\ dev[d].msg = Nobody
    BY <1>2, UntouchedRecord
  <1>4. Owned
    BY <1>2, <1>3, Zenon DEF Owned, VectorOwned, MessageOwned, HandlerOwned, RouteOwned
  <1>5. Accounted
    BY <1>2, Zenon DEF Accounted, VectorAccounted, LineAccounted
  <1>6. "None" # "Started" /\ "None" # "Removing"
    OBVIOUS
  <1>7. BindingState
    BY <1>2, <1>6, UntouchedRecord, Zenon DEF BindingState
  <1>8. Progress
    BY <1>1 DEF Progress, InProbe
  <1> QED BY <1>4, <1>5, <1>7, <1>8 DEF DevInv

LEMMA NothingProbedYet == DevTypes' /\ BeforeProbe' /\ NoProbe' => DevInv'
  BY NothingProbed, PTL

LEMMA DevicesFoundStep ==
    ASSUME NEW p, NEW list, DOMAIN list \subseteq Nat \ {0},
           DevInv, probe = Idle, DevicesFound(p, list)
    PROVE  DevInv'
  <1>1. /\ vectors' = vectors /\ handler' = handler /\ routes' = routes /\ probe' = Idle
        /\ dev' = [d \in DOMAIN pci' |-> Untouched] /\ pci' = list
    BY DEF DevicesFound
  <1>2. Dev' \subseteq Nat \ {0} /\ dev' = [d \in Dev' |-> Untouched]
    BY <1>1 DEF Dev
  <1>3. DevTypes /\ BeforeProbe /\ probe.stage = "off"
    BY DEF DevInv, Idle
  <1>4. DevTypes'
    BY <1>1, <1>2, <1>3, UntouchedRecord DEF DevTypes, Vector
  <1>5. BeforeProbe'
    BY <1>1, <1>2, <1>3 DEF BeforeProbe, Vector, IpiVectors
  <1> QED BY <1>1, <1>4, <1>5, NothingProbedYet DEF NoProbe

LEMMA InterruptTablesStep ==
    ASSUME DevInv, probe = Idle, UNCHANGED <<found, routes, dev, probe>>,
           \/ vectors' = {} /\ handler' = [v \in Vector |-> Nobody]
           \/ vectors' = vectors \cup IpiVectors /\ handler' = handler
    PROVE  DevInv'
  <1>1. /\ pci' = pci /\ dev' = dev /\ routes' = routes /\ probe' = Idle
    BY DEF found
  <1>2. DevTypes /\ BeforeProbe /\ probe.stage = "off" /\ Dev' = Dev
    BY <1>1 DEF DevInv, Idle, Dev
  <1>3. vectors' \subseteq Vector /\ vectors' \subseteq IpiVectors
    BY <1>1, <1>2 DEF DevTypes, BeforeProbe, IpiVectors
  <1>4. handler' \in [Vector -> Int] /\ \A v \in Vector : handler'[v] = Nobody
    BY <1>1, <1>2 DEF DevTypes, BeforeProbe, Nobody
  <1>5. DevTypes'
    BY <1>1, <1>2, <1>3, <1>4 DEF DevTypes, Vector
  <1>6. BeforeProbe'
    BY <1>1, <1>2, <1>3, <1>4 DEF BeforeProbe, Vector, IpiVectors
  <1> QED BY <1>1, <1>5, <1>6, NothingProbedYet DEF NoProbe

LEMMA ProbeAllStep ==
    ASSUME DevInv, IpiVectors \subseteq vectors, ProbeAll
    PROVE  DevInv' /\ vectors' = vectors /\ probe'.stage = "next"
  <1>1. /\ probe.stage = "off" /\ routes' = {} /\ vectors' = vectors \ FreedBy(routes)
        /\ dev' = [d \in Dev |-> Untouched] /\ probe' = [Idle EXCEPT !.stage = "next"]
        /\ pci' = pci /\ handler' = handler
    BY DEF ProbeAll, Probing, found
  <1>2. /\ DevTypes /\ vectors \subseteq IpiVectors /\ routes = {}
        /\ \A v \in Vector : handler[v] = Nobody
    BY <1>1 DEF DevInv, BeforeProbe
  <1>3. vectors' = vectors
    BY <1>1, <1>2 DEF FreedBy
  <1>4. probe' \in ProbeRec /\ probe'.at = 0 /\ probe'.stage = "next"
    <2>1. 0 \in Nat /\ Nobody \in Int
      BY DEF Nobody
    <2> QED BY <1>1, <2>1, Zenon DEF Idle, ProbeRec
  <1>5. Dev' = Dev /\ \A d \in Dev : dev'[d] = Untouched
    BY <1>1 DEF Dev
  <1>6. DevTypes'
    BY <1>1, <1>2, <1>3, <1>4, <1>5, UntouchedRecord DEF DevTypes, Vector
  <1>7. BeforeProbe'
    BY <1>3, <1>4 DEF BeforeProbe, IpiVectors, Vector
  <1>8. \A d \in Dev : dev'[d].vector = Nobody /\ dev'[d].msg = Nobody
    BY <1>5, UntouchedRecord
  <1>9. Owned'
    BY <1>1, <1>2, <1>5, <1>8, Zenon DEF Owned, VectorOwned, MessageOwned, HandlerOwned, RouteOwned, Vector
  <1>10. Accounted'
    BY <1>1, <1>2, <1>3, Zenon DEF Accounted, VectorAccounted, LineAccounted, IpiVectors, Vector
  <1>11. "None" # "Started" /\ "None" # "Removing"
    OBVIOUS
  <1>12. BindingState'
    BY <1>5, <1>11, UntouchedRecord, Zenon DEF BindingState
  <1>13. Progress'
    BY <1>4 DEF Progress, InProbe
  <1> QED BY <1>3, <1>4, <1>6, <1>7, <1>9, <1>10, <1>12, <1>13 DEF DevInv

\* Once begun, probing is never off again.
LEMMA ProbeStaysOn ==
    ASSUME DevInv, ProbeStep
    PROVE  probe'.stage # "off"
  <1>1. probe \in ProbeRec
    BY DEF DevInv, DevTypes
  <1>2. ASSUME NEW y, Fail(y) PROVE probe'.stage # "off"
    BY <1>2 DEF Fail, Idle
  <1>3. ASSUME NEW y, NEW st \in InProbe \cup {"next"}, Continue(y, st) PROVE probe'.stage # "off"
    BY <1>1, <1>3, Continued DEF InProbe
  <1>4. CASE NextDevice
    BY <1>4 DEF NextDevice, Idle
  <1>5. CASE BindTransport \/ NegotiateFeatures \/ ClaimController
    BY <1>2, <1>3, <1>5, Zenon DEF BindTransport, NegotiateFeatures, ClaimController, InProbe
  <1>6. CASE AllocateBuffer
    <2> DEFINE st == IF probe.next = Len(Buffers(Kind)) THEN "interrupt" ELSE "dma"
    <2>1. st \in InProbe
      BY DEF InProbe
    <2> HIDE DEF st
    <2> QED BY <1>2, <1>3, <1>6, <2>1, Zenon DEF AllocateBuffer, st
  <1>7. CASE EnableMsix \/ EnableMsi \/ EnableIntx
    <2>1. probe' = [probe EXCEPT !.stage = "route", !.vector = AllocatedVector]
      BY <1>7, Zenon DEF EnableMsix, EnableMsi, EnableIntx, TakeVector
    <2> QED BY <1>1, <2>1 DEF ProbeRec
  <1>8. CASE ModeUnavailable
    BY <1>1, <1>8 DEF ModeUnavailable, Probing, ProbeRec
  <1>9. CASE NoInterrupt \/ QueueVectorRefused
    BY <1>2, <1>9, Zenon DEF NoInterrupt, QueueVectorRefused
  <1>10. CASE RouteMessage \/ RouteLine
    BY <1>3, <1>10, Zenon DEF RouteMessage, RouteLine, InProbe
  <1>11. CASE RouteFails
    BY <1>1, <1>11 DEF RouteFails, ProbeRec
  <1>12. CASE StartBlk \/ StartNet \/ StartXhci
    BY <1>2, <1>3, <1>12, Zenon DEF StartBlk, StartNet, StartXhci
  <1> QED BY <1>4, <1>5, <1>6, <1>7, <1>8, <1>9, <1>10, <1>11, <1>12, Zenon DEF ProbeStep

LEMMA DevicesUnchanged ==
    ASSUME DevInv, UNCHANGED devices
    PROVE  DevInv'
  <1>1. /\ pci' = pci /\ vectors' = vectors /\ handler' = handler /\ routes' = routes
        /\ dev' = dev /\ probe' = probe
    BY DEF devices, found
  <1>2. Dev' = Dev /\ Vector' = Vector /\ IpiVectors' = IpiVectors /\ Dynamic' = Dynamic
    BY <1>1 DEF Dev, Vector, IpiVectors, Dynamic
  <1>3. DevTypes' /\ BeforeProbe'
    BY <1>1, <1>2, SMTT(30) DEF DevInv, DevTypes, BeforeProbe
  <1>4. Owned'
    BY <1>1, <1>2 DEF DevInv, Owned, VectorOwned, MessageOwned, HandlerOwned, RouteOwned, Binding
  <1>5. Accounted'
    BY <1>1, <1>2 DEF DevInv, Accounted, VectorAccounted, LineAccounted
  <1>6. BindingState'
    BY <1>1, <1>2, ZenonT(40) DEF DevInv, BindingState
  <1>7. /\ Kind' = Kind /\ Matched(probe.at)' = Matched(probe.at) /\ Untried' = Untried
        /\ Mode' = Mode /\ CanRegister(probe.vector)' = CanRegister(probe.vector)
    BY <1>1 DEF Kind, Matched, Untried, Mode, CanRegister
  <1>8. Progress'
    BY <1>1, <1>2, <1>7, Zenon DEF DevInv, Progress
  <1> QED BY <1>3, <1>4, <1>5, <1>6, <1>8 DEF DevInv

\* The vector a device's message carries is allocated, no one else's, and calls that
\* device's handler: MessageReachesOwner, but for the processor.
MessageHandled ==
    \A d \in Dev : dev[d].msg # Nobody =>
        /\ dev[d].msg \in vectors \ IpiVectors /\ handler[dev[d].msg] = d
        /\ \A r \in routes : r.vector = dev[d].msg => r.owner = d

LEMMA MessagesHandled == DevInv => MessageHandled
  <1> SUFFICES ASSUME DevInv, NEW d \in Dev, dev[d].msg # Nobody
               PROVE  /\ dev[d].msg \in Dynamic /\ handler[dev[d].msg] = d
                      /\ \A r \in routes : r.vector = dev[d].msg => r.owner = d
    BY DEF MessageHandled, Dynamic
  <1>1. /\ DevTypes /\ VectorOwned /\ MessageOwned /\ RouteOwned /\ Nobody \notin Dev /\ Kernel \notin Dev
    BY VectorNumbers DEF DevInv, Owned
  <1>2. CASE dev[d].msg = dev[d].vector
    <2>1. dev[d].msg \in Dynamic /\ handler[dev[d].msg] = d
      BY <1>1, <1>2 DEF VectorOwned
    <2>2. ASSUME NEW r \in routes, r.vector = dev[d].msg PROVE r.owner = d
      <3>1. r.owner \in Dev /\ dev[r.owner].vector = r.vector
        BY <1>1, <2>1, <2>2 DEF RouteOwned
      <3>2. handler[dev[r.owner].vector] = r.owner
        BY <1>1, <1>2, <2>2, <3>1 DEF VectorOwned
      <3> QED BY <2>1, <2>2, <3>1, <3>2
    <2> QED BY <2>1, <2>2
  <1>3. CASE Binding(d, dev[d].msg)
    BY <1>3, WhileBinding DEF Binding
  <1> QED BY <1>1, <1>2, <1>3 DEF MessageOwned

-----------------------------------------------------------------------------
(* Taking the lowest free vector *)

WF == INSTANCE WellFoundedInduction

\* A set of numbers has a least one: what irq_allocate_vector and the preference among
\* interrupt modes choose exists.
LEMMA LeastExists ==
    ASSUME NEW T \in SUBSET Nat, T # {}
    PROVE  \E m \in T : \A n \in T : m <= n
  <1> DEFINE R == WF!OpToRel(LAMBDA p, q : p < q, Nat)
  <1>1. WF!IsWellFoundedOn(R, Nat)
    BY WF!NatLessThanWellFounded, Zenon
  <1>2. \A p, q \in Nat : p < q => <<p, q>> \in R
    BY DEF WF!OpToRel
  <1> HIDE DEF R
  <1>3. PICK m \in T : \A n \in T : ~ (<<n, m>> \in R)
    BY <1>1, WF!WFMin, Zenon
  <1>4. \A n \in T : ~(n < m)
    BY <1>2, <1>3, Zenon
  <1>5. \A n \in T : m <= n
    BY <1>4
  <1> QED BY <1>5

LEMMA VectorAllocated ==
    ASSUME FreeVectors # {}
    PROVE  AllocatedVector \in FreeVectors
  <1>1. FreeVectors \in SUBSET Nat
    BY DEF FreeVectors, Vector
  <1> QED BY <1>1, LeastExists, Zenon DEF AllocatedVector

\* allocate_handler_vector and the programming of the device, in any mode.
LEMMA TakeVectorStep ==
    ASSUME DevInv, probe.stage = "interrupt", Untried # {}, TakeVector,
           NEW y \in DevRec, dev' = [dev EXCEPT ![probe.at] = y], SameBinding(dev[probe.at], y),
           y.vector = dev[probe.at].vector, y.line = dev[probe.at].line,
           y.msg \in {Nobody, AllocatedVector}, Mode = "Intx" => y.msg = Nobody,
           "registers" \in y.bars, y.pages = dev[probe.at].pages
    PROVE  DevInv'
  <1> DEFINE a == probe.at
             x == dev[a]
             f == AllocatedVector
  <1>1. /\ DevTypes /\ BeforeProbe /\ Owned /\ Accounted /\ Nobody \notin Vector /\ probe \in ProbeRec
        /\ a \in Dev /\ Matched(a) /\ ~x.present /\ x.state = "None"
        /\ x.pages = BufferSet(Kind) /\ x.vector = Nobody
        /\ "Intx" \notin probe.tried => x.line = Nobody
    BY VectorNumbers, ProbedIsDevice, Zenon DEF DevInv, Progress, InProbe, DevTypes
  <1>2. f \in Vector /\ f \notin vectors
    BY VectorAllocated DEF TakeVector, FreeVectors
  <1>3. /\ vectors' = vectors \cup {f} /\ handler' = [handler EXCEPT ![f] = a] /\ routes' = routes
        /\ probe' = [probe EXCEPT !.stage = "route", !.vector = f] /\ pci' = pci
    BY DEF TakeVector, found
  <1>4. /\ Dev' = Dev /\ dev' \in [Dev -> DevRec] /\ dev'[a] = y
        /\ \A e \in Dev : e # a => dev'[e] = dev[e]
    BY <1>1, <1>3, OneDevice, Zenon
  <1> HIDE DEF f
  <1>5. /\ probe' \in ProbeRec /\ probe'.at = a /\ probe'.stage = "route" /\ probe'.vector = f
        /\ probe'.tried = probe.tried
    <2>1. f \in Int
      BY <1>2 DEF Vector
    <2> QED BY <1>1, <1>3, <2>1, Zenon DEF ProbeRec, InProbe
  <1> HIDE DEF a, x
  <1>6. /\ handler' \in [Vector -> Int] /\ handler'[f] = a
        /\ \A w \in Vector : w # f => handler'[w] = handler[w]
    BY <1>1, <1>2, <1>3 DEF DevTypes
  <1>7. Vector' = Vector /\ IpiVectors' = IpiVectors
    BY DEF IpiVectors, Vector
  <1>8. DevTypes'
    BY <1>1, <1>2, <1>3, <1>4, <1>5, <1>6, <1>7 DEF DevTypes
  <1>9. f \notin IpiVectors /\ BeforeProbe'
    BY <1>1, <1>2, <1>3, <1>5, <1>7 DEF BeforeProbe
  <1>10. Dynamic' = Dynamic \cup {f} /\ f \notin Dynamic
    BY <1>2, <1>3, <1>7, <1>9 DEF Dynamic
  <1>11. \A e \in Dev : dev'[e].vector = dev[e].vector /\ dev'[e].line = dev[e].line
    BY <1>4 DEF a, x
  <1>12. VectorOwned'
    <2> SUFFICES ASSUME NEW e \in Dev, dev[e].vector # Nobody
                 PROVE  /\ dev[e].vector \in Dynamic' /\ handler'[dev[e].vector] = e
                        /\ \E r \in routes : r.vector = dev[e].vector /\ r.owner = e
      BY <1>3, <1>4, <1>11 DEF VectorOwned
    <2>1. /\ dev[e].vector \in Dynamic /\ handler[dev[e].vector] = e
          /\ \E r \in routes : r.vector = dev[e].vector /\ r.owner = e
      BY <1>1 DEF Owned, VectorOwned
    <2>2. dev[e].vector \in Vector
      BY <1>1, <2>1 DEF Dynamic, DevTypes
    <2> QED BY <1>6, <1>10, <2>1, <2>2
  <1>13. MessageOwned'
    <2> SUFFICES ASSUME NEW e \in Dev, dev'[e].msg # Nobody
                 PROVE  \/ dev'[e].msg = dev'[e].vector
                        \/ probe'.stage = "route" /\ probe'.at = e /\ probe'.vector = dev'[e].msg
      BY <1>4 DEF MessageOwned, Binding
    <2>1. CASE e = a
      BY <1>4, <1>5, <2>1, SMTT(30) DEF f
    <2>2. CASE e # a
      BY <1>1, <1>4, <2>2 DEF Owned, MessageOwned, Binding
    <2> QED BY <2>1, <2>2
  <1>14. HandlerOwned'
    <2> SUFFICES ASSUME NEW w \in Vector, handler'[w] # Nobody
                 PROVE  handler'[w] \in Dev /\ (dev'[handler'[w]].vector = w \/ Binding(handler[w], w)')
      BY <1>4, <1>7 DEF HandlerOwned
    <2>1. CASE w = f
      BY <1>1, <1>5, <1>6, <2>1 DEF Binding
    <2>2. CASE w # f
      BY <1>1, <1>6, <1>11, <2>2 DEF Owned, HandlerOwned, Binding
    <2> QED BY <2>1, <2>2
  <1>15. RouteOwned' /\ \A r \in routes : r.vector # f
    <2> SUFFICES ASSUME NEW r \in routes
                 PROVE  /\ r.vector # f /\ r.vector \in Dynamic'
                        /\ IF r.owner = Kernel THEN handler'[r.vector] = Nobody
                           ELSE r.owner \in Dev /\ dev[r.owner].vector = r.vector
      BY <1>3, <1>4, <1>11 DEF RouteOwned
    <2>1. /\ r.vector \in Dynamic /\ r.vector \in Vector
          /\ IF r.owner = Kernel THEN handler[r.vector] = Nobody
             ELSE r.owner \in Dev /\ dev[r.owner].vector = r.vector
      BY <1>1 DEF Owned, RouteOwned, Dynamic, DevTypes
    <2> QED BY <1>6, <1>10, <2>1
  <1>16. Accounted'
    <2>1. LineAccounted'
      BY <1>1, <1>3, <1>4, <1>11 DEF Accounted, LineAccounted, OwnsVector
    <2>2. ASSUME NEW w \in vectors' PROVE VectorAccounted(w)'
      BY <1>1, <1>3, <1>4, <1>5, <1>7, <1>11, <2>2 DEF Accounted, VectorAccounted
    <2> QED BY <2>1, <2>2 DEF Accounted
  <1>17. BindingState'
    BY <1>3, <1>5, UnboundKept, Zenon DEF InProbe, a
  <1>18. Untried' = Untried /\ Mode' = Mode
    BY <1>3, <1>5, Zenon DEF Untried, Mode, a
  <1>19. ~y.present /\ y.state = "None"
    BY <1>1, Zenon DEF SameBinding, x, a
  <1>20. Matched(probe.at)' /\ Kind' = Kind /\ CanRegister(probe.vector)'
    BY <1>1, <1>3, <1>5, <1>15, SMTT(30) DEF Matched, Kind, CanRegister, a
  <1>21. Progress'
    BY <1>1, <1>4, <1>5, <1>6, <1>10, <1>18, <1>19, <1>20 DEF Progress, InProbe, a, x, f
  <1> QED BY <1>8, <1>9, <1>12, <1>13, <1>14, <1>15, <1>16, <1>17, <1>21, SMTT(30) DEF DevInv, Owned

LEMMA EnableStep ==
    ASSUME DevInv, EnableMsix \/ EnableMsi \/ EnableIntx
    PROVE  DevInv'
  <1> DEFINE x == dev[probe.at]
             c == BarClaimed(x, "table")
             f == AllocatedVector
  <1>1. probe.stage = "interrupt" /\ Untried # {} /\ TakeVector
    BY Zenon, ZenonT(40) DEF EnableMsix, EnableMsi, EnableIntx, Probing, Trying
  <1>2. /\ x \in DevRec /\ probe.at \in Dev /\ dev \in [Dev -> DevRec]
        /\ "registers" \in x.bars /\ x.msg = Nobody
    BY <1>1, ProbedIsDevice, Zenon DEF DevInv, DevTypes, Progress, InProbe
  <1>3. f \in Int
    BY <1>1, VectorAllocated, SMTT(30) DEF TakeVector, FreeVectors, Vector
  <1>4. c \in DevRec /\ SameInterrupt(x, c) /\ SameBinding(x, c) /\ c.bars = x.bars \cup {"table"} /\ c.pages = x.pages
    <2>1. "table" \in Bar
      BY DEF Bar
    <2> QED BY <1>2, <2>1, ClaimedRecord
  <1> HIDE DEF x, c, f
  <1>5. CASE EnableMsix
    <2> DEFINE y == [c EXCEPT !.msg = f]
    <2>1. dev' = [dev EXCEPT ![probe.at] = y] /\ Mode = "Msix"
      BY <1>5, Zenon DEF EnableMsix, Trying, c, x, f
    <2>2. y \in DevRec /\ SameBinding(c, y) /\ SameMemory(c, y) /\ y.msg = f /\ y.vector = c.vector /\ y.line = c.line
      BY <1>3, <1>4, MessageRecord
    <2> HIDE DEF y
    <2>3. /\ SameBinding(x, y) /\ y.vector = x.vector /\ y.line = x.line /\ "registers" \in y.bars
          /\ y.pages = x.pages
      BY <1>2, <1>4, <2>2 DEF SameBinding, SameMemory, SameInterrupt
    <2> QED BY <1>1, <2>1, <2>2, <2>3, TakeVectorStep, Zenon DEF x, f
  <1>6. CASE EnableMsi
    <2> DEFINE y == [x EXCEPT !.msg = f]
    <2>1. dev' = [dev EXCEPT ![probe.at] = y] /\ Mode = "Msi"
      BY <1>6, Zenon DEF EnableMsi, Trying, x, f
    <2>2. y \in DevRec /\ SameBinding(x, y) /\ SameMemory(x, y) /\ y.msg = f /\ y.vector = x.vector /\ y.line = x.line
      BY <1>2, <1>3, MessageRecord
    <2> HIDE DEF y
    <2>3. "registers" \in y.bars /\ y.pages = x.pages
      BY <1>2, <2>2 DEF SameMemory
    <2> QED BY <1>1, <2>1, <2>2, <2>3, TakeVectorStep, Zenon DEF x, f
  <1>7. CASE EnableIntx
    <2>1. dev' = [dev EXCEPT ![probe.at] = x]
      BY <1>2, <1>7, Zenon DEF EnableIntx, x
    <2>2. SameBinding(x, x)
      BY DEF SameBinding
    <2> QED BY <1>1, <1>2, <2>1, <2>2, TakeVectorStep, Zenon DEF x
  <1> QED BY <1>5, <1>6, <1>7

LEMMA KernelRouteStep ==
    ASSUME DevInv, probe.stage = "done", UNCHANGED <<found, handler, dev, probe>>,
           FreeVectors # {}, vectors' = vectors \cup {AllocatedVector},
           routes' = Registered(AllocatedVector, "LocalApic", Kernel)
    PROVE  DevInv'
  <1> DEFINE f == AllocatedVector
             q == [vector |-> f, kind |-> "LocalApic", owner |-> Kernel]
  <1>1. /\ vectors' = vectors \cup {f} /\ routes' = routes \cup {q} /\ pci' = pci /\ handler' = handler
        /\ dev' = dev /\ probe' = probe /\ FreeVectors # {}
    BY DEF Registered, found
  <1>2. f \in Vector /\ f \notin vectors
    BY <1>1, VectorAllocated DEF FreeVectors
  <1>3. DevTypes /\ IpiVectors \subseteq vectors /\ Owned /\ Accounted /\ BindingState
    BY DEF DevInv, BeforeProbe
  <1>4. /\ q \in RouteRec /\ q.vector = f /\ q.owner = Kernel /\ OwnsVector(q.kind)
        /\ \A r \in routes' : r \in routes \/ r = q
    BY <1>1, <1>2 DEF RouteRec, Vector, Kernel, OwnsVector
  <1> HIDE DEF f, q
  <1>5. Dev' = Dev /\ Vector' = Vector /\ IpiVectors' = IpiVectors /\ Dynamic' = Dynamic \cup {f}
    BY <1>1, <1>2, <1>3 DEF Dev, Vector, IpiVectors, Dynamic
  <1>6. handler[f] = Nobody
    BY <1>2, <1>3, VectorNumbers DEF Owned, HandlerOwned, VectorOwned, Binding, Dynamic
  <1>7. DevTypes'
    BY <1>1, <1>2, <1>3, <1>4, <1>5 DEF DevTypes
  <1>8. BeforeProbe'
    BY <1>1, <1>3, <1>5, SMTT(30) DEF BeforeProbe
  <1>9. VectorOwned' /\ MessageOwned' /\ HandlerOwned'
    BY <1>1, <1>3, <1>5, SMTT(30) DEF Owned, VectorOwned, MessageOwned, HandlerOwned, Binding
  <1>10. RouteOwned'
    BY <1>1, <1>3, <1>4, <1>5, <1>6 DEF Owned, RouteOwned
  <1>11. LineAccounted' /\ \A w \in vectors' : VectorAccounted(w)'
    BY <1>1, <1>3, <1>4, <1>5 DEF Accounted, LineAccounted, VectorAccounted
  <1>12. BindingState' /\ Progress'
    BY <1>1, <1>3, <1>5, ZenonT(40) DEF BindingState, Progress, InProbe
  <1> QED BY <1>1, <1>7, <1>8, <1>9, <1>10, <1>11, <1>12 DEF DevInv, Owned, Accounted

\* Every step of a probe keeps the invariant.
LEMMA ProbeStepKeeps ==
    ASSUME DevInv, ProbeStep
    PROVE  DevInv'
  BY NextDeviceStep, BindTransportStep, NegotiateFeaturesStep, ClaimControllerStep,
     AllocateBufferStep, EnableStep, ModeUnavailableStep, NoInterruptStep, RouteStep,
     RouteFailsStep, QueueVectorRefusedStep, StartStep, Zenon DEF ProbeStep

=============================================================================
