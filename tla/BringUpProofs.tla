---------------------------- MODULE BringUpProofs ----------------------------
(***************************************************************************)
(* Proofs about BringUp, for any number of processors, vectors, addresses  *)
(* and frames and any machines: what the start-up mailbox hands out, what  *)
(* the network smoke test may conclude, and which device owns which        *)
(* vector, handler and route, from probe to removal.                       *)
(***************************************************************************)
EXTENDS BringUp, DevicesProofs

-----------------------------------------------------------------------------
(* The start of the other CPUs *)

ApState == {"off", "reset", "started", "init", "online"}

\* ApOwnRecord, with why it holds: at most one AP, the one waited for, is on its way.
ApInv ==
    /\ ap \in [Ap -> ApState] /\ record \in [Ap -> Int] /\ booted \in [Ap -> BOOLEAN]
    /\ next \in Nat /\ mailbox \in Int
    /\ ~gaveUp => \A c \in Ap :
          /\ ap[c] \in {"reset", "started", "init"} => c = next
          /\ ap[c] \in {"reset", "started"} => mailbox = c
          /\ ap[c] = "init" => record[c] = c
          /\ record[c] \in {Nobody, c}
          /\ booted[c] <=> ap[c] = "online"

apVars == <<next, mailbox, ap, record, booted, gaveUp>>

\* All that a step may do to the APs.
LEMMA ApEffects ==
    ASSUME [Next]_vars
    PROVE  \/ UNCHANGED apVars
           \/ StartAp \/ StartupSent \/ WaitForAp
           \/ \E c \in Ap : ApReadMailbox(c) \/ ApOnline(c)
  <1>1. CASE UNCHANGED vars \/ Finished
    BY <1>1 DEF vars, Finished, cpus, apVars
  <1>2. CASE ChipAnswers \/ Tick \/ Resume \/ Network
    BY <1>2, Zenon DEF ChipAnswers, Tick, Resume, Network, cpus, apVars
  <1>3. CASE \E d \in Dev : Remove(d)
    BY <1>3, Zenon DEF Remove, cpus, apVars
  <1>4. CASE /\ Main /\ ~StartAp /\ ~StartupSent /\ ~WaitForAp
    <2>1. CASE OwnBootInfo \/ InitializeFrames \/ KernelPageTables \/ AllocateTerminals \/ CreateTasks
      BY <2>1, Zenon DEF OwnBootInfo, InitializeFrames, KernelPageTables, AllocateTerminals,
            CreateTasks, Stage, cpus, apVars
    <2>2. CASE Discover
      BY <2>2, Zenon DEF Discover, apVars
    <2>3. CASE InitializeInterrupts \/ InitializeIpi \/ EnableInterrupts \/ BeginProbe \/ Probe \/ ProbeEnds \/ Smoke
      BY <2>3, Zenon DEF InitializeInterrupts, InitializeIpi, EnableInterrupts, BeginProbe, Probe,
            ProbeEnds, Smoke, cpus, apVars
    <2>4. CASE InitializeConsole \/ PrepareLapic \/ PreparePit \/ ApsDone \/ ArmTimer \/ EnterFirstThread
      BY <2>4, Zenon DEF InitializeConsole, PrepareLapic, PreparePit, ApsDone, ArmTimer,
            EnterFirstThread, cpus, apVars
    <2> QED BY <1>4, <2>1, <2>2, <2>3, <2>4 DEF Main
  <1> QED BY <1>1, <1>2, <1>3, <1>4 DEF Next

\* ApInv is kept by every step.
LEMMA ApStep ==
    ASSUME ApInv, [Next]_vars
    PROVE  ApInv'
  <1>1. CASE UNCHANGED apVars
    BY <1>1 DEF apVars, ApInv
  <1>2. CASE StartAp \/ StartupSent
    <2>1. PICK to \in {"reset", "started"} :
             /\ next \in Nat /\ ap[next] \in {"off", "reset"} /\ ap' = [ap EXCEPT ![next] = to]
             /\ UNCHANGED <<next, record, booted, gaveUp>>
             /\ mailbox' = next \/ (ap[next] = "reset" /\ mailbox' = mailbox)
      BY <1>2 DEF StartAp, StartupSent, ApInv
    <2>2. ap \in [Ap -> ApState] /\ to \in ApState
      BY DEF ApInv, ApState
    <2>3. ap' \in [Ap -> ApState]
      BY <2>1, <2>2, Zenon
    <2>4. \A c \in Ap : ap'[c] = IF c = next THEN to ELSE ap[c]
      BY <2>1, <2>2, Zenon
    <2>5. mailbox' \in Int
      BY <2>1 DEF ApInv
    <2>6. ASSUME ~gaveUp', next \in Ap PROVE mailbox' = next
      BY <2>1, <2>6 DEF ApInv
    <2>7. to \in {"reset", "started"}
      OBVIOUS
    <2>8. ASSUME ~gaveUp', NEW c \in Ap
          PROVE  /\ ap'[c] \in {"reset", "started", "init"} => c = next'
                 /\ ap'[c] \in {"reset", "started"} => mailbox' = c
                 /\ ap'[c] = "init" => record'[c] = c
                 /\ record'[c] \in {Nobody, c}
                 /\ booted'[c] <=> ap'[c] = "online"
      <3>1. CASE c = next
        <4>1. ap'[c] = to /\ ap[c] \in {"off", "reset"}
          BY <2>1, <2>4, <3>1
        <4>2. /\ record[c] \in {Nobody, c}
              /\ booted[c] <=> ap[c] = "online"
          BY <2>1, <2>8, Zenon DEF ApInv
        <4> QED BY <2>1, <2>6, <2>7, <2>8, <3>1, <4>1, <4>2, Zenon
      <3>2. CASE c # next
        <4>1. ap'[c] = ap[c]
          BY <2>4, <3>2
        <4> QED BY <2>1, <2>8, <3>2, <4>1, Zenon DEF ApInv
      <3> QED BY <3>1, <3>2
    <2> QED BY <2>1, <2>3, <2>5, <2>8, Zenon DEF ApInv
  <1>3. CASE WaitForAp
    <2>1. /\ next' = next + 1 /\ gaveUp' = (gaveUp \/ ~booted[next])
          /\ ap[next] \notin {"off", "reset"}
          /\ UNCHANGED <<mailbox, ap, record, booted>>
      BY <1>3 DEF WaitForAp
    <2>2. next' \in Nat
      BY <2>1 DEF ApInv
    <2>3. ASSUME ~gaveUp', NEW c \in Ap PROVE ap[c] \notin {"reset", "started", "init"}
      BY <2>1, <2>3, Zenon DEF ApInv
    <2> QED BY <2>1, <2>2, <2>3, Zenon DEF ApInv
  <1>4. ASSUME NEW c \in Ap, ApReadMailbox(c) PROVE ApInv'
    <2>1. /\ ap[c] = "started" /\ ap' = [ap EXCEPT ![c] = "init"]
          /\ record' = [record EXCEPT ![c] = mailbox]
          /\ UNCHANGED <<next, mailbox, booted, gaveUp>>
      BY <1>4 DEF ApReadMailbox
    <2> QED BY <2>1 DEF ApInv, ApState
  <1>5. ASSUME NEW c \in Ap, ApOnline(c) PROVE ApInv'
    <2>1. /\ ap[c] = "init" /\ ap' = [ap EXCEPT ![c] = "online"]
          /\ booted' = [booted EXCEPT ![record[c]] = TRUE]
          /\ UNCHANGED <<next, mailbox, record, gaveUp>>
      BY <1>5 DEF ApOnline
    <2> QED BY <2>1, Zenon DEF ApInv, ApState
  <1> QED BY <1>1, <1>2, <1>3, <1>4, <1>5, ApEffects

\* As long as no AP was given up on, no two APs run on one cpu record and stack, for any
\* number of processors: cpu_boot_others can do with the one mailbox.
THEOREM OwnRecords == Spec => []ApOwnRecord
  <1>1. Init => ApInv
    <2> SUFFICES ASSUME Init PROVE ApInv
      OBVIOUS
    <2>1. /\ next = 1 /\ mailbox = 0 /\ ap = [c \in Ap |-> "off"] /\ record = [c \in Ap |-> 0]
          /\ booted = [c \in Ap |-> FALSE] /\ gaveUp = FALSE
      BY Zenon DEF Init, Nobody
    <2>2. ap \in [Ap -> ApState] /\ record \in [Ap -> Int] /\ booted \in [Ap -> BOOLEAN]
      BY <2>1 DEF ApState
    <2>3. \A c \in Ap : ap[c] = "off" /\ record[c] = Nobody /\ ~booted[c]
      BY <2>1 DEF Nobody
    <2>4. "off" \notin {"reset", "started", "init"} /\ "off" # "online"
      OBVIOUS
    <2>5. next \in Nat /\ mailbox \in Int
      BY <2>1
    <2> QED BY <2>2, <2>3, <2>4, <2>5, Zenon DEF ApInv
  <1>2. ApInv /\ [Next]_vars => ApInv'
    BY ApStep
  <1>3. ApInv => ApOwnRecord
    BY DEF ApInv, ApOwnRecord
  <1> QED BY <1>1, <1>2, <1>3, PTL DEF Spec

-----------------------------------------------------------------------------
(* The network smoke test *)

RxState == [submitted : BOOLEAN, avail : Int, used : Seq(Frame)]

ReplyInv == rx \in RxState /\ ReplySeenIsCached

\* All that a step may do to what ReplyInv is about.
LEMMA NetEffects ==
    ASSUME [Next]_vars
    PROVE  \/ UNCHANGED <<rx, seen, arp, insertFailed, smoke>>
           \/ rx' = Resubmitted(rx) /\ UNCHANGED <<seen, arp, insertFailed, smoke>>
           \/ Receive \/ NetIrq \/ SmokeBegin \/ SmokeStep \/ NetRemoved
  <1>1. CASE UNCHANGED vars \/ Finished
    BY <1>1, Zenon DEF vars, Finished, network
  <1>2. CASE ChipAnswers \/ Tick \/ Resume \/ \E c \in Ap : ApReadMailbox(c) \/ ApOnline(c)
    BY <1>2, Zenon DEF ChipAnswers, Tick, Resume, ApReadMailbox, ApOnline, network
  <1>3. CASE Network \/ \E d \in Dev : Remove(d)
    BY <1>3, Zenon DEF Network, Remove, Transmit, network
  <1>4. CASE Main
    <2>1. CASE OwnBootInfo \/ InitializeFrames \/ KernelPageTables \/ AllocateTerminals \/ CreateTasks
      BY <2>1, Zenon DEF OwnBootInfo, InitializeFrames, KernelPageTables, AllocateTerminals,
            CreateTasks, Stage, network
    <2>2. CASE Probe \/ Smoke
      BY <2>2, Zenon DEF Probe, Smoke, NetStart, network
    <2>3. CASE Discover \/ InitializeInterrupts \/ InitializeIpi \/ EnableInterrupts \/ BeginProbe \/ ProbeEnds
      BY <2>3, Zenon DEF Discover, InitializeInterrupts, InitializeIpi, EnableInterrupts, BeginProbe,
            ProbeEnds, network
    <2>4. CASE InitializeConsole \/ PrepareLapic \/ PreparePit \/ StartAp \/ StartupSent \/ WaitForAp \/ ApsDone \/ ArmTimer \/ EnterFirstThread
      BY <2>4, Zenon DEF InitializeConsole, PrepareLapic, PreparePit, StartAp, StartupSent, WaitForAp, ApsDone,
            ArmTimer, EnterFirstThread, network
    <2> QED BY <1>4, <2>1, <2>2, <2>3, <2>4 DEF Main
  <1> QED BY <1>1, <1>2, <1>3, <1>4 DEF Next

\* submit_rx_buffer leaves the frames that have arrived.
LEMMA ResubmittedType ==
    ASSUME NEW r \in RxState
    PROVE  Resubmitted(r) \in RxState
  <1>1. r.avail + 1 \in Int /\ TRUE \in BOOLEAN
    BY DEF RxState
  <1>2. [r EXCEPT !.submitted = TRUE, !.avail = @ + 1] \in RxState
    BY <1>1, Zenon DEF RxState
  <1> QED BY <1>2, Zenon DEF Resubmitted

\* A frame is the reply to the probe only if its sender is the target.
LEMMA ReplyIsTargets ==
    ASSUME NEW f \in Frame, f.reply
    PROVE  f.ip = TargetIp
  <1>1. CASE f \in {[arp |-> FALSE, ip |-> TargetIp, reply |-> FALSE], [arp |-> TRUE, ip |-> TargetIp, reply |-> TRUE]}
    BY <1>1
  <1>2. CASE f \in [arp : {TRUE}, ip : Ip, reply : {FALSE}]
    BY <1>2, Zenon
  <1> QED BY <1>1, <1>2, Zenon DEF Frame

\* ReplyInv is kept by every step.
LEMMA ReplyStep ==
    ASSUME ReplyInv, [Next]_vars
    PROVE  ReplyInv'
  <1> USE DEF ReplyInv, ReplySeenIsCached
  <1>1. CASE UNCHANGED <<rx, seen, arp, insertFailed, smoke>>
    BY <1>1
  <1>2. CASE rx' = Resubmitted(rx) /\ UNCHANGED <<seen, arp, insertFailed, smoke>>
    BY <1>2, ResubmittedType
  <1>3. CASE Receive
    <2>1. PICK f \in Frame : rx' = [rx EXCEPT !.avail = @ - 1, !.used = Append(@, f)]
      BY <1>3, Zenon DEF Receive
    <2>2. rx.avail - 1 \in Int /\ rx.used \in Seq(Frame)
      BY DEF RxState
    <2>3. Append(rx.used, f) \in Seq(Frame)
      BY <2>2
    <2>4. rx' \in RxState
      BY <2>1, <2>2, <2>3, Zenon DEF RxState
    <2> QED BY <1>3, <2>4, SMTT(30) DEF Receive
  <1>4. CASE SmokeBegin
    BY <1>4, ResubmittedType DEF SmokeBegin
  <1>5. CASE SmokeStep
    BY <1>5 DEF SmokeStep, SmokeReset, SmokeProbe, SmokeWait, SmokeLookup, Cleared
  <1>6. CASE NetRemoved
    BY <1>6, Zenon DEF NetRemoved, RxState
  <1>7. CASE NetIrq /\ rx.used = <<>>
    BY <1>7 DEF NetIrq
  <1>8. CASE NetIrq /\ rx.used # <<>>
    <2> DEFINE f == Head(rx.used)
    <2>0. rx.used \in Seq(Frame) /\ rx.used # <<>>
      BY <1>8 DEF RxState
    <2>9. f \in Frame /\ Tail(rx.used) \in Seq(Frame)
      BY <2>0
    <2>1. f \in Frame /\ [rx EXCEPT !.submitted = FALSE, !.used = Tail(@)] \in RxState
      BY <2>9, Zenon DEF RxState
    <2>2. rx' \in RxState
      BY <1>8, <2>1, ResubmittedType DEF NetIrq
    <2>3. CASE f.arp
      <3>1. PICK stored \in {TRUE, f.ip \in arp} :
                /\ arp' = Cached(f, stored) /\ seen' = Seen(f)
                /\ insertFailed' = (insertFailed \/ ~stored)
        BY <1>8, <2>3, Zenon DEF NetIrq
      <3>2. smoke' = smoke
        BY <1>8 DEF NetIrq
      <3>3. CASE f.reply /\ stored
        BY <2>1, <2>2, <3>1, <3>2, <3>3, ReplyIsTargets DEF Cached, Seen
      <3>4. CASE ~stored
        BY <2>2, <3>1, <3>2, <3>4, Zenon DEF Cached, Seen
      <3>5. CASE ~f.reply
        BY <2>2, <3>1, <3>2, <3>5, Zenon DEF Cached, Seen
      <3> QED BY <3>3, <3>4, <3>5
    <2>4. CASE ~f.arp
      BY <1>8, <2>2, <2>4 DEF NetIrq
    <2> QED BY <2>3, <2>4
  <1> QED BY <1>1, <1>2, <1>3, <1>4, <1>5, <1>6, <1>7, <1>8, NetEffects

\* The smoke test's flag does not outlive the cache entry it announces, whatever frames
\* arrive and whenever the handler runs.
THEOREM RepliesCached == Spec => []ReplySeenIsCached
  <1>1. Init => ReplyInv
    <2> SUFFICES ASSUME Init PROVE ReplyInv
      OBVIOUS
    <2>1. rx = [submitted |-> FALSE, avail |-> 0, used |-> <<>>] /\ smoke = "idle"
      BY Zenon DEF Init, NetInit
    <2> QED BY <2>1 DEF ReplyInv, RxState, ReplySeenIsCached
  <1>2. ReplyInv /\ [Next]_vars => ReplyInv'
    BY ReplyStep
  <1>3. ReplyInv => ReplySeenIsCached
    BY DEF ReplyInv
  <1> QED BY <1>1, <1>2, <1>3, PTL DEF Spec

-----------------------------------------------------------------------------
(* Vectors, handlers, routes and devices *)

EarlyStage == {"boot_info", "frames", "tables", "discover", "terminals", "interrupts", "ipi"}
LateStage == {"smoke", "console", "tasks", "timer", "aps", "arm", "enter", "running"}

\* How far kernel_main is says how far probing is.
StageInv ==
    /\ stage \in EarlyStage \cup {"sti"} => probe = Idle
    /\ stage \in EarlyStage => "ipi" \notin established
    /\ stage \in {"sti", "probe"} => "ipi" \in established
    /\ "ipi" \in established => IpiVectors \subseteq vectors
    /\ stage \in LateStage => probe.stage = "done"
    /\ "ipi" \notin established => probe.stage = "off"

IInv == DevInv /\ StageInv

\* How kernel_main's stage moves when nothing happens to the devices.
Moves ==
    /\ "ipi" \in established' <=> "ipi" \in established
    /\ \/ stage' \in {stage, "halted"}
       \/ stage \in EarlyStage \ {"ipi"} /\ stage' \in EarlyStage
       \/ stage = "sti" /\ stage' = "probe"
       \/ stage = "probe" /\ stage' = "smoke" /\ probe.stage = "done"
       \/ stage \in LateStage /\ stage' \in LateStage

DeviceSteps ==
    \/ /\ stage = "discover" /\ stage' = "terminals" /\ PlatformDiscover
       /\ established' = established \cup {"topology", "local_apic"}
    \/ InitializeInterrupts \/ InitializeIpi \/ PrepareLapic
    \/ stage = "probe" /\ (ProbeAll \/ ProbeStep) /\ UNCHANGED boot
    \/ stage = "running" /\ UNCHANGED boot
       /\ \E d \in Dev : RemoveVirtio(d) \/ RemoveXhci(d) \/ RemoveResources(d)

LEMMA DeviceEffects ==
    ASSUME [Next]_vars
    PROVE  (UNCHANGED devices /\ Moves) \/ DeviceSteps
  <1>1. CASE UNCHANGED vars \/ Finished
    BY <1>1 DEF vars, Finished, Moves, boot
  <1>2. CASE ChipAnswers \/ Tick \/ Resume \/ Network \/ \E c \in Ap : ApReadMailbox(c) \/ ApOnline(c)
    <2>1. UNCHANGED <<devices, boot>>
      BY <1>2, Zenon DEF ChipAnswers, Tick, Resume, Network, ApReadMailbox, ApOnline
    <2> QED BY <2>1 DEF Moves, boot
  <1>3. CASE \E d \in Dev : Remove(d)
    BY <1>3, Zenon DEF Remove, DeviceSteps
  <1>4. ASSUME Return, UNCHANGED devices PROVE Moves
    BY <1>4 DEF Return, Moves
  <1>5. ASSUME NEW to, NEW what, "ipi" \notin what, Done(to, what), UNCHANGED devices,
               \/ stage \in EarlyStage \ {"ipi"} /\ to \in EarlyStage
               \/ stage = "sti" /\ to = "probe"
               \/ stage = "probe" /\ to = "smoke" /\ probe.stage = "done"
               \/ stage \in LateStage /\ to \in LateStage
        PROVE  Moves
    BY <1>5 DEF Done, Moves
  <1>6. CASE OwnBootInfo \/ InitializeFrames \/ KernelPageTables \/ AllocateTerminals
    BY <1>4, <1>5, <1>6 DEF OwnBootInfo, InitializeFrames, KernelPageTables, AllocateTerminals,
          Stage, At, EarlyStage
  <1>7. CASE CreateTasks
    BY <1>4, <1>5, <1>7 DEF CreateTasks, Stage, At, LateStage
  <1>8. CASE Discover
    BY <1>4, <1>8 DEF Discover, At, Done, DeviceSteps
  <1>9. CASE InitializeInterrupts \/ InitializeIpi \/ PrepareLapic
    BY <1>9 DEF DeviceSteps
  <1>10. CASE EnableInterrupts
    BY <1>5, <1>10 DEF EnableInterrupts, At
  <1>11. CASE BeginProbe \/ Probe
    BY <1>11, Zenon DEF BeginProbe, Probe, At, DeviceSteps
  <1>12. CASE ProbeEnds
    BY <1>4, <1>5, <1>12 DEF ProbeEnds, At, Probing
  <1>13. CASE Smoke
    <2>1. UNCHANGED devices /\ stage = "smoke" /\ (UNCHANGED boot \/ Done("console", {}) \/ Return)
      BY <1>13, Zenon DEF Smoke, At
    <2> QED BY <1>4, <1>5, <2>1 DEF LateStage, Moves, boot
  <1>14. CASE InitializeConsole
    BY <1>4, <1>5, <1>14 DEF InitializeConsole, At, LateStage
  <1>15. CASE PreparePit \/ ArmTimer
    <2>1. /\ UNCHANGED devices /\ stage \in LateStage
          /\ Return \/ (stage' \in LateStage /\ UNCHANGED established)
      BY <1>15 DEF PreparePit, ArmTimer, At, LateStage
    <2> QED BY <1>4, <2>1 DEF Moves
  <1>16. CASE StartAp \/ StartupSent \/ WaitForAp
    <2>1. UNCHANGED <<devices, boot>>
      BY <1>16, Zenon DEF StartAp, StartupSent, WaitForAp
    <2> QED BY <2>1 DEF Moves, boot
  <1>17. CASE ApsDone \/ EnterFirstThread
    BY <1>5, <1>17 DEF ApsDone, EnterFirstThread, At, LateStage
  <1> QED BY <1>1, <1>2, <1>3, <1>6, <1>7, <1>8, <1>9, <1>10, <1>11, <1>12, <1>13, <1>14,
             <1>15, <1>16, <1>17, ZenonT(40) DEF Next, Main

LEMMA DeviceInit == Init => IInv
  <1> SUFFICES ASSUME Init PROVE IInv
    OBVIOUS
  <1>1. /\ pci = <<>> /\ vectors = {} /\ handler = [v \in Vector |-> Nobody] /\ routes = {}
        /\ dev = <<>> /\ probe = Idle /\ stage = "boot_info" /\ established = {}
    BY DEF Init, DevicesInit
  <1>2. Dev = {} /\ dev \in [Dev -> DevRec]
    BY <1>1 DEF Dev
  <1>3. probe \in ProbeRec
    <2>1. 0 \in Nat /\ Nobody \in Int
      BY DEF Nobody
    <2> QED BY <1>1, <2>1, Zenon DEF Idle, ProbeRec
  <1>4. handler \in [Vector -> Int] /\ \A v \in Vector : handler[v] = Nobody
    BY <1>1 DEF Nobody
  <1>5. DevTypes
    BY <1>1, <1>2, <1>3, <1>4, Zenon DEF DevTypes
  <1>6. BeforeProbe
    BY <1>1, <1>2, <1>4 DEF BeforeProbe, Idle
  <1>7. StageInv
    BY <1>1 DEF StageInv, EarlyStage, LateStage, Idle
  <1> QED BY <1>1, <1>5, <1>6, <1>7, NothingProbed DEF IInv, NoProbe

\* IInv is kept by every step.
LEMMA DeviceStep ==
    ASSUME IInv, [Next]_vars
    PROVE  IInv'
  <1>1. DevInv /\ StageInv /\ Idle.stage = "off"
    BY DEF IInv, Idle
  <1>2. CASE UNCHANGED devices /\ Moves
    <2>1. DevInv'
      BY <1>1, <1>2, DevicesUnchanged
    <2>2. StageInv'
      BY <1>1, <1>2 DEF devices, Moves, StageInv, EarlyStage, LateStage, IpiVectors, Vector
    <2> QED BY <2>1, <2>2 DEF IInv
  <1>3. CASE /\ stage = "discover" /\ stage' = "terminals" /\ PlatformDiscover
             /\ established' = established \cup {"topology", "local_apic"}
    <2> DEFINE p == Platform(Fw, source)
    <2>3. DevicesFound(p, PciDevices(Fw, p)) /\ DOMAIN PciDevices(Fw, p) \subseteq Nat \ {0}
      BY <1>3 DEF PlatformDiscover, PciDevices
    <2> HIDE DEF p
    <2>1. probe = Idle /\ probe' = probe /\ vectors' = vectors
      BY <1>1, <1>3, <2>3 DEF StageInv, EarlyStage, DevicesFound
    <2>2. StageInv'
      BY <1>1, <1>3, <2>1 DEF StageInv, EarlyStage, LateStage, IpiVectors, Vector
    <2> QED BY <1>1, <2>1, <2>2, <2>3, DevicesFoundStep DEF IInv
  <1>4. CASE InitializeInterrupts
    <2>1. /\ stage = "interrupts" /\ stage' = "ipi" /\ established' = established \cup {"idt"}
          /\ probe' = probe
      BY <1>4 DEF InitializeInterrupts, At, Done
    <2>2. probe = Idle /\ StageInv'
      BY <1>1, <2>1 DEF StageInv, EarlyStage, LateStage
    <2> QED BY <1>1, <1>4, <2>2, InterruptTablesStep DEF IInv, InitializeInterrupts
  <1>5. CASE InitializeIpi
    <2>1. /\ stage = "ipi" /\ probe' = probe /\ vectors' = vectors \cup IpiVectors
          /\ \/ stage' = "sti" /\ established' = established \cup {"ipi"}
             \/ stage' = "halted" /\ established' = established
      BY <1>5 DEF InitializeIpi, At, Done, Return
    <2>2. probe = Idle /\ StageInv'
      BY <1>1, <2>1 DEF StageInv, EarlyStage, LateStage, IpiVectors, Vector
    <2> QED BY <1>1, <1>5, <2>2, InterruptTablesStep DEF IInv, InitializeIpi
  <1>6. CASE PrepareLapic
    <2>1. stage = "timer" /\ stage' = "aps" /\ established' = established
      BY <1>6 DEF PrepareLapic, At
    <2>2. probe.stage = "done"
      BY <1>1, <2>1 DEF StageInv, LateStage
    <2>3. DevInv' /\ vectors \subseteq vectors' /\ probe' = probe
      BY <1>1, <1>6, <2>2, KernelRouteStep DEF PrepareLapic
    <2>4. StageInv'
      BY <1>1, <2>1, <2>2, <2>3 DEF StageInv, EarlyStage, LateStage, IpiVectors, Vector
    <2> QED BY <2>3, <2>4 DEF IInv
  <1>7. CASE stage = "probe" /\ (ProbeAll \/ ProbeStep) /\ UNCHANGED boot
    <2>1. /\ stage = "probe" /\ stage' = stage /\ established' = established
          /\ "ipi" \in established /\ IpiVectors \subseteq vectors
      BY <1>1, <1>7 DEF boot, StageInv
    <2>2. DevInv' /\ probe'.stage # "off"
      BY <1>1, <1>7, <2>1, ProbeAllStep, ProbeStepKeeps, ProbeStaysOn
    <2>3. IpiVectors' \subseteq vectors'
      BY <2>2 DEF DevInv, BeforeProbe
    <2>4. StageInv'
      BY <2>1, <2>2, <2>3 DEF StageInv, EarlyStage, LateStage
    <2> QED BY <2>2, <2>4 DEF IInv
  <1>8. CASE stage = "running" /\ UNCHANGED boot
             /\ \E d \in Dev : RemoveVirtio(d) \/ RemoveXhci(d) \/ RemoveResources(d)
    <2>1. /\ stage = "running" /\ stage' = stage /\ established' = established
          /\ probe.stage = "done"
      BY <1>1, <1>8 DEF boot, StageInv, LateStage
    <2>2. DevInv' /\ probe' = probe
      BY <1>1, <1>8, <2>1, RemovalStep, RemovedStep, Zenon DEF RemoveVirtio, RemoveXhci, RemoveResources
    <2>3. IpiVectors' \subseteq vectors'
      BY <2>1, <2>2 DEF DevInv, BeforeProbe
    <2>4. StageInv'
      BY <1>1, <2>1, <2>2, <2>3 DEF StageInv, EarlyStage, LateStage
    <2> QED BY <2>2, <2>4 DEF IInv
  <1> QED BY <1>2, <1>3, <1>4, <1>5, <1>6, <1>7, <1>8, DeviceEffects, Zenon DEF DeviceSteps

\* The inductive invariant holds throughout.
LEMMA DevicesInvariant == Spec => []IInv
  <1>1. IInv /\ [Next]_vars => IInv'
    BY DeviceStep
  <1> QED BY <1>1, DeviceInit, PTL DEF Spec

\* No dynamic vector leaks, whatever probe fails where and whatever is removed later:
\* irq_allocate_vector and irq_free_vector are paired but for a line's vector.
THEOREM NoVectorLeaks == Spec => []VectorsAccounted
  <1>1. IInv => VectorsAccounted
    BY Zenon DEF IInv, DevInv, Accounted, VectorAccounted, VectorsAccounted
  <1> QED BY <1>1, DevicesInvariant, PTL

\* A bound device has its registers, its buffers and an interrupt that reaches its
\* handler, on every path through the three probe functions and for any machine.
THEOREM BoundComplete == Spec => []StartedComplete
  <1>1. IInv => StartedComplete
    <2> SUFFICES ASSUME IInv, NEW d \in Dev, dev[d].state = "Started"
                 PROVE  /\ "registers" \in dev[d].bars /\ dev[d].pages = BufferSet(pci[d].kind)
                        /\ dev[d].vector \in vectors /\ handler[dev[d].vector] = d
                        /\ \E r \in routes : r.owner = d /\ r.vector = dev[d].vector
      BY Zenon DEF StartedComplete
    <2>1. /\ "registers" \in dev[d].bars /\ dev[d].pages = BufferSet(pci[d].kind)
          /\ dev[d].vector # Nobody
      BY Zenon DEF IInv, DevInv, BindingState
    <2>2. VectorOwned
      BY DEF IInv, DevInv, Owned
    <2> QED BY <2>1, <2>2 DEF VectorOwned, Dynamic
  <1> QED BY <1>1, DevicesInvariant, PTL

\* What was passed over or removed holds nothing in any registry once the system runs.
THEOREM NothingLeftBehind == Spec => []RemovedClean
  <1>1. IInv => RemovedClean
    <2> SUFFICES ASSUME IInv, NEW d \in Dev, stage = "running", ~dev[d].present
                 PROVE  /\ dev[d].bars = {} /\ dev[d].pages = {} /\ dev[d].msg = Nobody
                        /\ RoutesOf(d) = {} /\ \A v \in Vector : handler[v] # d
      BY Zenon DEF RemovedClean
    <2>1. probe.stage = "done" /\ "done" \notin InProbe \cup {"failed"}
      BY DEF IInv, StageInv, LateStage, InProbe
    <2>2. dev[d].bars = {} /\ dev[d].pages = {} /\ dev[d].vector = Nobody
      BY <2>1, Zenon DEF IInv, DevInv, BindingState
    <2>3. DevTypes /\ MessageOwned /\ RouteOwned /\ HandlerOwned /\ ~\E e, v : Binding(e, v)
      BY <2>1 DEF IInv, DevInv, Owned, Binding
    <2>4. Nobody \notin Vector /\ Nobody \notin Dev /\ Kernel \notin Dev
      BY <2>3, VectorNumbers
    <2>5. dev[d].msg = Nobody
      BY <2>2, <2>3 DEF MessageOwned
    <2>6. RoutesOf(d) = {}
      BY <2>2, <2>3, <2>4 DEF RouteOwned, RoutesOf, Dynamic, DevTypes
    <2>7. \A v \in Vector : handler[v] # d
      BY <2>2, <2>3, <2>4 DEF HandlerOwned
    <2> QED BY <2>2, <2>5, <2>6, <2>7
  <1> QED BY <1>1, DevicesInvariant, PTL

-----------------------------------------------------------------------------
(* Where messages go *)

\* The firmware lists the boot CPU first, on a machine that has PCI functions.
BootCpuFirst(fw) ==
    PciFunctions(fw) # <<>> => Cpus(Table(fw, "APIC"), fw.bsp)[1].apic_id = fw.bsp

\* What discovery made of the machine, as far as messages are concerned.
FoundInv ==
    /\ machine \in DOMAIN Machines
    /\ Dev # {} => PciFunctions(Fw) # <<>> /\ platform.cpus = Cpus(Table(Fw, "APIC"), Fw.bsp)

LEMMA FoundStep ==
    ASSUME FoundInv, [Next]_vars
    PROVE  FoundInv'
  <1>1. CASE UNCHANGED found
    BY <1>1 DEF found, FoundInv, Dev, Fw
  <1>2. CASE PlatformDiscover
    <2>1. /\ machine' = machine /\ platform' = Platform(Fw, source) /\ pci' = PciDevices(Fw, platform')
      BY <1>2 DEF PlatformDiscover, DevicesFound
    <2>2. platform'.cpus = Cpus(Table(Fw, "APIC"), Fw.bsp)
      BY <2>1 DEF Platform
    <2>3. Dev' = 1..Len(PciFunctions(Fw))
      BY <2>1 DEF Dev, PciDevices
    <2>4. PciFunctions(Fw) = <<>> => Dev' = {}
      BY <2>3
    <2>5. Fw' = Fw
      BY <2>1 DEF Fw
    <2> QED BY <2>1, <2>2, <2>4, <2>5 DEF FoundInv
  <1>3. CASE DeviceSteps /\ ~PlatformDiscover
    <2>1. CASE InitializeInterrupts \/ InitializeIpi \/ PrepareLapic
      BY <1>1, <2>1, Zenon DEF InitializeInterrupts, InitializeIpi, PrepareLapic
    <2>2. CASE ProbeAll \/ \E d \in Dev : RemoveVirtio(d) \/ RemoveXhci(d) \/ RemoveResources(d)
      BY <1>1, <2>2, Zenon DEF ProbeAll, RemoveVirtio, RemoveXhci, RemoveResources
    <2>3. CASE ProbeStep
      BY <1>1, <2>3, Zenon DEF ProbeStep, NextDevice, BindTransport, NegotiateFeatures,
            ClaimController, AllocateBuffer, EnableMsix, EnableMsi, EnableIntx, TakeVector,
            ModeUnavailable, NoInterrupt, RouteMessage, RouteLine, RouteFails,
            QueueVectorRefused, StartBlk, StartNet, StartXhci
    <2> QED BY <1>3, <2>1, <2>2, <2>3, Zenon DEF DeviceSteps
  <1>4. CASE UNCHANGED devices
    BY <1>1, <1>4 DEF devices
  <1> QED BY <1>2, <1>3, <1>4, DeviceEffects

\* Where the firmware lists the boot CPU first, a message-signalled interrupt reaches the
\* boot CPU and the handler of the device that sent it, from the moment the device is
\* programmed to after its removal.
THEOREM MessagesReachOwner ==
    ASSUME \A m \in DOMAIN Machines : BootCpuFirst(Machines[m])
    PROVE  Spec => []MessageReachesOwner
  <1>1. Init => FoundInv
    <2> SUFFICES ASSUME Init PROVE FoundInv
      OBVIOUS
    <2>1. machine \in DOMAIN Machines /\ pci = <<>>
      BY DEF Init, DevicesInit
    <2>2. Dev = {}
      BY <2>1 DEF Dev
    <2> QED BY <2>1, <2>2 DEF FoundInv
  <1>2. FoundInv /\ [Next]_vars => FoundInv'
    BY FoundStep
  <1>3. FoundInv /\ MessageHandled => MessageReachesOwner
    <2> SUFFICES ASSUME FoundInv, MessageHandled PROVE MessageReachesOwner
      OBVIOUS
    <2>1. Dev # {} => bsp_apic_id = Fw.bsp
      BY DEF FoundInv, BootCpuFirst, bsp_apic_id, Fw
    <2> QED BY <2>1, Zenon DEF MessageHandled, MessageReachesOwner
  <1>4. IInv => MessageHandled
    BY MessagesHandled DEF IInv
  <1> QED BY <1>1, <1>2, <1>3, <1>4, DevicesInvariant, PTL DEF Spec

=============================================================================
