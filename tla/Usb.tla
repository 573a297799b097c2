--------------------------------- MODULE Usb ---------------------------------
(***************************************************************************)
(* The xHCI driver (drivers/usb/xhci.cpp, xhci_controller.cpp) from a      *)
(* running controller on: port enumeration in kernel_main, which submits   *)
(* one command or control transfer after the other and polls the event     *)
(* ring for its completion, and the interrupt handler, which serves the    *)
(* same event ring on the same CPU and re-arms the HID devices' interrupt  *)
(* transfers.  Nothing keeps the handler out of the polling code: it runs  *)
(* whole between two steps of it, also inside dequeue_event_trb.  The      *)
(* controller answers when it likes, or not before the time-out.           *)
(*                                                                         *)
(* TRBs are addressed by ring and index, as the driver recognises them.    *)
(* Once the driver has given a request up, its TRB and its completion are  *)
(* marked late, to tell them from a later request at the same address.     *)
(***************************************************************************)
EXTENDS Integers, Sequences

CONSTANTS
    Ports,          \* capability.max_ports, all connected
    MaxHid,         \* kXhciMaxHidDevices
    EventRing,      \* TRBs of the event ring
    CommandRing,    \* TRBs of the command ring, without the link TRB
    TransferRing,   \* TRBs of a transfer ring, without the link TRB
    Pages,          \* DMA memory: devices whose buffers fit
    MaxReports,     \* bound: reports the HID devices send
    MaxTimeouts     \* bound: waits that run out

ASSUME UsbAssumption ==
    /\ {Ports, MaxHid, EventRing, CommandRing, TransferRing, Pages} \subseteq Nat \ {0}
    /\ MaxReports \in Nat /\ MaxTimeouts \in Nat /\ MaxTimeouts < CommandRing

Hid == 1..MaxHid
Page == 1..Pages
None == 0

NoTrb == [ring |-> "none", page |-> None, index |-> 0]

VARIABLES
    pc,         \* where enumerate_ports is
    port, op,   \* the port, and the request of initialize_hid_port under way
    me,         \* its entry of hid_devices
    command,    \* pending_command_*; next: command_ring.enqueue_index
    hid,        \* hid_devices
    event,      \* event_ring: dequeue index and cycle
    peeked,     \* service_events: index, cycle bit and TRB read, consumed_event
    ring,       \* the event ring's TRBs; producer and ERDP are the controller's
    producer, erdp,
    work,       \* TRBs the controller has been given and has not completed
    halted,     \* pages of the devices whose interrupt endpoint has halted
    free,       \* pages not allocated
    reports, timeouts,
    abandoned,  \* a wait ran out on a request the controller still holds
    reused,     \* buffers were given to a device while an abandoned TRB names them
    reentered,  \* the handler has taken an event inside dequeue_event_trb
    unread,     \* events written and not taken off the ring
    strayCommand, strayTransfer     \* a result was taken from another request's event

driver == <<pc, port, op, me, command, hid, event, peeked, free>>
hardware == <<ring, producer, erdp, work, halted, reports>>
ghosts == <<timeouts, abandoned, reused, reentered, unread, strayCommand, strayTransfer>>
vars == <<driver, hardware, ghosts>>

NoHid == [present |-> FALSE, page |-> None, control |-> 0, interrupt |-> 0,
          sync |-> NoTrb, done |-> FALSE, ok |-> FALSE, late |-> FALSE, configured |-> FALSE,
          armed |-> NoTrb]

NoEvent == [trb |-> NoTrb, ok |-> FALSE, late |-> FALSE]
NoPeek == [at |-> 0, cycle |-> FALSE, ev |-> NoEvent, consumed |-> FALSE]

Init ==
    /\ pc = "port" /\ port = 0 /\ op = 0 /\ me = None
    /\ command = [trb |-> NoTrb, done |-> FALSE, ok |-> FALSE, next |-> 0, late |-> FALSE]
    /\ hid = [h \in Hid |-> NoHid]
    /\ event = [index |-> 0, cycle |-> TRUE] /\ peeked = NoPeek
    /\ ring = [i \in 0..(EventRing - 1) |-> [cycle |-> FALSE, ev |-> NoEvent]]
    /\ producer = [index |-> 0, cycle |-> TRUE] /\ erdp = 0
    /\ work = {} /\ halted = {} /\ free = Page /\ reports = 0 /\ timeouts = 0
    /\ abandoned = FALSE /\ reused = FALSE /\ reentered = FALSE /\ unread = 0
    /\ strayCommand = FALSE /\ strayTransfer = FALSE

\* The requests initialize_hid_port makes, in order.
EnableSlot == "enable"
AddressDevice == "address"
GetDescriptor == <<"device", "header", "config">>
SetConfiguration == "set"
ConfigureInterruptEndpoint == "endpoint"
SetBootProtocol == "protocol"

Requests ==
    <<EnableSlot, AddressDevice>> \o GetDescriptor \o
    <<SetConfiguration, ConfigureInterruptEndpoint, SetBootProtocol>>

IsCommand(o) == Requests[o] \in {EnableSlot, AddressDevice, ConfigureInterruptEndpoint}

\* parse_hid_boot_configuration: an interrupt-in endpoint that follows the interface
\* descriptor of a boot keyboard or mouse, with nothing malformed before it.
ParsesHid(ds) ==
    \E i \in DOMAIN ds, j \in DOMAIN ds :
        /\ j < i /\ ds[j] = "boot interface" /\ ds[i] = "interrupt in"
        /\ \A k \in 1..i : ds[k] # "malformed"
        /\ \A k \in (j + 1)..(i - 1) :
               ds[k] \notin {"boot interface", "other interface", "configuration"}

\* Configurations devices have: a keyboard, a disk, one with a bad length.
Configurations ==
    {<<"configuration", "boot interface", "hid", "interrupt in">>,
     <<"configuration", "boot interface", "bulk", "other interface", "interrupt in">>,
     <<"configuration", "malformed", "boot interface", "interrupt in">>}

\* What a successful answer may still be refused for: no slot or another slot, a short
\* descriptor or a length out of range, a configuration that is of no use.
Refused(o) ==
    CASE Requests[o] = "config" -> {~ParsesHid(ds) : ds \in Configurations}
      [] Requests[o] \in {SetConfiguration, SetBootProtocol} -> {FALSE}
      [] OTHER -> BOOLEAN

CommandTrb(i) == [ring |-> "command", page |-> None, index |-> i]
PortEvent(p) == [ring |-> "port", page |-> None, index |-> p]
ReportTrb(p, i) == [ring |-> "interrupt", page |-> p, index |-> i]

\* submit_control_transfer: the stages before the last, as one TRB, and the status
\* stage, which the driver waits for.
StageTrb(p, i) == [ring |-> "control", page |-> p, index |-> i]
StatusTrb(p, i) == [ring |-> "control", page |-> p, index |-> (i + 1) % TransferRing]

\* enqueue_command_trb: the index wraps at the link TRB.
Enqueued(i, size) == (i + 1) % size

\* ring.index after the increment; the cycle bit flips at the end of the ring.
Advanced(r, i) ==
    IF i + 1 = EventRing THEN [index |-> 0, cycle |-> ~r.cycle]
                         ELSE [index |-> i + 1, cycle |-> r.cycle]

-----------------------------------------------------------------------------
(* The controller *)

Running == pc \notin {"stopped", "skewed"}

\* In the order the TRBs of a ring were given to it: an abandoned one first.
Completable(w) ==
    w.late \/ ~\E v \in work : v.trb.ring = w.trb.ring /\ v.trb.page = w.trb.page /\ v.late

RingFull == Advanced(producer, producer.index).index = erdp

WriteEvent(ev) ==
    /\ ring' = [ring EXCEPT ![producer.index] = [cycle |-> producer.cycle, ev |-> ev]]
    /\ producer' = Advanced(producer, producer.index)
    /\ unread' = unread + 1

\* A TRB is completed, well or not; an interrupt transfer by a report.  A control
\* transfer that fails names the stage it failed in, and ends there.  An interrupt
\* transfer that fails halts its endpoint: no later TRB of it is executed.
Complete ==
    /\ Running /\ ~RingFull
    /\ \E w \in work, ok \in BOOLEAN, early \in BOOLEAN :
          /\ Completable(w)
          /\ early => ~ok /\ w.trb.ring = "control"
          /\ w.trb.ring = "port" => ok
          /\ w.trb.ring = "interrupt" => reports < MaxReports /\ w.trb.page \notin halted
          /\ halted' = IF w.trb.ring = "interrupt" /\ ~ok THEN halted \cup {w.trb.page} ELSE halted
          /\ reports' = reports + (IF w.trb.ring = "interrupt" THEN 1 ELSE 0)
          /\ work' = work \ {w}
          /\ WriteEvent([trb |-> IF early THEN w.stage ELSE w.trb, ok |-> ok, late |-> w.late])
    /\ UNCHANGED <<driver, erdp, timeouts, abandoned, reused, reentered, strayCommand, strayTransfer>>

-----------------------------------------------------------------------------
(* service_events: what one event does *)

\* State an event changes, as a record, so that the handler can apply several.
Now == [command |-> command, hid |-> hid, work |-> work]

\* Mutant: any command completion is the pending one's.
ProcessCommand_AnyTrb(s, ev) ==
    IF s.command.trb = NoTrb THEN s
    ELSE [s EXCEPT !.command.trb = NoTrb, !.command.done = TRUE, !.command.ok = ev.ok,
                   !.command.late = ev.late]

\* process_command_event
ProcessCommand(s, ev) ==
    IF s.command.trb # ev.trb THEN s
    ELSE [s EXCEPT !.command.trb = NoTrb, !.command.done = TRUE, !.command.ok = ev.ok,
                   !.command.late = ev.late]

Given(stage, trb) == [stage |-> stage, trb |-> trb, late |-> FALSE]

\* arm_interrupt_transfer
Armed(s, h) ==
    LET x == s.hid[h]
        t == ReportTrb(x.page, x.interrupt)
    IN  [s EXCEPT !.hid[h].armed = t,
                  !.hid[h].interrupt = Enqueued(@, TransferRing),
                  !.work = @ \cup {Given(t, t)}]

\* Mutant: a transfer that failed is not armed again.
Rearmed_OnlyIfOk(s, h, ok) ==
    LET t == [s EXCEPT !.hid[h].armed = NoTrb] IN IF ok THEN Armed(t, h) ELSE t

\* The report of device h is consumed and the transfer is armed again.
Rearmed(s, h, ok) == Armed([s EXCEPT !.hid[h].armed = NoTrb], h)

\* Mutant: a device that waits takes any control completion.
Knows_AnyTrb(x, ev) ==
    x.present /\ (\/ x.sync # NoTrb /\ ev.trb.ring = "control"
                  \/ ev.trb \in {x.sync, x.armed})

Knows(x, ev) == x.present /\ ev.trb \in {x.sync, x.armed}

\* process_transfer_event: the first device that knows the TRB takes the event.
ProcessTransfer(s, ev) ==
    LET known == {h \in Hid : Knows(s.hid[h], ev)}
    IN  IF known = {} THEN s
        ELSE LET h == CHOOSE g \in known : \A k \in known : g <= k IN
             IF s.hid[h].armed # ev.trb
             THEN [s EXCEPT !.hid[h].sync = NoTrb, !.hid[h].done = TRUE, !.hid[h].ok = ev.ok,
                            !.hid[h].late = ev.late]
             ELSE Rearmed(s, h, ev.ok)

\* The switch of service_events.  A port status change only clears the port's bits.
Processed(s, ev) ==
    CASE ev.trb.ring = "command" -> ProcessCommand(s, ev)
      [] ev.trb.ring = "port" -> s
      [] OTHER -> ProcessTransfer(s, ev)

Apply(s) == command' = s.command /\ hid' = s.hid /\ work' = s.work

\* dequeue_event_trb finds an event: the index is in the ring and the TRB's cycle bit
\* is the ring's.
HasEvent(e) == e.index < EventRing /\ ring[e.index].cycle = e.cycle
Ready == HasEvent(event)

\* The loop of service_events, undisturbed: n turns, as many as there are events.
Served[n \in 0..EventRing] ==
    IF n = 0 THEN [s |-> Now, e |-> event, n |-> 0]
    ELSE LET x == Served[n - 1] IN
         IF ~HasEvent(x.e) THEN x
         ELSE [s |-> Processed(x.s, ring[x.e.index].ev), e |-> Advanced(x.e, x.e.index),
               n |-> x.n + 1]

\* Where the polling code has read the ring or begun to wrap, and is not done.  (Past
\* the increment and before the wrap the index is right, or out of the ring.)
Dequeuing == {"look", "dequeue", "flip"}

\* acknowledge_interrupt
Acknowledged(e) == e.index

\* xhci_irq: all events are processed, then ERDP is written.  Inside the polling
\* code's dequeue_event_trb it uses the index and the cycle as they stand.
Irq ==
    /\ Running /\ Ready
    /\ LET x == Served[EventRing] IN
       /\ Apply(x.s) /\ event' = x.e /\ erdp' = Acknowledged(x.e) /\ unread' = unread - x.n
    /\ reentered' = (reentered \/ pc \in Dequeuing)
    /\ UNCHANGED <<pc, port, op, me, peeked, free, ring, producer, halted, reports>>
    /\ UNCHANGED <<timeouts, abandoned, reused, strayCommand, strayTransfer>>

-----------------------------------------------------------------------------
(* initialize_hid_port *)

\* release_hid_device: the buffers are freed; the slot stays enabled.
ReleaseHid(h) ==
    /\ hid' = [hid EXCEPT ![h] = NoHid]
    /\ free' = free \cup ({hid[h].page} \ {None})

Quit == pc' = "port" /\ op' = 0 /\ me' = None

\* reset_port: the port comes up, or not in time; either may be reported as a change.
ResetPort(p) ==
    /\ \/ pc' = "submit" /\ op' = 1
       \/ UNCHANGED <<pc, op>>
    /\ work' = work \cup {Given(PortEvent(p), PortEvent(p))}

\* enumerate_ports: the next port; the end.
NextPort ==
    /\ pc = "port" /\ port < Ports
    /\ port' = port + 1 /\ ResetPort(port')
    /\ UNCHANGED <<me, command, hid, event, peeked, free, ring, producer, erdp, halted, reports, ghosts>>

Enumerated ==
    /\ pc = "port" /\ port = Ports /\ pc' = "idle"
    /\ UNCHANGED <<port, op, me, command, hid, event, peeked, free, hardware, ghosts>>

\* submit_command: the TRB is queued, remembered, and the doorbell rung.
SubmitCommand ==
    /\ pc = "submit" /\ IsCommand(op)
    /\ LET t == CommandTrb(command.next) IN
       /\ command' = [trb |-> t, done |-> FALSE, ok |-> FALSE, late |-> FALSE,
                      next |-> Enqueued(command.next, CommandRing)]
       /\ work' = work \cup {Given(t, t)}
    /\ pc' = "poll"
    /\ UNCHANGED <<port, op, me, hid, event, peeked, free, ring, producer, erdp, halted, reports, ghosts>>

\* submit_control_transfer: the TRB with interrupt-on-completion is the status stage.
SubmitTransfer ==
    /\ pc = "submit" /\ ~IsCommand(op)
    /\ LET x == hid[me]
           t == StatusTrb(x.page, x.control)
       IN /\ hid' = [hid EXCEPT ![me] = [x EXCEPT !.sync = t, !.done = FALSE, !.ok = FALSE,
                                         !.late = FALSE,
                                         !.control = Enqueued(Enqueued(@, TransferRing), TransferRing)]]
          /\ work' = work \cup {Given(StageTrb(x.page, x.control), t)}
    /\ pc' = "poll"
    /\ UNCHANGED <<port, op, me, command, event, peeked, free, ring, producer, erdp, halted, reports, ghosts>>

\* service_events in the wait: dequeue_event_trb reads the cycle bit of the TRB ...
Look ==
    /\ pc = "poll" /\ pc' = "look"
    /\ peeked' = [peeked EXCEPT !.at = event.index, !.cycle = ring[event.index].cycle]
    /\ UNCHANGED <<port, op, me, command, hid, event, free, hardware, ghosts>>

\* ... compares it with the ring's: there is no event ...
Empty ==
    /\ pc = "look" /\ peeked.cycle # event.cycle
    /\ pc' = IF peeked.consumed THEN "ack" ELSE "check"
    /\ peeked' = [NoPeek EXCEPT !.consumed = peeked.consumed]
    /\ reentered' = FALSE
    /\ UNCHANGED <<port, op, me, command, hid, event, free, hardware>>
    /\ UNCHANGED <<timeouts, abandoned, reused, unread, strayCommand, strayTransfer>>

\* ... or there is one, which is read ...
Peek ==
    /\ pc = "look" /\ peeked.cycle = event.cycle /\ pc' = "dequeue"
    /\ peeked' = [peeked EXCEPT !.ev = ring[peeked.at].ev, !.consumed = TRUE]
    /\ UNCHANGED <<port, op, me, command, hid, event, free, hardware, ghosts>>

\* The rest of the call, if the handler has taken no event during it.  If it has, an
\* event is processed twice or skipped, or a lap of the ring is read again, and the
\* index and the cycle stay wrong: the model ends there.
Undisturbed(next) == pc' = IF reentered THEN "skewed" ELSE next

\* ... the index is incremented; it is not volatile, and the value incremented may be
\* the one read before or the one in memory ...
Incremented == {peeked.at + 1, event.index + 1}

Increment ==
    /\ pc = "dequeue" /\ Undisturbed("wrap")
    /\ \E i \in Incremented : event' = [event EXCEPT !.index = i]
    /\ unread' = unread - 1
    /\ UNCHANGED <<port, op, me, command, hid, peeked, free, hardware>>
    /\ UNCHANGED <<timeouts, abandoned, reused, reentered, strayCommand, strayTransfer>>

\* ... set to 0 at the end of the ring ...
Wrap ==
    /\ pc = "wrap"
    /\ IF event.index = EventRing
       THEN event' = [event EXCEPT !.index = 0] /\ pc' = "flip"
       ELSE event' = event /\ pc' = "process"
    /\ UNCHANGED <<port, op, me, command, hid, peeked, free, hardware, ghosts>>

\* Mutant: the cycle bit is not flipped at the end of the ring.
Flip_Forgotten ==
    /\ pc = "flip" /\ Undisturbed("process")
    /\ UNCHANGED <<port, op, me, command, hid, event, peeked, free, hardware, ghosts>>

\* ... where the cycle bit flips, and the call returns.
Flip ==
    /\ pc = "flip" /\ Undisturbed("process")
    /\ event' = [event EXCEPT !.cycle = ~@]
    /\ UNCHANGED <<port, op, me, command, hid, peeked, free, hardware, ghosts>>

\* The event is processed.
Process ==
    /\ pc = "process" /\ pc' = "poll"
    /\ Apply(Processed(Now, peeked.ev))
    /\ peeked' = [NoPeek EXCEPT !.consumed = TRUE]
    /\ UNCHANGED <<port, op, me, event, free, ring, producer, erdp, halted, reports, ghosts>>

\* No more events, after some: ERDP is written.
Acknowledge ==
    /\ pc = "ack" /\ pc' = "check"
    /\ erdp' = Acknowledged(event) /\ peeked' = NoPeek
    /\ UNCHANGED <<port, op, me, command, hid, event, free, ring, producer, work, halted, reports, ghosts>>

\* Mutant: the wait's result is not looked at.
Done_NoWait == TRUE

Done == IF IsCommand(op) THEN command.done ELSE hid[me].done

\* The request under way has failed.
GiveUp ==
    /\ Quit
    /\ IF me = None THEN UNCHANGED <<hid, free>> ELSE ReleaseHid(me)

\* allocate_hid_device, allocate_hid_device_resources: the first free entry and
\* buffers anywhere.
FirstFree(s) == CHOOSE x \in s : \A y \in s : x <= y
LatePages ==
    {w.trb.page : w \in {v \in work : v.late}} \cup {ring[i].ev.trb.page : i \in {j \in DOMAIN ring : ring[j].ev.late}}
Entry == {h \in Hid : ~hid[h].present}

AllocateHid ==
    IF Entry = {} \/ free = {} THEN Quit /\ UNCHANGED <<hid, free, reused>>
    ELSE \E p \in free :
         /\ reused' = (reused \/ p \in LatePages)
         /\ me' = FirstFree(Entry) /\ free' = free \ {p}
         /\ hid' = [hid EXCEPT ![me'] = [NoHid EXCEPT !.present = TRUE, !.page = p]]
         /\ pc' = "submit" /\ op' = op + 1

\* The result of the request: wait_for_command_completion or
\* wait_for_transfer_completion has seen it.
TakeCommand ==
    /\ command' = [command EXCEPT !.done = FALSE]
    /\ strayCommand' = (strayCommand \/ command.late) /\ UNCHANGED strayTransfer

TakeTransfer ==
    strayTransfer' = (strayTransfer \/ hid[me].late) /\ UNCHANGED <<command, strayCommand>>

\* The next request of the port, or its end.
Succeed ==
    IF Requests[op] = EnableSlot THEN AllocateHid
    ELSE /\ IF op < Len(Requests) THEN pc' = "submit" /\ op' = op + 1
                                 ELSE pc' = "arm" /\ op' = op
         /\ UNCHANGED <<me, hid, free, reused>>

\* initialize_hid_port, once a request is answered.
Answered ==
    /\ pc = "check" /\ Done
    /\ IF IsCommand(op) THEN TakeCommand ELSE TakeTransfer
    /\ \E refused \in Refused(op) :
          IF refused \/ ~(IF IsCommand(op) THEN command.ok ELSE hid[me].ok)
          THEN GiveUp /\ UNCHANGED reused
          ELSE Succeed
    /\ UNCHANGED <<port, event, peeked, hardware, timeouts, abandoned, reentered, unread>>

\* The wait goes on, or runs out.
Again ==
    /\ pc = "check" /\ ~Done /\ pc' = "poll"
    /\ UNCHANGED <<port, op, me, command, hid, event, peeked, free, hardware, ghosts>>

\* Of the request under way, in the controller or on the ring.
Pending(trb) == trb = IF IsCommand(op) THEN command.trb ELSE hid[me].sync
Late(x) == IF Pending(x.trb) THEN [x EXCEPT !.late = TRUE] ELSE x

TimeOut ==
    /\ pc = "check" /\ ~Done /\ timeouts < MaxTimeouts
    /\ timeouts' = timeouts + 1
    /\ abandoned' = \/ abandoned
                    \/ \E w \in work : Pending(w.trb)
                    \/ Ready
    /\ work' = {Late(w) : w \in work}
    /\ ring' = [i \in DOMAIN ring |-> [ring[i] EXCEPT !.ev = Late(@)]]
    /\ command' = IF IsCommand(op) THEN [command EXCEPT !.trb = NoTrb] ELSE command
    /\ GiveUp
    /\ UNCHANGED <<port, event, peeked, producer, erdp, halted, reports, reused, reentered, unread, strayCommand, strayTransfer>>

\* device->configured = true; the first interrupt transfer.
Configure ==
    /\ pc = "arm"
    /\ LET s == Armed([Now EXCEPT !.hid[me].configured = TRUE], me) IN Apply(s)
    /\ Quit
    /\ UNCHANGED <<port, event, peeked, free, ring, producer, erdp, halted, reports, ghosts>>

\* release_controller: the controller is stopped, or does not stop in time; then
\* everything is freed.
Remove ==
    /\ pc = "idle" /\ pc' = "stopped"
    /\ \/ work' = {} /\ abandoned' = abandoned
       \/ work' = work /\ abandoned' = TRUE
    /\ hid' = [h \in Hid |-> NoHid]
    /\ free' = free \cup ({hid[h].page : h \in Hid} \ {None})
    /\ UNCHANGED <<port, op, me, command, event, peeked, ring, producer, erdp, halted, reports>>
    /\ UNCHANGED <<timeouts, reused, reentered, unread, strayCommand, strayTransfer>>

DequeueEvent == Look \/ Empty \/ Peek \/ Increment \/ Wrap \/ Flip

Enumerate ==
    \/ NextPort \/ Enumerated \/ SubmitCommand \/ SubmitTransfer \/ DequeueEvent \/ Process
    \/ Acknowledge \/ Answered \/ Again \/ TimeOut \/ Configure

Finished == ~Running /\ UNCHANGED vars

Next == Enumerate \/ Irq \/ Complete \/ Remove \/ Finished

Spec == Init /\ [][Next]_vars

-----------------------------------------------------------------------------
(* Properties *)

TypeOK ==
    /\ port \in 0..Ports /\ op \in 0..Len(Requests) /\ me \in Hid \cup {None}
    /\ event.index \in 0..(EventRing - 1) /\ producer.index \in 0..(EventRing - 1)
    /\ \A h \in Hid : hid[h].page \in Page \cup {None} /\ hid[h].control \in 0..(TransferRing - 1)
    /\ free \subseteq Page

\* A command's result is never that of another command, also when one has timed out
\* and is answered late: the driver knows a completion by its TRB's address
\* (process_command_event).  Not so once the event index is wrong (EachEventOnce).
CommandResultOwn == ~reentered => ~strayCommand

\* The same for control transfers, unless an abandoned one's ring was freed and given
\* to the next device, at the same addresses (release_hid_device,
\* process_transfer_event).
TransferResultOwn == ~reentered /\ ~reused => ~strayTransfer

\* Every event the controller wrote is processed exactly once, also when the ring
\* wraps and when the handler and the polling code take turns, unless the handler takes
\* an event at one of three places inside the polling code's dequeue_event_trb: after the
\* read of the cycle bit, before the increment of the index, and at the end of the ring
\* between index = 0 and the flip of the cycle bit, where it reads the last lap again.
\* Until that flip the two do not agree, and nothing is claimed.
EachEventOnce ==
    ~reentered /\ pc # "flip" =>
        LET x == Served[EventRing] IN
        event.index < EventRing => unread = x.n /\ x.e = producer

\* Events written and not taken off the ring.
Unread == {ring[(event.index + k) % EventRing].ev : k \in 0..(unread - 1)}

\* Interrupt transfers of the device with page p that are not over: with the controller,
\* on the event ring, or read and not processed.
Outstanding(p) ==
    {t \in {w.trb : w \in work} \cup {e.trb : e \in Unread \cup {peeked.ev}} :
        t.ring = "interrupt" /\ t.page = p}

\* A configured device has exactly one interrupt transfer outstanding, the one it
\* remembers: never none, after which no event would arm the next, and never two, which
\* would share its one report buffer (process_transfer_event, arm_interrupt_transfer).
\* This is all the driver does for a transfer that failed: it arms the next on an
\* endpoint that has halted, and the device is not heard of again.
StaysArmed ==
    ~reentered /\ Running =>
        \A h \in Hid : hid[h].configured => Outstanding(hid[h].page) = {hid[h].armed}

\* Unless a request was abandoned, the controller holds no TRB of a device whose
\* buffers were freed (release_hid_device).
FreedBuffersIdle ==
    ~reentered /\ ~abandoned => \A w \in work : w.trb.page \notin free

=============================================================================
