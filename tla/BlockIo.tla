------------------------------- MODULE BlockIo -------------------------------
(***************************************************************************)
(* A block request from submit to the return of block_request_wait: the    *)
(* virtio-blk request slots and interrupt handler                          *)
(* (drivers/block/virtio_blk.cpp), the split virtqueue                     *)
(* (drivers/virtio/virtqueue.cpp), the completion and its wait queue       *)
(* (sync/wait_queue.cpp) and the waiting loop (storage/block_device.cpp).  *)
(*                                                                         *)
(* One thread issues the requests, and it and the queue interrupt are both *)
(* on the boot CPU: the handler runs whole between two steps of the thread *)
(* (inIrq), the timer may switch the thread away, and the device answers   *)
(* in any order.  Before the scheduler runs (booting) submit polls the     *)
(* queue itself, with the interrupt on; afterwards the thread sleeps.      *)
(***************************************************************************)
EXTENDS Integers, FiniteSets

CONSTANTS
    Req,        \* BlockRequest objects, on their caller's stack; they are reused
    Slots,      \* state.request_slot_count
    Ring,       \* state.queue.size: entries of the avail and used rings
    IdxMod,     \* 2^16: the ring indices are uint16_t and wrap
    None

ASSUME BlockIoAssumption ==
    /\ Slots \in Nat \ {0} /\ Ring \in Nat /\ Slots <= Ring
    /\ IdxMod \in Nat /\ IdxMod > Ring /\ IdxMod % Ring = 0 /\ None \notin Req

Slot == 0..(Slots - 1)
Index == 0..(IdxMod - 1)

VARIABLES
    active,     \* VirtioBlkRequestSlot::active
    mask,       \* slots whose bits are set in descriptor_in_use_mask
    request,    \* VirtioBlkRequestSlot::request
    header,     \* the request a slot's descriptors and header were written for
    filled,     \* the request the device answered into a slot's buffer, or None
    ok,         \* a slot's status byte is kVirtioStatusOk
    avail, availIdx, used, usedIdx,     \* the shared rings
    devIdx,     \* the device's own index into the avail ring
    inDevice,   \* slots whose chain the device is working on
    lastUsed,   \* queue.last_used_idx
    irq,        \* the queue interrupt is pending
    inIrq,      \* the CPU is in virtio_blk_irq
    done,       \* request.completion.done
    status,     \* request.status
    buffer,     \* the request whose data is in the caller's buffer
    linked,     \* requests whose completion has the thread on its wait queue
    booting,    \* current_thread()->process is null: no scheduler yet
    tstate,     \* Thread::state
    onCpu,      \* the thread is current_thread()
    pc,         \* where the thread is
    cur,        \* the request it works on
    elem        \* the used element a poll has read, and the index it read it at

slots == <<active, mask, request, header>>
device == <<filled, ok, used, usedIdx, devIdx, inDevice>>
requests == <<done, status, buffer, linked>>
thread == <<booting, tstate, onCpu, pc, cur, elem>>
vars == <<slots, device, avail, availIdx, lastUsed, irq, inIrq, requests, thread>>

Init ==
    /\ active = [s \in Slot |-> FALSE] /\ mask = {}
    /\ request = [s \in Slot |-> None] /\ header = [s \in Slot |-> None]
    /\ filled = [s \in Slot |-> None] /\ ok = [s \in Slot |-> FALSE]
    /\ avail = [i \in 0..(Ring - 1) |-> 0] /\ availIdx = 0
    /\ used = [i \in 0..(Ring - 1) |-> 0] /\ usedIdx = 0
    /\ devIdx = 0 /\ inDevice = {} /\ lastUsed = 0
    /\ irq = FALSE /\ inIrq = FALSE
    /\ done = [r \in Req |-> FALSE] /\ status = [r \in Req |-> "Pending"]
    /\ buffer = [r \in Req |-> None] /\ linked = {}
    /\ booting = TRUE
    /\ tstate = "Running" /\ onCpu = TRUE
    /\ pc = "run" /\ cur = None /\ elem = [slot |-> 0, at |-> 0]

\* The thread executes: it is current and no interrupt handler is running.
Executes(where) == pc = where /\ onCpu /\ ~inIrq

Outstanding(r) == \E s \in Slot : request[s] = r

-----------------------------------------------------------------------------
\* virtio_blk_acquire_request_slot: the first slot that is free.
FreeSlots == {s \in Slot : ~active[s] /\ s \notin mask}
FirstFree(s) == s \in FreeSlots /\ \A t \in FreeSlots : s <= t

\* virtio_blk_submit_request: fill the slot and its descriptors and put the
\* chain on the avail ring.  While booting, submit itself then polls.
Submit(r) ==
    /\ Executes("run") /\ ~Outstanding(r) /\ ~done[r]
    /\ \E s \in Slot :
          /\ FirstFree(s)
          /\ active' = [active EXCEPT ![s] = TRUE]
          /\ mask' = mask \cup {s}
          /\ request' = [request EXCEPT ![s] = r]
          /\ header' = [header EXCEPT ![s] = r]
          /\ filled' = [filled EXCEPT ![s] = None]
          /\ ok' = [ok EXCEPT ![s] = FALSE]
          /\ avail' = [avail EXCEPT ![availIdx % Ring] = s]
    /\ availIdx' = (availIdx + 1) % IdxMod
    /\ done' = [done EXCEPT ![r] = FALSE]
    /\ status' = [status EXCEPT ![r] = "Pending"]
    /\ buffer' = [buffer EXCEPT ![r] = None]
    /\ cur' = IF booting THEN r ELSE None
    /\ pc' = IF booting THEN "drain" ELSE "run"
    /\ UNCHANGED <<used, usedIdx, devIdx, inDevice, lastUsed, irq, inIrq, linked,
                   booting, tstate, onCpu, elem>>

\* No slot: virtio_blk_fail_immediately, and submit_sync_request naps before it
\* tries again with a new request.
SubmitBusy(r) ==
    /\ Executes("run") /\ ~Outstanding(r) /\ ~done[r] /\ FreeSlots = {}
    /\ pc' = "nap"
    /\ UNCHANGED <<slots, device, avail, availIdx, lastUsed, irq, inIrq, requests,
                   booting, tstate, onCpu, cur, elem>>

\* The caller has seen how request r ended, and drops it.
Gone(r) ==
    /\ done' = [done EXCEPT ![r] = FALSE]
    /\ status' = [status EXCEPT ![r] = "Pending"]
    /\ buffer' = [buffer EXCEPT ![r] = None]
    /\ cur' = None

\* block_request_wait: the loop condition ...
Wait(r) ==
    /\ Executes("run") /\ ~booting
    /\ Outstanding(r) \/ done[r]
    /\ cur' = r
    /\ pc' = "wait"
    /\ UNCHANGED <<slots, device, avail, availIdx, lastUsed, irq, inIrq, requests,
                   booting, tstate, onCpu, elem>>

WaitTest ==
    /\ Executes("wait") /\ ~done[cur]
    /\ pc' = IF tstate = "Blocked" /\ cur \in linked THEN "relax" ELSE "block"
    /\ UNCHANGED <<slots, device, avail, availIdx, lastUsed, irq, inIrq, requests,
                   booting, tstate, onCpu, cur, elem>>

\* ... whose end is the end of the request object ...
WaitReturn ==
    /\ Executes("wait") /\ done[cur]
    /\ Gone(cur)
    /\ pc' = "run"
    /\ UNCHANGED <<slots, device, avail, availIdx, lastUsed, irq, inIrq, linked,
                   booting, tstate, onCpu, elem>>

\* Mutant: done is not looked at again under the lock.
WaitBlockUnchecked ==
    /\ Executes("block")
    /\ tstate' = "Blocked" /\ linked' = linked \cup {cur}
    /\ pc' = "relax"
    /\ UNCHANGED <<slots, device, avail, availIdx, lastUsed, irq, inIrq, done, status, buffer,
                   booting, onCpu, cur, elem>>

\* ... block_current_thread, which looks at done again under the queue's lock ...
WaitBlock ==
    /\ Executes("block")
    /\ IF done[cur]
       THEN UNCHANGED <<tstate, linked>>
       ELSE tstate' = "Blocked" /\ linked' = linked \cup {cur}
    /\ pc' = "relax"
    /\ UNCHANGED <<slots, device, avail, availIdx, lastUsed, irq, inIrq, done, status, buffer,
                   booting, onCpu, cur, elem>>

\* ... and relax_block_wait: hlt until any interrupt.
WaitRelax ==
    /\ Executes("relax")
    /\ pc' = IF done[cur] THEN "wait" ELSE "halt"
    /\ UNCHANGED <<slots, device, avail, availIdx, lastUsed, irq, inIrq, requests,
                   booting, tstate, onCpu, cur, elem>>

\* Mutant: hlt is entered with interrupts masked.
ResumedNever == pc' = CASE  pc = "nap" -> "run" [] OTHER -> pc

\* An interrupt ends hlt.
Resumed == pc' = CASE pc = "halt" -> "wait" [] pc = "nap" -> "run" [] OTHER -> pc

-----------------------------------------------------------------------------
\* completion_signal: done, then wake every thread on the wait queue.  One step: in the
\* handler nothing else runs on this CPU between the two, and the boot-time poll has
\* no waiter.
Signal(r) ==
    /\ done' = [done EXCEPT ![r] = TRUE]
    /\ linked' = linked \ {r}
    /\ tstate' = IF r \notin linked THEN tstate ELSE IF onCpu THEN "Running" ELSE "Ready"

\* Mutant: the data is not copied to the caller.
CompleteUncopied(s) ==
    IF ~active[s] \/ request[s] = None
    THEN UNCHANGED <<active, mask, request, requests, tstate>>
    ELSE LET r == request[s] IN
         /\ buffer' = buffer
         /\ active' = [active EXCEPT ![s] = FALSE]
         /\ mask' = mask \ {s}
         /\ request' = [request EXCEPT ![s] = None]
         /\ status' = [status EXCEPT ![r] = IF ok[s] THEN "Success" ELSE "DeviceError"]
         /\ Signal(r)

\* One round of virtio_blk_drain_used for the used element of slot s.
Complete(s) ==
    IF ~active[s] \/ request[s] = None
    THEN UNCHANGED <<active, mask, request, requests, tstate>>
    ELSE LET r == request[s] IN
         /\ buffer' = [buffer EXCEPT ![r] = IF ok[s] THEN filled[s] ELSE @]
         /\ active' = [active EXCEPT ![s] = FALSE]
         /\ mask' = mask \ {s}
         /\ request' = [request EXCEPT ![s] = None]
         /\ status' = [status EXCEPT ![r] = IF ok[s] THEN "Success" ELSE "DeviceError"]
         /\ Signal(r)

\* virtio_blk_irq
IrqEnter ==
    /\ irq /\ ~inIrq
    /\ irq' = FALSE /\ inIrq' = TRUE
    /\ Resumed
    /\ UNCHANGED <<slots, device, avail, availIdx, lastUsed, requests,
                   booting, tstate, onCpu, cur, elem>>

\* virtqueue_consume_used
IrqConsume ==
    /\ inIrq /\ usedIdx # lastUsed
    /\ lastUsed' = (lastUsed + 1) % IdxMod
    /\ Complete(used[lastUsed % Ring])
    /\ UNCHANGED <<header, device, avail, availIdx, irq, inIrq, booting, onCpu, pc, cur, elem>>

IrqLeave ==
    /\ inIrq /\ usedIdx = lastUsed
    /\ inIrq' = FALSE
    /\ UNCHANGED <<slots, device, avail, availIdx, lastUsed, irq, requests, thread>>

-----------------------------------------------------------------------------
\* virtio_blk_wait_for_boot_completion drains the queue with interrupts on: an
\* interrupt may come between reading a used element ...
PollRead ==
    /\ Executes("drain") /\ usedIdx # lastUsed
    /\ elem' = [slot |-> used[lastUsed % Ring], at |-> lastUsed]
    /\ pc' = "handle"
    /\ UNCHANGED <<slots, device, avail, availIdx, lastUsed, irq, inIrq, requests,
                   booting, tstate, onCpu, cur>>

\* ... and advancing last_used_idx, which the build may load again or not.
PollHandle ==
    /\ Executes("handle")
    /\ \E i \in {elem.at, lastUsed} : lastUsed' = (i + 1) % IdxMod
    /\ Complete(elem.slot)
    /\ elem' = [slot |-> 0, at |-> 0]
    /\ pc' = "drain"
    /\ UNCHANGED <<header, device, avail, availIdx, irq, inIrq, booting, onCpu, cur>>

\* Completed, or spin once more: submit returns with the request done ...
PollDone ==
    /\ Executes("drain") /\ usedIdx = lastUsed /\ done[cur]
    /\ Gone(cur)
    /\ pc' = "run"
    /\ UNCHANGED <<slots, device, avail, availIdx, lastUsed, irq, inIrq, linked,
                   booting, tstate, onCpu, elem>>

\* Mutant: a timed-out request stays in its slot.
PollTimeoutKeepsSlot ==
    /\ Executes("drain") /\ usedIdx = lastUsed /\ ~done[cur]
    /\ LET mine == {s \in Slot : FALSE} IN
          /\ active' = [s \in Slot |-> active[s] /\ s \notin mine]
          /\ mask' = mask \ mine
          /\ request' = [s \in Slot |-> IF s \in mine THEN None ELSE request[s]]
    /\ done' = [done EXCEPT ![cur] = TRUE]
    /\ status' = [status EXCEPT ![cur] = "Timeout"]
    /\ pc' = "stopped"
    /\ UNCHANGED <<header, device, avail, availIdx, lastUsed, irq, inIrq, buffer, linked,
                   booting, tstate, onCpu, cur, elem>>

\* Mutant: after a timeout boot goes on.
PollTimeoutContinues ==
    /\ Executes("drain") /\ usedIdx = lastUsed /\ ~done[cur]
    /\ LET mine == {s \in Slot : active[s] /\ request[s] = cur} IN
          /\ active' = [s \in Slot |-> active[s] /\ s \notin mine]
          /\ mask' = mask \ mine
          /\ request' = [s \in Slot |-> IF s \in mine THEN None ELSE request[s]]
    /\ Gone(cur)
    /\ pc' = "run"
    /\ UNCHANGED <<header, device, avail, availIdx, lastUsed, irq, inIrq, linked,
                   booting, tstate, onCpu, elem>>

\* ... or the spin limit is reached: the slot is taken back, the request fails
\* and kernel_main gives up.
PollTimeout ==
    /\ Executes("drain") /\ usedIdx = lastUsed /\ ~done[cur]
    /\ LET mine == {s \in Slot : active[s] /\ request[s] = cur} IN
          /\ active' = [s \in Slot |-> active[s] /\ s \notin mine]
          /\ mask' = mask \ mine
          /\ request' = [s \in Slot |-> IF s \in mine THEN None ELSE request[s]]
    /\ done' = [done EXCEPT ![cur] = TRUE]
    /\ status' = [status EXCEPT ![cur] = "Timeout"]
    /\ pc' = "stopped"
    /\ UNCHANGED <<header, device, avail, availIdx, lastUsed, irq, inIrq, buffer, linked,
                   booting, tstate, onCpu, cur, elem>>

\* kernel_main starts the scheduler; the boot-sequence thread carries on.
StartScheduler ==
    /\ Executes("run") /\ booting
    /\ booting' = FALSE
    /\ UNCHANGED <<slots, device, avail, availIdx, lastUsed, irq, inIrq, requests,
                   tstate, onCpu, pc, cur, elem>>

-----------------------------------------------------------------------------
\* The timer: schedule_next(true) leaves a thread that is not Running.
Tick ==
    /\ onCpu /\ ~inIrq /\ ~booting
    /\ onCpu' = (tstate = "Running")
    /\ Resumed
    /\ UNCHANGED <<slots, device, avail, availIdx, lastUsed, irq, inIrq, requests,
                   booting, tstate, cur, elem>>

\* The woken thread is dispatched again.
Dispatch ==
    /\ ~onCpu /\ ~inIrq /\ tstate = "Ready"
    /\ onCpu' = TRUE
    /\ tstate' = "Running"
    /\ UNCHANGED <<slots, device, avail, availIdx, lastUsed, irq, inIrq, requests,
                   booting, pc, cur, elem>>

\* The device takes a chain from the avail ring ...
DeviceTake ==
    /\ devIdx # availIdx
    /\ inDevice' = inDevice \cup {avail[devIdx % Ring]}
    /\ devIdx' = (devIdx + 1) % IdxMod
    /\ UNCHANGED <<slots, filled, ok, used, usedIdx, avail, availIdx, lastUsed, irq, inIrq,
                   requests, thread>>

\* ... and answers it, in any order, with or without an error.
DeviceAnswer(s) ==
    /\ s \in inDevice
    /\ inDevice' = inDevice \ {s}
    /\ \E good \in BOOLEAN :
          /\ ok' = [ok EXCEPT ![s] = good]
          /\ filled' = [filled EXCEPT ![s] = IF good THEN header[s] ELSE @]
    /\ used' = [used EXCEPT ![usedIdx % Ring] = s]
    /\ usedIdx' = (usedIdx + 1) % IdxMod
    /\ irq' = TRUE
    /\ UNCHANGED <<slots, devIdx, avail, availIdx, lastUsed, inIrq, requests, thread>>

Caller == \E r \in Req : Submit(r) \/ SubmitBusy(r) \/ Wait(r)
Thread ==
    \/ WaitTest \/ WaitReturn \/ WaitBlock \/ WaitRelax
    \/ PollRead \/ PollHandle \/ PollDone \/ PollTimeout
Irq == IrqEnter \/ IrqConsume \/ IrqLeave
Device == DeviceTake \/ \E s \in Slot : DeviceAnswer(s)

\* After a timeout kernel_main has returned: nothing more is submitted.
Stopped == pc = "stopped" /\ UNCHANGED vars

Next == Caller \/ Thread \/ StartScheduler \/ Irq \/ Tick \/ Dispatch \/ Device \/ Stopped

Spec == Init /\ [][Next]_vars

\* The thread runs while it is current, interrupts are taken and leave, the
\* timer ticks, a ready thread is dispatched and the device answers.
Fairness ==
    /\ WF_vars(Thread) /\ WF_vars(Irq) /\ SF_vars(Tick) /\ WF_vars(Dispatch)
    /\ WF_vars(DeviceTake) /\ \A s \in Slot : WF_vars(DeviceAnswer(s))

FairSpec == Spec /\ Fairness

-----------------------------------------------------------------------------
\* The slots, rings, requests and the thread have their types.
TypeOK ==
    /\ active \in [Slot -> BOOLEAN] /\ mask \subseteq Slot
    /\ request \in [Slot -> Req \cup {None}] /\ header \in [Slot -> Req \cup {None}]
    /\ filled \in [Slot -> Req \cup {None}] /\ ok \in [Slot -> BOOLEAN]
    /\ avail \in [0..(Ring - 1) -> Slot] /\ used \in [0..(Ring - 1) -> Slot]
    /\ {availIdx, usedIdx, devIdx, lastUsed} \subseteq Index
    /\ inDevice \subseteq Slot
    /\ {irq, inIrq, booting, onCpu} \subseteq BOOLEAN
    /\ done \in [Req -> BOOLEAN]
    /\ status \in [Req -> {"Pending", "Success", "DeviceError", "Timeout"}]
    /\ buffer \in [Req -> Req \cup {None}]
    /\ linked \subseteq Req
    /\ tstate \in {"Running", "Blocked", "Ready"}
    /\ pc \in {"run", "nap", "wait", "block", "relax", "halt", "drain", "handle", "stopped"}
    /\ cur \in Req \cup {None}
    /\ elem \in [slot : Slot, at : Index]

\* A request that ends in Success has the answer to that very request in its
\* caller's buffer, however completions, polls and reused slots interleave.
SuccessIsOwnData == \A r \in Req : done[r] /\ status[r] = "Success" => buffer[r] = r

\* A request object lives on its caller's stack: from the moment its caller may
\* return from waiting for it, no slot refers to it.
NoDanglingRequest == \A r \in Req : done[r] => ~Outstanding(r)

\* A slot is handed out only when its last chain is back from the device.
SlotBackBeforeReuse ==
    [][\A s \in Slot : ~active[s] /\ active'[s] =>
          /\ s \notin inDevice
          /\ devIdx = availIdx \/ \A i \in Index :
                (i - devIdx) % IdxMod < (availIdx - devIdx) % IdxMod => avail[i % Ring] # s]_vars

\* Waiting for a request ends, when the device answers.
WaitEnds == pc = "wait" ~> pc = "run"
=============================================================================
