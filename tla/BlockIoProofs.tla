---------------------------- MODULE BlockIoProofs ----------------------------
(***************************************************************************)
(* Proofs about BlockIo, for any number of requests and slots and any ring *)
(* and index size: a request that succeeds has its own data, none is       *)
(* referred to after its caller may have dropped it, and a slot is handed  *)
(* out again only when its chain is back from the device.                  *)
(***************************************************************************)
EXTENDS BlockIo, TLAPS

\* A request is in one slot, which is active and was filled in for it; what the
\* device has answered there with success is the answer to it.  SuccessIsOwnData and
\* NoDanglingRequest are about the end of a request; these two about the way there.
OneSlot ==
    \A s, t \in Slot : request[s] # None /\ request[s] = request[t] => s = t

SlotIsRequests ==
    \A s \in Slot : request[s] # None =>
        /\ active[s] /\ header[s] = request[s]
        /\ ok[s] => filled[s] = request[s]

\* A thread that waits or polls does so for a request.
CurIsSet == pc \notin {"run", "nap", "stopped"} => cur \in Req

IInv ==
    TypeOK /\ CurIsSet /\ OneSlot /\ SlotIsRequests /\ SuccessIsOwnData /\ NoDanglingRequest

-----------------------------------------------------------------------------
\* A remainder is below the divisor: ring positions and advanced indices.
LEMMA RemainderRange ==
    ASSUME NEW i \in Nat, NEW n \in Nat \ {0}
    PROVE  i % n \in 0..(n - 1)
  OBVIOUS

\* The ring entry an index selects, and the index after it.
LEMMA RingFacts ==
    ASSUME NEW i \in Index
    PROVE  i % Ring \in 0..(Ring - 1) /\ (i + 1) % IdxMod \in Index
  <1>1. i \in Nat /\ Ring \in Nat \ {0} /\ IdxMod \in Nat \ {0}
    BY BlockIoAssumption DEF Index
  <1>2. i % Ring \in 0..(Ring - 1)
    BY <1>1, RemainderRange
  <1>3. (i + 1) % IdxMod \in 0..(IdxMod - 1)
    BY <1>1, RemainderRange
  <1> QED BY <1>2, <1>3 DEF Index

\* A step that touches neither slots, answers nor requests keeps what IInv says of
\* them.
LEMMA Elsewhere ==
    ASSUME IInv, TypeOK', CurIsSet', UNCHANGED <<slots, filled, ok, done, status, buffer>>
    PROVE  IInv'
  <1>1. /\ active' = active /\ request' = request /\ header' = header
        /\ filled' = filled /\ ok' = ok
        /\ done' = done /\ status' = status /\ buffer' = buffer
    BY DEF slots
  <1>2. OneSlot' /\ SlotIsRequests'
    BY <1>1 DEF IInv, OneSlot, SlotIsRequests
  <1>3. SuccessIsOwnData' /\ NoDanglingRequest'
    BY <1>1 DEF IInv, SuccessIsOwnData, NoDanglingRequest, Outstanding
  <1> QED BY <1>2, <1>3 DEF IInv

\* The caller drops a request that is over.
LEMMA GoneInv ==
    ASSUME IInv, TypeOK', CurIsSet', Gone(cur), UNCHANGED <<slots, filled, ok>>
    PROVE  IInv'
  <1>1. /\ active' = active /\ request' = request /\ header' = header
        /\ filled' = filled /\ ok' = ok
    BY DEF slots
  <1>2. /\ \A r \in Req : done'[r] => done[r] /\ r # cur
        /\ \A r \in Req \ {cur} : status'[r] = status[r] /\ buffer'[r] = buffer[r]
    BY DEF Gone, IInv, TypeOK
  <1>3. OneSlot' /\ SlotIsRequests'
    BY <1>1 DEF IInv, OneSlot, SlotIsRequests
  <1>4. SuccessIsOwnData' /\ NoDanglingRequest'
    BY <1>1, <1>2 DEF IInv, SuccessIsOwnData, NoDanglingRequest, Outstanding
  <1> QED BY <1>3, <1>4 DEF IInv

\* One round of virtio_blk_drain_used keeps types and invariant, whichever slot the
\* used element names: the slot of a request, a free one, or one that was taken back.
LEMMA CompleteInv ==
    ASSUME IInv, NEW s \in Slot, Complete(s), UNCHANGED <<header, filled, ok>>
    PROVE  /\ active' \in [Slot -> BOOLEAN] /\ mask' \subseteq Slot
           /\ request' \in [Slot -> Req \cup {None}]
           /\ done' \in [Req -> BOOLEAN]
           /\ status' \in [Req -> {"Pending", "Success", "DeviceError", "Timeout"}]
           /\ buffer' \in [Req -> Req \cup {None}]
           /\ linked' \subseteq Req
           /\ tstate' \in {"Running", "Blocked", "Ready"}
           /\ OneSlot' /\ SlotIsRequests' /\ SuccessIsOwnData' /\ NoDanglingRequest'
  <1>1. CASE ~active[s] \/ request[s] = None
    <2>1. UNCHANGED <<active, mask, request, done, status, buffer, linked, tstate>>
      BY <1>1 DEF Complete, requests
    <2> QED BY <2>1 DEF IInv, TypeOK, OneSlot, SlotIsRequests, SuccessIsOwnData,
               NoDanglingRequest, Outstanding
  <1>2. CASE active[s] /\ request[s] # None
    <2> DEFINE r == request[s]
    <2>1. r \in Req
      BY <1>2 DEF IInv, TypeOK
    <2>2. /\ buffer' = [buffer EXCEPT ![r] = IF ok[s] THEN filled[s] ELSE @]
          /\ active' = [active EXCEPT ![s] = FALSE]
          /\ mask' = mask \ {s}
          /\ request' = [request EXCEPT ![s] = None]
          /\ status' = [status EXCEPT ![r] = IF ok[s] THEN "Success" ELSE "DeviceError"]
          /\ done' = [done EXCEPT ![r] = TRUE]
          /\ linked' = linked \ {r}
          /\ tstate' \in {tstate, "Running", "Ready"}
      BY <1>2 DEF Complete, Signal
    <2>3. /\ active' \in [Slot -> BOOLEAN] /\ mask' \subseteq Slot
          /\ request' \in [Slot -> Req \cup {None}]
          /\ done' \in [Req -> BOOLEAN]
          /\ status' \in [Req -> {"Pending", "Success", "DeviceError", "Timeout"}]
          /\ buffer' \in [Req -> Req \cup {None}]
          /\ linked' \subseteq Req
          /\ tstate' \in {"Running", "Blocked", "Ready"}
      BY <2>1, <2>2 DEF IInv, TypeOK
    <2>4. /\ request'[s] = None
          /\ \A t \in Slot \ {s} : request'[t] = request[t] /\ active'[t] = active[t]
      BY <2>2 DEF IInv, TypeOK
    <2>5. OneSlot' /\ SlotIsRequests'
      BY <2>4 DEF IInv, OneSlot, SlotIsRequests
    <2>6. \A t \in Slot : request'[t] # r
      BY <1>2, <2>4 DEF IInv, OneSlot
    <2>7. \A q \in Req \ {r} : done'[q] = done[q] /\ status'[q] = status[q] /\ buffer'[q] = buffer[q]
      BY <2>1, <2>2 DEF IInv, TypeOK
    <2>8. NoDanglingRequest'
      BY <2>1, <2>4, <2>6, <2>7, BlockIoAssumption DEF IInv, NoDanglingRequest, Outstanding
    <2>9. status'[r] = "Success" => buffer'[r] = r
      BY <1>2, <2>1, <2>2 DEF IInv, TypeOK, SlotIsRequests
    <2>10. SuccessIsOwnData'
      BY <2>7, <2>9 DEF IInv, SuccessIsOwnData
    <2> QED BY <2>3, <2>5, <2>8, <2>10
  <1> QED BY <1>1, <1>2 DEF IInv, TypeOK

-----------------------------------------------------------------------------
\* IInv holds at the start.
LEMMA InitInv == Init => IInv
  <1> SUFFICES ASSUME Init PROVE IInv
    OBVIOUS
  <1>1. 0 \in Slot /\ 0 \in Index
    BY BlockIoAssumption DEF Slot, Index
  <1>2. TypeOK
    BY <1>1, Zenon DEF Init, TypeOK
  <1>3. CurIsSet /\ OneSlot /\ SlotIsRequests
    BY DEF Init, CurIsSet, OneSlot, SlotIsRequests
  <1>4. SuccessIsOwnData /\ NoDanglingRequest
    BY DEF Init, SuccessIsOwnData, NoDanglingRequest
  <1> QED BY <1>2, <1>3, <1>4 DEF IInv

\* Submit puts a request that is in no slot and not over into a slot nobody has.
LEMMA SubmitInv == ASSUME IInv, NEW r \in Req, Submit(r) PROVE IInv'
  <1>1. PICK s \in Slot :
          /\ FirstFree(s)
          /\ active' = [active EXCEPT ![s] = TRUE]
          /\ mask' = mask \cup {s}
          /\ request' = [request EXCEPT ![s] = r]
          /\ header' = [header EXCEPT ![s] = r]
          /\ filled' = [filled EXCEPT ![s] = None]
          /\ ok' = [ok EXCEPT ![s] = FALSE]
          /\ avail' = [avail EXCEPT ![availIdx % Ring] = s]
    BY Zenon DEF Submit
  <1>2. availIdx' \in Index
    BY RingFacts DEF Submit, IInv, TypeOK
  <1>a. /\ active' \in [Slot -> BOOLEAN] /\ mask' \subseteq Slot
        /\ request' \in [Slot -> Req \cup {None}] /\ header' \in [Slot -> Req \cup {None}]
        /\ filled' \in [Slot -> Req \cup {None}] /\ ok' \in [Slot -> BOOLEAN]
        /\ avail' \in [0..(Ring - 1) -> Slot]
    BY <1>1, Zenon DEF IInv, TypeOK
  <1>b. /\ done' \in [Req -> BOOLEAN]
        /\ status' \in [Req -> {"Pending", "Success", "DeviceError", "Timeout"}]
        /\ buffer' \in [Req -> Req \cup {None}]
    BY DEF Submit, IInv, TypeOK
  <1>3. TypeOK'
    BY <1>2, <1>a, <1>b DEF Submit, IInv, TypeOK
  <1>4. CurIsSet'
    BY DEF Submit, CurIsSet, IInv, TypeOK
  <1>5. /\ request'[s] = r /\ active'[s] = TRUE /\ header'[s] = r /\ ok'[s] = FALSE
        /\ \A t \in Slot \ {s} :
              /\ request'[t] = request[t] /\ active'[t] = active[t]
              /\ header'[t] = header[t] /\ ok'[t] = ok[t] /\ filled'[t] = filled[t]
    BY <1>1 DEF IInv, TypeOK
  <1>6. \A t \in Slot : request[t] # r
    BY DEF Submit, Outstanding
  <1>7. OneSlot'
    BY <1>5, <1>6 DEF IInv, OneSlot
  <1>8. SlotIsRequests'
    BY <1>5 DEF IInv, SlotIsRequests
  <1>9. /\ ~done'[r]
        /\ \A q \in Req \ {r} :
              done'[q] = done[q] /\ status'[q] = status[q] /\ buffer'[q] = buffer[q]
    BY DEF Submit, IInv, TypeOK
  <1>10. SuccessIsOwnData'
    BY <1>9 DEF IInv, SuccessIsOwnData
  <1>11. NoDanglingRequest'
    BY <1>5, <1>9 DEF IInv, NoDanglingRequest, Outstanding
  <1> QED BY <1>3, <1>4, <1>7, <1>8, <1>10, <1>11 DEF IInv

\* The steps of the caller and the waiting thread that complete nothing.
LEMMA WaitInv ==
    ASSUME IInv,
           \/ \E r \in Req : SubmitBusy(r) \/ Wait(r)
           \/ WaitTest \/ WaitReturn \/ WaitBlock \/ WaitRelax
    PROVE  IInv'
  <1>1. ASSUME NEW r \in Req, SubmitBusy(r) PROVE IInv'
    BY <1>1, Elsewhere DEF SubmitBusy, requests, slots, device, IInv, TypeOK, CurIsSet
  <1>2. ASSUME NEW r \in Req, Wait(r) PROVE IInv'
    BY <1>2, Elsewhere DEF Wait, requests, slots, device, IInv, TypeOK, CurIsSet
  <1>3. CASE WaitTest
    BY <1>3, Elsewhere DEF WaitTest, Executes, requests, slots, device, IInv, TypeOK, CurIsSet
  <1>4. CASE WaitReturn
    <2>1. TypeOK' /\ CurIsSet'
      BY <1>4, Zenon DEF WaitReturn, Gone, slots, device, IInv, TypeOK, CurIsSet
    <2> QED BY <1>4, <2>1, GoneInv DEF WaitReturn, device
  <1>5. CASE WaitBlock
    BY <1>5, Elsewhere DEF WaitBlock, Executes, slots, device, IInv, TypeOK, CurIsSet
  <1>6. CASE WaitRelax
    BY <1>6, Elsewhere DEF WaitRelax, Executes, requests, slots, device, IInv, TypeOK, CurIsSet
  <1> QED BY <1>1, <1>2, <1>3, <1>4, <1>5, <1>6

\* The interrupt handler.
LEMMA IrqInv == ASSUME IInv, Irq PROVE IInv'
  <1>1. CASE IrqEnter
    BY <1>1, Elsewhere, Zenon DEF IrqEnter, Resumed, requests, slots, device, IInv, TypeOK, CurIsSet
  <1>2. CASE IrqConsume
    <2> DEFINE s == used[lastUsed % Ring]
    <2>1. lastUsed \in Index /\ used \in [0..(Ring - 1) -> Slot]
      BY DEF IInv, TypeOK
    <2>2. s \in Slot /\ lastUsed' \in Index
      BY <1>2, <2>1, RingFacts DEF IrqConsume
    <2>3. Complete(s) /\ UNCHANGED <<header, filled, ok>>
      BY <1>2 DEF IrqConsume, device
    <2> HIDE DEF s
    <2>4. /\ active' \in [Slot -> BOOLEAN] /\ mask' \subseteq Slot
          /\ request' \in [Slot -> Req \cup {None}]
          /\ done' \in [Req -> BOOLEAN]
          /\ status' \in [Req -> {"Pending", "Success", "DeviceError", "Timeout"}]
          /\ buffer' \in [Req -> Req \cup {None}]
          /\ linked' \subseteq Req
          /\ tstate' \in {"Running", "Blocked", "Ready"}
          /\ OneSlot' /\ SlotIsRequests' /\ SuccessIsOwnData' /\ NoDanglingRequest'
      BY <2>2, <2>3, CompleteInv
    <2>5. TypeOK' /\ CurIsSet'
      BY <1>2, <2>2, <2>4 DEF IrqConsume, device, IInv, TypeOK, CurIsSet
    <2> QED BY <2>4, <2>5 DEF IInv
  <1>3. CASE IrqLeave
    BY <1>3, Elsewhere, Zenon DEF IrqLeave, requests, slots, device, thread, IInv, TypeOK, CurIsSet
  <1> QED BY <1>1, <1>2, <1>3 DEF Irq

\* The poll.  PollHandle completes the slot it read some time ago; the interrupt may
\* have completed it since, and then the slot is free and nothing happens.
LEMMA PollInv ==
    ASSUME IInv, PollRead \/ PollHandle \/ PollDone \/ PollTimeout PROVE IInv'
  <1>1. CASE PollRead
    <2>1. lastUsed \in Index /\ used \in [0..(Ring - 1) -> Slot]
      BY DEF IInv, TypeOK
    <2>2. elem' \in [slot : Slot, at : Index]
      BY <1>1, <2>1, RingFacts DEF PollRead
    <2> QED BY <1>1, <2>2, Elsewhere
            DEF PollRead, Executes, requests, slots, device, IInv, TypeOK, CurIsSet
  <1>2. CASE PollHandle
    <2>1. elem.slot \in Slot /\ elem.at \in Index /\ lastUsed \in Index
      BY DEF IInv, TypeOK
    <2>2. lastUsed' \in Index
      BY <1>2, <2>1, RingFacts DEF PollHandle
    <2>3. elem' \in [slot : Slot, at : Index]
      BY <1>2, BlockIoAssumption DEF PollHandle, Slot, Index
    <2>4. Complete(elem.slot) /\ UNCHANGED <<header, filled, ok>>
      BY <1>2 DEF PollHandle, device
    <2>5. /\ active' \in [Slot -> BOOLEAN] /\ mask' \subseteq Slot
          /\ request' \in [Slot -> Req \cup {None}]
          /\ done' \in [Req -> BOOLEAN]
          /\ status' \in [Req -> {"Pending", "Success", "DeviceError", "Timeout"}]
          /\ buffer' \in [Req -> Req \cup {None}]
          /\ linked' \subseteq Req
          /\ tstate' \in {"Running", "Blocked", "Ready"}
          /\ OneSlot' /\ SlotIsRequests' /\ SuccessIsOwnData' /\ NoDanglingRequest'
      BY <2>1, <2>4, CompleteInv
    <2>6. TypeOK' /\ CurIsSet'
      BY <1>2, <2>2, <2>3, <2>5 DEF PollHandle, Executes, device, IInv, TypeOK, CurIsSet
    <2> QED BY <2>5, <2>6 DEF IInv
  <1>3. CASE PollDone
    <2>1. TypeOK' /\ CurIsSet'
      BY <1>3, Zenon DEF PollDone, Gone, slots, device, IInv, TypeOK, CurIsSet
    <2> QED BY <1>3, <2>1, GoneInv DEF PollDone, device
  <1>4. CASE PollTimeout
    <2>1. cur \in Req
      BY <1>4 DEF PollTimeout, Executes, IInv, CurIsSet
    <2>2. /\ active' \in [Slot -> BOOLEAN] /\ mask' \subseteq Slot
          /\ request' \in [Slot -> Req \cup {None}]
          /\ done' \in [Req -> BOOLEAN]
          /\ status' \in [Req -> {"Pending", "Success", "DeviceError", "Timeout"}]
      BY <1>4, ZenonT(40) DEF PollTimeout, IInv, TypeOK
    <2>3. TypeOK' /\ CurIsSet'
      BY <1>4, <2>2 DEF PollTimeout, device, IInv, TypeOK, CurIsSet
    <2>4. \A s \in Slot : \/ request'[s] = None
                          \/ request[s] # cur /\ request'[s] = request[s] /\ active'[s] = active[s]
      BY <1>4, <2>1, BlockIoAssumption DEF PollTimeout, IInv, TypeOK, SlotIsRequests
    <2>5. header' = header /\ ok' = ok /\ filled' = filled
      BY <1>4 DEF PollTimeout, device
    <2>6. OneSlot' /\ SlotIsRequests'
      BY <2>4, <2>5 DEF IInv, OneSlot, SlotIsRequests
    <2>7. /\ status'[cur] = "Timeout"
          /\ \A q \in Req : buffer'[q] = buffer[q]
          /\ \A q \in Req \ {cur} : done'[q] = done[q] /\ status'[q] = status[q]
      BY <1>4, <2>1 DEF PollTimeout, IInv, TypeOK
    <2>8. SuccessIsOwnData'
      BY <2>7 DEF IInv, SuccessIsOwnData
    <2>9. NoDanglingRequest'
      BY <2>4, <2>7, BlockIoAssumption DEF IInv, NoDanglingRequest, Outstanding
    <2> QED BY <2>3, <2>6, <2>8, <2>9 DEF IInv
  <1> QED BY <1>1, <1>2, <1>3, <1>4

\* The device answers what a slot's header says, also when the slot was taken back.
LEMMA DeviceInv == ASSUME IInv, Device PROVE IInv'
  <1>1. CASE DeviceTake
    <2>1. devIdx \in Index /\ avail \in [0..(Ring - 1) -> Slot]
      BY DEF IInv, TypeOK
    <2>2. inDevice' \subseteq Slot /\ devIdx' \in Index
      BY <1>1, <2>1, RingFacts DEF DeviceTake, IInv, TypeOK
    <2> QED BY <1>1, <2>2, Elsewhere
            DEF DeviceTake, requests, slots, thread, IInv, TypeOK, CurIsSet
  <1>2. ASSUME NEW s \in Slot, DeviceAnswer(s) PROVE IInv'
    <2>1. PICK good \in BOOLEAN :
            /\ ok' = [ok EXCEPT ![s] = good]
            /\ filled' = [filled EXCEPT ![s] = IF good THEN header[s] ELSE @]
      BY <1>2, Zenon DEF DeviceAnswer
    <2>2. usedIdx' \in Index
      BY <1>2, RingFacts DEF DeviceAnswer, IInv, TypeOK
    <2>3. /\ filled' \in [Slot -> Req \cup {None}] /\ ok' \in [Slot -> BOOLEAN]
          /\ used' \in [0..(Ring - 1) -> Slot] /\ inDevice' \subseteq Slot
      BY <1>2, <2>1, Zenon DEF DeviceAnswer, IInv, TypeOK
    <2>4. /\ active' = active /\ request' = request /\ header' = header
          /\ done' = done /\ status' = status /\ buffer' = buffer
      BY <1>2 DEF DeviceAnswer, slots, requests
    <2>5. TypeOK' /\ CurIsSet'
      BY <1>2, <2>2, <2>3 DEF DeviceAnswer, slots, requests, thread, IInv, TypeOK, CurIsSet
    <2>6. OneSlot' /\ SuccessIsOwnData' /\ NoDanglingRequest'
      BY <2>4 DEF IInv, OneSlot, SuccessIsOwnData, NoDanglingRequest, Outstanding
    <2>7. /\ ok'[s] => filled'[s] = header[s]
          /\ \A t \in Slot \ {s} : ok'[t] = ok[t] /\ filled'[t] = filled[t]
      BY <2>1 DEF IInv, TypeOK
    <2>8. SlotIsRequests'
      BY <2>4, <2>7 DEF IInv, SlotIsRequests
    <2> QED BY <2>5, <2>6, <2>8 DEF IInv
  <1> QED BY <1>1, <1>2 DEF Device

\* Every step keeps IInv.
LEMMA NextInv == IInv /\ [Next]_vars => IInv'
  <1> SUFFICES ASSUME IInv, [Next]_vars PROVE IInv'
    OBVIOUS
  <1>1. CASE Caller
    BY <1>1, SubmitInv, WaitInv DEF Caller
  <1>2. CASE Thread
    BY <1>2, WaitInv, PollInv DEF Thread
  <1>3. CASE StartScheduler
    BY <1>3, Elsewhere, Zenon DEF StartScheduler, requests, slots, device, IInv, TypeOK, CurIsSet
  <1>4. CASE Irq
    BY <1>4, IrqInv
  <1>5. CASE Tick
    BY <1>5, Elsewhere DEF Tick, Resumed, requests, slots, device, IInv, TypeOK, CurIsSet
  <1>6. CASE Dispatch
    BY <1>6, Elsewhere DEF Dispatch, requests, slots, device, IInv, TypeOK, CurIsSet
  <1>7. CASE Device
    BY <1>7, DeviceInv
  <1>8. CASE UNCHANGED vars
    BY <1>8, Elsewhere DEF vars, requests, slots, device, thread, IInv, TypeOK, CurIsSet
  <1> QED BY <1>1, <1>2, <1>3, <1>4, <1>5, <1>6, <1>7, <1>8 DEF Next, Stopped

\* IInv holds at every moment.
LEMMA Invariant == Spec => []IInv
  BY InitInv, NextInv, PTL DEF Spec

\* A request that ends in Success has its own data in its caller's buffer, for any
\* number of requests and slots and any ring: neither the interrupt that completes a
\* slot between the two halves of a poll, nor an answer that arrives for a slot taken
\* back on a timeout, delivers another request's data.
THEOREM OwnData == Spec => []SuccessIsOwnData
  <1>1. IInv => SuccessIsOwnData
    BY DEF IInv
  <1> QED BY <1>1, Invariant, PTL

\* Once a caller may drop a request, completed or timed out, the driver has no
\* pointer to it left in any slot.
THEOREM NoDangling == Spec => []NoDanglingRequest
  <1>1. IInv => NoDanglingRequest
    BY DEF IInv
  <1> QED BY <1>1, Invariant, PTL
-----------------------------------------------------------------------------
(* A slot is handed out only when its chain is back *)

\* How far ring index b is ahead of ring index a.
Ahead(a, b) == (b - a) % IdxMod

\* The slots of the chains the device has not taken yet, and of the answers the driver
\* has not consumed yet, oldest first.
Offered(k) == avail[(devIdx + k) % Ring]
Answered(k) == used[(lastUsed + k) % Ring]
Offers == 0..(Ahead(devIdx, availIdx) - 1)
Answers == 0..(Ahead(lastUsed, usedIdx) - 1)

\* A chain with the device, not taken yet or taken, is that of an active slot, which
\* has no other.
ChainInv ==
    /\ \A k \in Offers : active[Offered(k)] /\ Offered(k) \notin inDevice
    /\ \A j, k \in Offers : Offered(j) = Offered(k) => j = k
    /\ \A s \in inDevice : active[s]

\* So is an answer.
AnswerInv ==
    /\ \A k \in Answers : active[Answered(k)] /\ Answered(k) \notin inDevice
    /\ \A j, k \in Answers : Answered(j) = Answered(k) => j = k
    /\ \A j \in Offers, k \in Answers : Offered(j) # Answered(k)

\* While the boot poll runs, last_used_idx may go wrong, because the interrupt consumes
\* the element the poll has read.  Then the one request is done and no slot is active.
Polling == booting /\ pc \in {"drain", "handle"}
Astray == Polling /\ \A s \in Slot : ~active[s]

SlotInv ==
    /\ \A s \in Slot : active[s] => request[s] # None
    /\ pc \in {"drain", "handle"} => booting
    /\ booting => \A s \in Slot : active[s] => Polling /\ request[s] = cur
    /\ ChainInv /\ (AnswerInv \/ Astray)
    /\ pc = "handle" /\ ~Astray =>
          usedIdx # lastUsed /\ elem.at = lastUsed /\ elem.slot = Answered(0)

\* The remainder is the only one.
LEMMA RemainderUnique ==
    ASSUME NEW n \in Nat \ {0}, NEW x \in Int, NEW q \in Int, NEW r \in 0..(n - 1),
           x = q * n + r
    PROVE  x % n = r
  <1>1. PICK p \in Int, t \in 0..(n - 1) : x = p * n + t /\ x % n = t
    <2>1. x % n \in 0..(n - 1) /\ x \div n \in Int /\ x = (x \div n) * n + (x % n)
      OBVIOUS
    <2> QED BY <2>1, Zenon
  <1>2. (p - q) * n = r - t
    BY <1>1
  <1>3. p = q
    <2>1. CASE p - q >= 1
      <3>1. (p - q) * n >= n
        BY <1>1, <2>1
      <3> QED BY <1>1, <1>2, <3>1
    <2>2. CASE q - p >= 1
      <3>1. (q - p) * n >= n /\ (q - p) * n = t - r
        BY <1>1, <2>2
      <3> QED BY <1>1, <3>1
    <2> QED BY <1>1, <2>1, <2>2
  <1> QED BY <1>1, <1>3

\* Numbers less than n apart have different remainders.
LEMMA RemaindersDiffer ==
    ASSUME NEW n \in Nat \ {0}, NEW x \in Nat, NEW y \in Nat, x < y, y - x < n
    PROVE  x % n # y % n
  <1> SUFFICES ASSUME x % n = y % n PROVE FALSE
    OBVIOUS
  <1>1. PICK p \in Int, q \in Int, t \in 0..(n - 1) : x = p * n + t /\ y = q * n + t
    <2>1. /\ x % n \in 0..(n - 1) /\ x \div n \in Int /\ x = (x \div n) * n + (x % n)
          /\ y \div n \in Int /\ y = (y \div n) * n + (y % n)
      OBVIOUS
    <2> QED BY <2>1, Zenon
  <1>2. (q - p) * n = y - x
    BY <1>1
  <1>3. CASE q - p >= 1
    BY <1>1, <1>2, <1>3
  <1>4. CASE q - p <= 0
    <2>1. (q - p) * n <= 0
      BY <1>1, <1>4
    <2> QED BY <1>2, <2>1
  <1> QED BY <1>1, <1>3, <1>4

\* The ring divides the range of the indices.
LEMMA RingPeriod == ASSUME NEW i \in Nat PROVE (i + IdxMod) % Ring = i % Ring
  <1>1. /\ i \in Nat /\ Ring \in Nat \ {0} /\ IdxMod \in Nat \ {0} /\ IdxMod % Ring = 0
    BY BlockIoAssumption
  <1>2. PICK m \in Int : IdxMod = m * Ring
    <2>1. IdxMod \div Ring \in Int /\ IdxMod = (IdxMod \div Ring) * Ring + (IdxMod % Ring)
      BY <1>1
    <2> QED BY <1>1, <2>1
  <1>3. PICK q \in Int, r \in 0..(Ring - 1) : i = q * Ring + r /\ i % Ring = r
    <2>1. i % Ring \in 0..(Ring - 1) /\ i \div Ring \in Int /\ i = (i \div Ring) * Ring + (i % Ring)
      BY <1>1
    <2> QED BY <2>1
  <1>4. i + IdxMod = (q + m) * Ring + r
    BY <1>1, <1>2, <1>3
  <1> QED BY <1>1, <1>2, <1>3, <1>4, RemainderUnique

\* How far indices are apart.
LEMMA AheadFacts ==
    ASSUME NEW a \in Index, NEW b \in Index
    PROVE  /\ Ahead(a, b) \in 0..(IdxMod - 1)
           /\ b >= a => Ahead(a, b) = b - a
           /\ b < a => Ahead(a, b) = b - a + IdxMod
           /\ Ahead(a, b) = 0 <=> a = b
           /\ (a + Ahead(a, b)) % Ring = b % Ring
  <1>1. a \in 0..(IdxMod - 1) /\ b \in 0..(IdxMod - 1) /\ IdxMod \in Nat \ {0}
    BY BlockIoAssumption DEF Index
  <1>2. CASE b >= a
    <2>1. b - a \in 0..(IdxMod - 1) /\ b - a = 0 * IdxMod + (b - a)
      BY <1>1, <1>2
    <2>2. Ahead(a, b) = b - a
      BY <1>1, <2>1, RemainderUnique DEF Ahead
    <2>3. a + Ahead(a, b) = b
      BY <1>1, <2>2
    <2> QED BY <1>1, <1>2, <2>1, <2>2, <2>3
  <1>3. CASE b < a
    <2>1. b - a + IdxMod \in 0..(IdxMod - 1) /\ b - a = (-1) * IdxMod + (b - a + IdxMod)
      BY <1>1, <1>3
    <2>2. Ahead(a, b) = b - a + IdxMod
      BY <1>1, <2>1, RemainderUnique DEF Ahead
    <2>3. a + Ahead(a, b) = b + IdxMod /\ Ahead(a, b) # 0
      BY <1>1, <1>3, <2>2
    <2>4. (a + Ahead(a, b)) % Ring = b % Ring
      BY <1>1, <2>3, RingPeriod
    <2> QED BY <1>1, <1>3, <2>1, <2>2, <2>3, <2>4
  <1> QED BY <1>1, <1>2, <1>3

\* The index after b, also when it wraps.
LEMMA NextIndex ==
    ASSUME NEW b \in Index
    PROVE  /\ b + 1 < IdxMod => (b + 1) % IdxMod = b + 1
           /\ b + 1 >= IdxMod => b + 1 = IdxMod /\ (b + 1) % IdxMod = 0
           /\ (b + 1) % IdxMod \in Index
  <1>1. b \in 0..(IdxMod - 1) /\ IdxMod \in Nat \ {0}
    BY BlockIoAssumption DEF Index
  <1>2. CASE b + 1 < IdxMod
    <2>1. b + 1 \in 0..(IdxMod - 1) /\ b + 1 = 0 * IdxMod + (b + 1)
      BY <1>1, <1>2
    <2>2. (b + 1) % IdxMod = b + 1
      BY <1>1, <2>1, RemainderUnique
    <2> QED BY <1>1, <1>2, <2>1, <2>2 DEF Index
  <1>3. CASE b + 1 >= IdxMod
    <2>1. b + 1 = IdxMod /\ 0 \in 0..(IdxMod - 1) /\ b + 1 = 1 * IdxMod + 0
      BY <1>1, <1>3
    <2>2. (b + 1) % IdxMod = 0
      BY <1>1, <2>1, RemainderUnique
    <2> QED BY <1>1, <1>3, <2>1, <2>2 DEF Index
  <1> QED BY <1>1, <1>2, <1>3

\* A producer advances b: the entry it writes is none of the d in front of it.
LEMMA Produce ==
    ASSUME NEW a \in Index, NEW b \in Index, NEW d, d = Ahead(a, b), d < Ring
    PROVE  /\ d \in Nat /\ Ahead(a, (b + 1) % IdxMod) = d + 1
           /\ (a + d) % Ring = b % Ring
           /\ \A k \in 0..(d - 1) : (a + k) % Ring # b % Ring
  <1>1. /\ a \in 0..(IdxMod - 1) /\ b \in 0..(IdxMod - 1) /\ IdxMod \in Nat \ {0}
        /\ Ring \in Nat \ {0} /\ Ring < IdxMod
    BY BlockIoAssumption DEF Index
  <1>2. /\ d \in 0..(IdxMod - 1) /\ (b >= a => d = b - a) /\ (b < a => d = b - a + IdxMod)
        /\ (a + d) % Ring = b % Ring
    BY AheadFacts
  <1>3. PICK c \in Index : /\ c = (b + 1) % IdxMod
                           /\ b + 1 < IdxMod => c = b + 1
                           /\ b + 1 >= IdxMod => b + 1 = IdxMod /\ c = 0
    BY NextIndex
  <1>4. (c >= a => Ahead(a, c) = c - a) /\ (c < a => Ahead(a, c) = c - a + IdxMod)
    BY AheadFacts
  <1>5. Ahead(a, c) = d + 1
    BY <1>1, <1>2, <1>3, <1>4
  <1>6. ASSUME NEW k \in 0..(d - 1) PROVE (a + k) % Ring # (a + d) % Ring
    <2>1. a + k \in Nat /\ a + d \in Nat /\ a + k < a + d /\ (a + d) - (a + k) < Ring
      BY <1>1, <1>2
    <2> QED BY <1>1, <2>1, RemaindersDiffer, Zenon
  <1> QED BY <1>2, <1>3, <1>5, <1>6

\* A consumer advances a: what was entry k + 1 is now entry k.
LEMMA Consume ==
    ASSUME NEW a \in Index, NEW b \in Index, a # b, NEW c, c = (a + 1) % IdxMod
    PROVE  /\ c \in Index /\ Ahead(a, b) \in Nat \ {0} /\ Ahead(c, b) = Ahead(a, b) - 1
           /\ \A k \in Nat : (c + k) % Ring = (a + (k + 1)) % Ring
  <1>1. /\ a \in 0..(IdxMod - 1) /\ b \in 0..(IdxMod - 1) /\ IdxMod \in Nat \ {0}
    BY BlockIoAssumption DEF Index
  <1>2. PICK d : /\ d = Ahead(a, b) /\ d \in 0..(IdxMod - 1)
                 /\ (b >= a => d = b - a) /\ (b < a => d = b - a + IdxMod)
    BY AheadFacts
  <1>3. /\ c \in Index /\ (a + 1 < IdxMod => c = a + 1)
        /\ (a + 1 >= IdxMod => a + 1 = IdxMod /\ c = 0)
    BY NextIndex
  <1>4. (b >= c => Ahead(c, b) = b - c) /\ (b < c => Ahead(c, b) = b - c + IdxMod)
    BY <1>3, AheadFacts
  <1>5. Ahead(c, b) = d - 1 /\ d # 0
    BY <1>1, <1>2, <1>3, <1>4
  <1>6. ASSUME NEW k \in Nat PROVE (c + k) % Ring = (a + (k + 1)) % Ring
    <2>1. CASE a + 1 < IdxMod
      <3>1. c + k = a + (k + 1)
        BY <1>1, <1>3, <2>1
      <3> QED BY <3>1
    <2>2. CASE a + 1 >= IdxMod
      <3>1. c + k = k /\ a + (k + 1) = k + IdxMod
        BY <1>1, <1>3, <2>2
      <3> QED BY <3>1, RingPeriod
    <2> QED BY <1>1, <2>1, <2>2
  <1> QED BY <1>2, <1>3, <1>5, <1>6

-----------------------------------------------------------------------------
\* The indices have their types.
LEMMA IndexTypes ==
    ASSUME TypeOK
    PROVE  /\ availIdx \in Index /\ usedIdx \in Index /\ devIdx \in Index /\ lastUsed \in Index
           /\ Ahead(devIdx, availIdx) \in Nat /\ Ahead(lastUsed, usedIdx) \in Nat
  <1>1. availIdx \in Index /\ usedIdx \in Index /\ devIdx \in Index /\ lastUsed \in Index
    BY DEF TypeOK
  <1> QED BY <1>1, AheadFacts

\* A step that moves no chain and completes nothing.
LEMMA SameChains ==
    ASSUME IInv, SlotInv,
           UNCHANGED <<active, request, avail, availIdx, used, usedIdx, devIdx, inDevice, lastUsed>>,
           pc' \in {"drain", "handle"} => booting',
           booting' => booting,
           Polling /\ booting' => (Polling' /\ cur' = cur) \/ \A s \in Slot : ~active[s],
           Astray => Astray' \/ usedIdx = lastUsed,
           pc' = "handle" /\ ~Astray' =>
              usedIdx # lastUsed /\ elem'.at = lastUsed /\ elem'.slot = Answered(0)
    PROVE  SlotInv'
  <1>1. /\ \A k : Offered(k)' = Offered(k) /\ Answered(k)' = Answered(k)
        /\ Offers' = Offers /\ Answers' = Answers
    BY DEF Offered, Answered, Offers, Answers
  <1>2. ChainInv'
    BY <1>1 DEF SlotInv, ChainInv
  <1>3. CASE AnswerInv
    <2>1. AnswerInv'
      BY <1>1, <1>3 DEF AnswerInv
    <2> QED BY <1>1, <1>2, <2>1 DEF SlotInv
  <1>4. CASE usedIdx = lastUsed
    <2>1. Answers = {}
      BY <1>4, IndexTypes, AheadFacts DEF Answers, IInv
    <2>2. AnswerInv'
      BY <1>1, <2>1 DEF AnswerInv
    <2> QED BY <1>1, <1>2, <2>2 DEF SlotInv
  <1>5. CASE Astray'
    BY <1>1, <1>2, <1>5 DEF SlotInv
  <1> QED BY <1>3, <1>4, <1>5 DEF SlotInv

\* virtqueue_consume_used of an answer: the slot is completed, and had no other chain.
LEMMA ConsumeChain ==
    ASSUME IInv, SlotInv, ~Astray, usedIdx # lastUsed,
           lastUsed' = (lastUsed + 1) % IdxMod, Complete(Answered(0)),
           UNCHANGED <<avail, availIdx, used, usedIdx, devIdx, inDevice, booting, cur>>,
           pc' = pc \/ (pc = "handle" /\ pc' = "drain")
    PROVE  SlotInv'
  <1>a. PICK s, r, d : s = Answered(0) /\ r = request[s] /\ d = Ahead(lastUsed, usedIdx)
    OBVIOUS
  <1>1. /\ lastUsed \in Index /\ usedIdx \in Index /\ d \in Nat /\ d # 0
        /\ Ahead(lastUsed', usedIdx) = d - 1
        /\ \A k \in Nat : (lastUsed' + k) % Ring = (lastUsed + (k + 1)) % Ring
    BY <1>a, IndexTypes, Consume DEF IInv
  <1>2. /\ Answers' = 0..(d - 2) /\ Answers = 0..(d - 1) /\ Offers' = Offers
        /\ \A k \in Nat : Answered(k)' = Answered(k + 1)
        /\ \A k : Offered(k)' = Offered(k)
    <2>1. Answers = 0..(d - 1)
      BY <1>a DEF Answers
    <2>2. Answers' = 0..(d - 1 - 1) /\ d - 1 - 1 = d - 2
      BY <1>1 DEF Answers
    <2>3. \A k \in Nat : Answered(k)' = Answered(k + 1)
      BY <1>1, Zenon DEF Answered
    <2>4. Offers' = Offers /\ \A k : Offered(k)' = Offered(k)
      BY DEF Offers, Offered
    <2> QED BY <2>1, <2>2, <2>3, <2>4
  <1>3. AnswerInv /\ 0 \in Answers /\ active[s] /\ s \notin inDevice
    <2>1. 0 \in Answers
      BY <1>1, <1>2
    <2> QED BY <2>1, <1>a, Zenon DEF SlotInv, AnswerInv
  <1>4. s \in Slot
    <2>1. lastUsed + 0 \in Nat /\ Ring \in Nat \ {0}
      BY <1>1, BlockIoAssumption DEF Index
    <2>2. (lastUsed + 0) % Ring \in 0..(Ring - 1)
      BY <2>1, RemainderRange
    <2> QED BY <2>2, <1>a, Zenon DEF IInv, TypeOK, Answered
  <1>5. /\ r # None /\ active' = [active EXCEPT ![s] = FALSE]
        /\ request' = [request EXCEPT ![s] = None]
    BY <1>a, <1>3, <1>4 DEF Complete, SlotInv
  <1>6. /\ ~active'[s]
        /\ \A t \in Slot : t # s => active'[t] = active[t] /\ request'[t] = request[t]
    BY <1>4, <1>5 DEF IInv, TypeOK
  <1>7. \A k \in Offers : Offered(k) \in Slot
    <2> SUFFICES ASSUME NEW k \in Offers PROVE Offered(k) \in Slot
      OBVIOUS
    <2>1. devIdx + k \in Nat /\ Ring \in Nat \ {0}
      BY IndexTypes, BlockIoAssumption DEF Offers, IInv, Index
    <2> QED BY <2>1, RemainderRange, Zenon DEF IInv, TypeOK, Offered
  <1>8. ChainInv'
    <2>1. \A k \in Offers : Offered(k) # s
      BY <1>3, <1>a DEF AnswerInv
    <2> QED BY <1>2, <1>3, <1>6, <1>7, <2>1 DEF SlotInv, ChainInv, IInv, TypeOK
  <1>9. AnswerInv'
    <2>1. \A k \in Answers' : k \in Nat /\ k + 1 \in Answers /\ Answered(k)' = Answered(k + 1)
      BY <1>1, <1>2
    <2>2. \A k \in Answers' : Answered(k + 1) # s
      BY <1>3, <1>a, <2>1 DEF AnswerInv
    <2>3. \A k \in Answers : Answered(k) \in Slot
      <3> SUFFICES ASSUME NEW k \in Answers PROVE Answered(k) \in Slot
        OBVIOUS
      <3>1. lastUsed + k \in Nat /\ Ring \in Nat \ {0}
        BY IndexTypes, BlockIoAssumption DEF Answers, IInv, Index
      <3> QED BY <3>1, RemainderRange, Zenon DEF IInv, TypeOK, Answered
    <2>4. \A k \in Answers' : active'[Answered(k)'] /\ Answered(k)' \notin inDevice'
      BY <1>3, <1>6, <2>1, <2>2, <2>3, Zenon DEF AnswerInv
    <2>5. \A j, k \in Answers' : Answered(j)' = Answered(k)' => j = k
      <3> SUFFICES ASSUME NEW j \in Answers', NEW k \in Answers', Answered(j)' = Answered(k)'
                   PROVE  j = k
        OBVIOUS
      <3>1. j \in Nat /\ k \in Nat /\ j + 1 \in Answers /\ k + 1 \in Answers
            /\ Answered(j + 1) = Answered(k + 1)
        BY <2>1
      <3>2. j + 1 = k + 1
        BY <1>3, <3>1 DEF AnswerInv
      <3> QED BY <3>1, <3>2
    <2>6. \A j \in Offers', k \in Answers' : Offered(j)' # Answered(k)'
      BY <1>2, <1>3, <2>1 DEF AnswerInv
    <2> QED BY <2>4, <2>5, <2>6 DEF AnswerInv
  <1>10. pc' = "handle" => Astray'
    <2> SUFFICES ASSUME pc' = "handle" PROVE Astray'
      OBVIOUS
    <2>1. pc = "handle" /\ booting /\ booting' = booting
      BY DEF SlotInv
    <2>2. \A t \in Slot : ~active'[t]
      BY <1>a, <1>3, <1>4, <1>5, <1>6, <2>1 DEF SlotInv, IInv, OneSlot
    <2> QED BY <2>1, <2>2 DEF Astray, Polling
  <1>11. /\ \A t \in Slot : active'[t] => request'[t] # None
         /\ pc' \in {"drain", "handle"} => booting'
         /\ booting' => \A t \in Slot : active'[t] => Polling' /\ request'[t] = cur'
    BY <1>6, <1>4 DEF SlotInv, Polling
  <1> QED BY <1>8, <1>9, <1>10, <1>11 DEF SlotInv

\* The device takes the oldest chain of the avail ring.
LEMMA TakeChain == ASSUME IInv, SlotInv, DeviceTake PROVE SlotInv'
  <1>a. PICK s, d : s = Offered(0) /\ d = Ahead(devIdx, availIdx)
    OBVIOUS
  <1>0. /\ devIdx # availIdx /\ devIdx' = (devIdx + 1) % IdxMod
        /\ UNCHANGED <<active, request, avail, availIdx, used, usedIdx, lastUsed, booting, pc, cur, elem>>
    BY DEF DeviceTake, slots, thread
  <1>1. /\ devIdx \in Index /\ availIdx \in Index /\ d \in Nat /\ d # 0
        /\ Ahead(devIdx', availIdx) = d - 1
        /\ \A k \in Nat : (devIdx' + k) % Ring = (devIdx + (k + 1)) % Ring
    BY <1>a, <1>0, IndexTypes, Consume DEF IInv
  <1>2. /\ Offers' = 0..(d - 2) /\ Offers = 0..(d - 1) /\ Answers' = Answers
        /\ \A k \in Nat : Offered(k)' = Offered(k + 1)
        /\ \A k : Answered(k)' = Answered(k)
    <2>1. Offers = 0..(d - 1)
      BY <1>a DEF Offers
    <2>2. Offers' = 0..(d - 1 - 1) /\ d - 1 - 1 = d - 2
      BY <1>0, <1>1 DEF Offers
    <2>3. \A k \in Nat : Offered(k)' = Offered(k + 1)
      BY <1>0, <1>1, Zenon DEF Offered
    <2>4. Answers' = Answers /\ \A k : Answered(k)' = Answered(k)
      BY <1>0 DEF Answers, Answered
    <2> QED BY <2>1, <2>2, <2>3, <2>4
  <1>3. inDevice' = inDevice \cup {s}
    <2>1. (devIdx + 0) % Ring = devIdx % Ring
      BY <1>1 DEF Index
    <2> QED BY <2>1, <1>a DEF DeviceTake, Offered
  <1>4. 0 \in Offers /\ active[s] /\ s \notin inDevice
    <2>1. 0 \in Offers
      BY <1>1, <1>2
    <2> QED BY <2>1, <1>a, Zenon DEF SlotInv, ChainInv
  <1>5. \A k \in Offers' : k \in Nat /\ k + 1 \in Offers /\ Offered(k)' = Offered(k + 1)
    BY <1>1, <1>2
  <1>6. \A k \in Offers' : Offered(k + 1) # s
    <2> SUFFICES ASSUME NEW k \in Offers', Offered(k + 1) = Offered(0) PROVE FALSE
      BY <1>a
    <2>1. k + 1 = 0 /\ k \in Nat
      BY <1>4, <1>5 DEF SlotInv, ChainInv
    <2> QED BY <2>1
  <1>7. ChainInv'
    <2>1. \A k \in Offers' : active'[Offered(k)'] /\ Offered(k)' \notin inDevice'
      BY <1>0, <1>3, <1>5, <1>6 DEF SlotInv, ChainInv
    <2>2. \A j, k \in Offers' : Offered(j)' = Offered(k)' => j = k
      <3> SUFFICES ASSUME NEW j \in Offers', NEW k \in Offers', Offered(j)' = Offered(k)'
                   PROVE  j = k
        OBVIOUS
      <3>1. j \in Nat /\ k \in Nat /\ j + 1 = k + 1
        BY <1>5 DEF SlotInv, ChainInv
      <3> QED BY <3>1
    <2>3. \A t \in inDevice' : active'[t]
      BY <1>0, <1>3, <1>4 DEF SlotInv, ChainInv
    <2> QED BY <2>1, <2>2, <2>3 DEF ChainInv
  <1>8. CASE AnswerInv
    <2>1. \A k \in Answers : Answered(k) # s
      BY <1>8, <1>4, <1>a DEF AnswerInv
    <2>2. AnswerInv'
      BY <1>0, <1>2, <1>3, <1>5, <1>8, <2>1 DEF AnswerInv
    <2> QED BY <1>0, <1>2, <1>7, <2>2 DEF SlotInv, Polling, Astray
  <1>9. CASE Astray
    BY <1>0, <1>2, <1>7, <1>9 DEF SlotInv, Polling, Astray
  <1> QED BY <1>8, <1>9 DEF SlotInv

\* The device answers a chain: a new entry of the used ring.
LEMMA AnswerChain ==
    ASSUME IInv, SlotInv, NEW s \in Slot, DeviceAnswer(s), Ahead(lastUsed, usedIdx) < Ring
    PROVE  SlotInv'
  <1>a. PICK d : d = Ahead(lastUsed, usedIdx)
    OBVIOUS
  <1>0. /\ s \in inDevice /\ inDevice' = inDevice \ {s} /\ usedIdx' = (usedIdx + 1) % IdxMod
        /\ used' = [used EXCEPT ![usedIdx % Ring] = s]
        /\ UNCHANGED <<active, request, avail, availIdx, devIdx, lastUsed, booting, pc, cur, elem>>
    BY DEF DeviceAnswer, slots, thread
  <1>1. /\ d \in Nat /\ Ahead(lastUsed, usedIdx') = d + 1
        /\ (lastUsed + d) % Ring = usedIdx % Ring
        /\ \A k \in 0..(d - 1) : (lastUsed + k) % Ring # usedIdx % Ring
        /\ lastUsed \in Index /\ usedIdx \in Index
    BY <1>0, <1>a, IndexTypes, Produce DEF IInv
  <1>2. used \in [0..(Ring - 1) -> Slot] /\ usedIdx % Ring \in 0..(Ring - 1)
    BY <1>1, RingFacts DEF IInv, TypeOK
  <1>3. /\ Answers = 0..(d - 1) /\ Answers' = 0..d /\ Offers' = Offers
        /\ \A k : Offered(k)' = Offered(k)
    <2>1. Answers = 0..(d - 1)
      BY <1>a DEF Answers
    <2>2. Answers' = 0..(d + 1 - 1) /\ d + 1 - 1 = d
      BY <1>0, <1>1 DEF Answers
    <2>3. Offers' = Offers /\ \A k : Offered(k)' = Offered(k)
      BY <1>0 DEF Offers, Offered
    <2> QED BY <2>1, <2>2, <2>3
  <1>4. Answered(d)' = s
    BY <1>0, <1>1, <1>2, Zenon DEF Answered
  <1>5. ASSUME NEW k \in Answers PROVE Answered(k)' = Answered(k)
    <2>1. k \in 0..(d - 1) /\ k \in Nat
      BY <1>3, <1>5
    <2>2. (lastUsed + k) % Ring \in 0..(Ring - 1)
      <3>1. lastUsed + k \in Nat /\ Ring \in Nat \ {0}
        BY <1>1, <2>1, BlockIoAssumption DEF Index
      <3> QED BY <3>1, RemainderRange, Zenon
    <2> QED BY <1>0, <1>1, <1>2, <2>1, <2>2, Zenon DEF Answered
  <1>6. active[s] /\ ~Astray /\ AnswerInv
    BY <1>0 DEF SlotInv, ChainInv, Astray
  <1>7. \A k \in Answers' : k = d \/ k \in Answers
    BY <1>1, <1>3
  <1>8. ChainInv'
    BY <1>0, <1>3 DEF SlotInv, ChainInv
  <1>9. AnswerInv'
    <2>1. \A k \in Answers : Answered(k) # s
      BY <1>0, <1>6 DEF AnswerInv
    <2>2. \A k \in Offers : Offered(k) # s
      BY <1>0 DEF SlotInv, ChainInv
    <2>3. ASSUME NEW k \in Answers'
          PROVE  /\ active'[Answered(k)'] /\ Answered(k)' \notin inDevice'
                 /\ \A j \in Offers' : Offered(j)' # Answered(k)'
      <3>1. CASE k = d
        BY <1>0, <1>3, <1>4, <1>6, <2>2, <3>1
      <3>2. CASE k \in Answers
        BY <1>0, <1>3, <1>5, <1>6, <3>2 DEF AnswerInv
      <3> QED BY <1>7, <2>3, <3>1, <3>2
    <2>4. ASSUME NEW j \in Answers', NEW k \in Answers', Answered(j)' = Answered(k)' PROVE j = k
      <3>1. CASE j \in Answers /\ k \in Answers
        BY <1>5, <1>6, <2>4, <3>1 DEF AnswerInv
      <3>2. CASE j = d \/ k = d
        BY <1>4, <1>5, <1>7, <2>1, <2>4, <3>2
      <3> QED BY <1>7, <2>4, <3>1, <3>2
    <2> QED BY <2>3, <2>4 DEF AnswerInv
  <1>10. pc = "handle" => usedIdx' # lastUsed /\ elem.at = lastUsed /\ elem.slot = Answered(0)'
    <2> SUFFICES ASSUME pc = "handle"
                 PROVE  usedIdx' # lastUsed /\ elem.at = lastUsed /\ elem.slot = Answered(0)'
      OBVIOUS
    <2>1. usedIdx # lastUsed /\ elem.at = lastUsed /\ elem.slot = Answered(0)
      BY <1>6 DEF SlotInv
    <2>2. d # 0 /\ 0 \in Answers
      BY <1>1, <1>3, <1>a, <2>1, AheadFacts
    <2>3. Ahead(lastUsed, lastUsed) = 0
      BY <1>1, AheadFacts
    <2>4. usedIdx' # lastUsed
      BY <1>1, <2>3
    <2> QED BY <1>5, <2>1, <2>2, <2>4
  <1>11. /\ \A t \in Slot : active'[t] => request'[t] # None
         /\ pc' \in {"drain", "handle"} => booting'
         /\ booting' => \A t \in Slot : active'[t] => Polling' /\ request'[t] = cur'
    BY <1>0 DEF SlotInv, Polling
  <1> QED BY <1>0, <1>8, <1>9, <1>10, <1>11 DEF SlotInv

\* Submit offers the chain of a slot that has none: a new entry of the avail ring.
LEMMA SubmitChain ==
    ASSUME IInv, SlotInv, NEW r \in Req, Submit(r), Ahead(devIdx, availIdx) < Ring
    PROVE  SlotInv'
  <1>a. PICK d : d = Ahead(devIdx, availIdx)
    OBVIOUS
  <1>b. PICK s \in Slot :
          /\ FirstFree(s)
          /\ active' = [active EXCEPT ![s] = TRUE]
          /\ request' = [request EXCEPT ![s] = r]
          /\ avail' = [avail EXCEPT ![availIdx % Ring] = s]
    BY Zenon DEF Submit
  <1>0. /\ pc = "run" /\ availIdx' = (availIdx + 1) % IdxMod
        /\ cur' = IF booting THEN r ELSE None
        /\ pc' = IF booting THEN "drain" ELSE "run"
        /\ UNCHANGED <<used, usedIdx, devIdx, inDevice, lastUsed, booting>>
    BY DEF Submit, Executes
  <1>1. /\ d \in Nat /\ Ahead(devIdx, availIdx') = d + 1
        /\ (devIdx + d) % Ring = availIdx % Ring
        /\ \A k \in 0..(d - 1) : (devIdx + k) % Ring # availIdx % Ring
        /\ devIdx \in Index /\ availIdx \in Index
    BY <1>0, <1>a, IndexTypes, Produce DEF IInv
  <1>2. avail \in [0..(Ring - 1) -> Slot] /\ availIdx % Ring \in 0..(Ring - 1)
    BY <1>1, RingFacts DEF IInv, TypeOK
  <1>3. /\ Offers = 0..(d - 1) /\ Offers' = 0..d /\ Answers' = Answers
        /\ \A k : Answered(k)' = Answered(k)
    <2>1. Offers = 0..(d - 1)
      BY <1>a DEF Offers
    <2>2. Offers' = 0..(d + 1 - 1) /\ d + 1 - 1 = d
      BY <1>0, <1>1 DEF Offers
    <2>3. Answers' = Answers /\ \A k : Answered(k)' = Answered(k)
      BY <1>0 DEF Answers, Answered
    <2> QED BY <2>1, <2>2, <2>3
  <1>4. Offered(d)' = s
    BY <1>0, <1>b, <1>1, <1>2, Zenon DEF Offered
  <1>5. ASSUME NEW k \in Offers PROVE Offered(k)' = Offered(k)
    <2>1. k \in 0..(d - 1) /\ k \in Nat
      BY <1>3, <1>5
    <2>2. (devIdx + k) % Ring \in 0..(Ring - 1)
      <3>1. devIdx + k \in Nat /\ Ring \in Nat \ {0}
        BY <1>1, <2>1, BlockIoAssumption DEF Index
      <3> QED BY <3>1, RemainderRange, Zenon
    <2> QED BY <1>0, <1>b, <1>1, <1>2, <2>1, <2>2, Zenon DEF Offered
  <1>6. ~active[s] /\ ~Astray /\ AnswerInv
    BY <1>0, <1>b DEF SlotInv, Astray, Polling, FirstFree, FreeSlots
  <1>7. \A k \in Offers' : k = d \/ k \in Offers
    BY <1>1, <1>3
  <1>8. active'[s] /\ request'[s] = r
        /\ \A t \in Slot : t # s => active'[t] = active[t] /\ request'[t] = request[t]
    BY <1>b DEF IInv, TypeOK
  <1>c. \A t : t \in Slot /\ active[t] => active'[t]
    BY <1>8
  <1>d. inDevice \subseteq Slot /\ \A k \in Offers : Offered(k) \in Slot
    <2>1. ASSUME NEW k \in Offers PROVE Offered(k) \in Slot
      <3>1. devIdx + k \in Nat /\ Ring \in Nat \ {0}
        BY IndexTypes, BlockIoAssumption DEF Offers, IInv, Index
      <3> QED BY <3>1, RemainderRange, Zenon DEF IInv, TypeOK, Offered
    <2> QED BY <2>1 DEF IInv, TypeOK
  <1>e. \A k \in Answers : Answered(k) \in Slot
    <2> SUFFICES ASSUME NEW k \in Answers PROVE Answered(k) \in Slot
      OBVIOUS
    <2>1. lastUsed + k \in Nat /\ Ring \in Nat \ {0}
      BY IndexTypes, BlockIoAssumption DEF Answers, IInv, Index
    <2> QED BY <2>1, RemainderRange, Zenon DEF IInv, TypeOK, Answered
  <1>f. /\ s \notin inDevice
        /\ \A k \in Offers : Offered(k) # s
        /\ \A k \in Answers : Answered(k) # s
    BY <1>6 DEF SlotInv, ChainInv, AnswerInv
  <1>9. ChainInv'
    <2>1. ASSUME NEW k \in Offers' PROVE active'[Offered(k)'] /\ Offered(k)' \notin inDevice'
      <3>1. CASE k = d
        BY <1>0, <1>4, <1>8, <1>f, <3>1
      <3>2. CASE k \in Offers
        BY <1>0, <1>5, <1>c, <1>d, <3>2 DEF SlotInv, ChainInv
      <3> QED BY <1>7, <2>1, <3>1, <3>2
    <2>2. ASSUME NEW j \in Offers', NEW k \in Offers', Offered(j)' = Offered(k)' PROVE j = k
      <3>1. CASE j \in Offers /\ k \in Offers
        BY <1>5, <2>2, <3>1 DEF SlotInv, ChainInv
      <3>2. CASE j = d \/ k = d
        BY <1>4, <1>5, <1>7, <1>f, <2>2, <3>2
      <3> QED BY <1>7, <2>2, <3>1, <3>2
    <2>3. \A t \in inDevice' : active'[t]
      BY <1>0, <1>c, <1>d DEF SlotInv, ChainInv
    <2> QED BY <2>1, <2>2, <2>3 DEF ChainInv
  <1>10. AnswerInv'
    <2>1. \A k \in Answers' : active'[Answered(k)'] /\ Answered(k)' \notin inDevice'
      BY <1>0, <1>3, <1>6, <1>c, <1>e, Zenon DEF AnswerInv
    <2>2. \A j, k \in Answers' : Answered(j)' = Answered(k)' => j = k
      BY <1>3, <1>6, Zenon DEF AnswerInv
    <2>3. ASSUME NEW j \in Offers' PROVE \A k \in Answers' : Offered(j)' # Answered(k)'
      <3>1. CASE j = d
        BY <1>3, <1>4, <1>f, <3>1
      <3>2. CASE j \in Offers
        BY <1>3, <1>5, <1>6, <3>2 DEF AnswerInv
      <3> QED BY <1>7, <2>3, <3>1, <3>2
    <2> QED BY <2>1, <2>2, <2>3 DEF AnswerInv
  <1>11. /\ \A t \in Slot : active'[t] => request'[t] # None
         /\ pc' \in {"drain", "handle"} => booting'
         /\ booting' => \A t \in Slot : active'[t] => Polling' /\ request'[t] = cur'
    <2>1. booting => \A t \in Slot : ~active[t]
      BY <1>0 DEF SlotInv, Polling
    <2> QED BY <1>0, <1>8, <2>1, BlockIoAssumption DEF SlotInv, Polling
  <1> QED BY <1>0, <1>9, <1>10, <1>11 DEF SlotInv

\* After a timeout the thread stays stopped.
LEMMA StaysStopped == ASSUME pc = "stopped", [Next]_vars PROVE pc' = "stopped"
  <1>1. CASE Caller \/ Thread \/ StartScheduler
    BY <1>1, Zenon DEF Caller, Thread, Submit, SubmitBusy, Wait, WaitTest, WaitReturn, WaitBlock, WaitRelax,
       PollRead, PollHandle, PollDone, PollTimeout, StartScheduler, Executes
  <1>2. CASE Irq \/ Tick \/ Dispatch
    BY <1>2 DEF Irq, IrqEnter, IrqConsume, IrqLeave, Tick, Dispatch, Resumed, thread
  <1>3. CASE Device \/ Stopped \/ UNCHANGED vars
    BY <1>3, Zenon DEF Device, DeviceTake, DeviceAnswer, Stopped, thread, vars
  <1> QED BY <1>1, <1>2, <1>3 DEF Next

\* The steps of the thread that move no chain.
LEMMA ThreadChains ==
    ASSUME IInv, SlotInv,
           \/ \E r \in Req : SubmitBusy(r) \/ Wait(r)
           \/ WaitTest \/ WaitReturn \/ WaitBlock \/ WaitRelax
           \/ PollRead \/ PollDone \/ StartScheduler
    PROVE  SlotInv'
  <1>1. CASE \/ \E r \in Req : SubmitBusy(r) \/ Wait(r)
             \/ WaitTest \/ WaitReturn \/ WaitBlock \/ WaitRelax \/ StartScheduler
    <2>1. /\ UNCHANGED <<active, request, avail, availIdx, used, usedIdx, devIdx, inDevice, lastUsed>>
          /\ pc \notin {"drain", "handle"} /\ pc' \notin {"drain", "handle"}
          /\ booting' = booting \/ booting' = FALSE
      <3>1. ASSUME NEW r \in Req, SubmitBusy(r) \/ Wait(r)
            PROVE  /\ UNCHANGED <<slots, device, avail, availIdx, lastUsed, booting>>
                   /\ pc = "run" /\ pc' \in {"nap", "wait"}
        BY <3>1 DEF SubmitBusy, Wait, Executes
      <3>2. CASE WaitTest \/ WaitReturn \/ WaitBlock \/ WaitRelax \/ StartScheduler
        BY <3>2 DEF WaitTest, WaitReturn, WaitBlock, WaitRelax, StartScheduler, Executes,
           slots, device
      <3> QED BY <1>1, <3>1, <3>2, Zenon DEF slots, device
    <2>2. ~Polling /\ ~Astray /\ (booting' => booting)
      BY <2>1 DEF Polling, Astray
    <2> QED BY <2>1, <2>2, SameChains
  <1>2. CASE PollRead
    <2>1. /\ UNCHANGED <<active, request, avail, availIdx, used, usedIdx, devIdx, inDevice, lastUsed,
                         booting, cur>>
          /\ pc = "drain" /\ pc' = "handle" /\ usedIdx # lastUsed
          /\ elem' = [slot |-> used[lastUsed % Ring], at |-> lastUsed]
      BY <1>2 DEF PollRead, Executes, slots, device
    <2>2. (lastUsed + 0) % Ring = lastUsed % Ring
      BY IndexTypes DEF IInv, Index
    <2>3. elem'.at = lastUsed /\ elem'.slot = Answered(0)
      BY <2>1, <2>2 DEF Answered
    <2>4. booting /\ Polling /\ Polling' /\ (Astray => Astray')
      BY <2>1 DEF SlotInv, Polling, Astray
    <2> QED BY <2>1, <2>3, <2>4, SameChains
  <1>3. CASE PollDone
    <2>1. /\ UNCHANGED <<active, request, avail, availIdx, used, usedIdx, devIdx, inDevice, lastUsed,
                         booting>>
          /\ pc = "drain" /\ pc' = "run" /\ usedIdx = lastUsed /\ done[cur]
      BY <1>3 DEF PollDone, Executes, slots, device
    <2>2. booting /\ cur \in Req
      BY <2>1 DEF SlotInv, IInv, CurIsSet
    <2>3. \A s \in Slot : ~active[s]
      BY <2>1, <2>2 DEF SlotInv, IInv, NoDanglingRequest, Outstanding
    <2> QED BY <2>1, <2>3, SameChains
  <1> QED BY <1>1, <1>2, <1>3

\* PollHandle completes the slot it read, unless the interrupt has, and then nothing is active.
LEMMA HandleChain == ASSUME IInv, SlotInv, PollHandle PROVE SlotInv'
  <1>1. /\ pc = "handle" /\ pc' = "drain" /\ Complete(elem.slot)
        /\ lastUsed' = (elem.at + 1) % IdxMod \/ lastUsed' = (lastUsed + 1) % IdxMod
        /\ UNCHANGED <<avail, availIdx, used, usedIdx, devIdx, inDevice, booting, cur>>
    BY DEF PollHandle, Executes, device
  <1>2. CASE Astray
    <2>1. elem.slot \in Slot /\ ~active[elem.slot]
      BY <1>2 DEF IInv, TypeOK, Astray
    <2>2. UNCHANGED <<active, request>>
      BY <1>1, <2>1 DEF Complete
    <2>3. Astray'
      BY <1>1, <1>2, <2>2 DEF Astray, Polling
    <2>4. ChainInv'
      BY <1>1, <2>2 DEF SlotInv, ChainInv, Offers, Offered
    <2> QED BY <1>1, <2>2, <2>3, <2>4 DEF SlotInv, Astray
  <1>3. CASE ~Astray
    <2>1. usedIdx # lastUsed /\ elem.at = lastUsed /\ elem.slot = Answered(0)
      BY <1>1, <1>3 DEF SlotInv
    <2>2. lastUsed' = (lastUsed + 1) % IdxMod /\ Complete(Answered(0))
      BY <1>1, <2>1
    <2> QED BY <1>1, <1>3, <2>1, <2>2, ConsumeChain
  <1> QED BY <1>2, <1>3

\* The interrupt handler and the scheduler.
LEMMA IrqChains == ASSUME IInv, SlotInv, Irq \/ Tick \/ Dispatch PROVE SlotInv'
  <1>1. CASE IrqEnter \/ IrqLeave \/ Tick \/ Dispatch
    <2>1. /\ UNCHANGED <<active, request, avail, availIdx, used, usedIdx, devIdx, inDevice, lastUsed,
                         booting, cur, elem>>
          /\ pc' = pc \/ (pc \in {"halt", "nap"} /\ pc' \in {"wait", "run"})
      BY <1>1 DEF IrqEnter, IrqLeave, Tick, Dispatch, Resumed, slots, device, thread
    <2>2. (Polling' <=> Polling) /\ (Astray' <=> Astray)
      BY <2>1 DEF Polling, Astray
    <2>3. pc' = "handle" /\ ~Astray' =>
             usedIdx # lastUsed /\ elem'.at = lastUsed /\ elem'.slot = Answered(0)
      BY <2>1, <2>2, Zenon DEF SlotInv
    <2>4. pc' \in {"drain", "handle"} => booting'
      BY <2>1 DEF SlotInv
    <2> QED BY <2>1, <2>2, <2>3, <2>4, SameChains
  <1>2. CASE IrqConsume
    <2>1. /\ usedIdx # lastUsed /\ lastUsed' = (lastUsed + 1) % IdxMod
          /\ Complete(used[lastUsed % Ring])
          /\ UNCHANGED <<avail, availIdx, used, usedIdx, devIdx, inDevice, booting, cur, pc, elem>>
      BY <1>2 DEF IrqConsume, device
    <2>2. (lastUsed + 0) % Ring = lastUsed % Ring /\ lastUsed \in Index
      BY IndexTypes DEF IInv, Index
    <2>3. Complete(Answered(0))
      BY <2>1, <2>2 DEF Answered
    <2>4. CASE Astray
      <3>1. used[lastUsed % Ring] \in Slot
        BY <2>2, RingFacts DEF IInv, TypeOK
      <3>2. UNCHANGED <<active, request>>
        BY <2>1, <2>4, <3>1 DEF Complete, Astray
      <3>3. Astray'
        BY <2>1, <2>4, <3>2 DEF Astray, Polling
      <3>4. ChainInv'
        BY <2>1, <3>2 DEF SlotInv, ChainInv, Offers, Offered
      <3> QED BY <2>1, <3>2, <3>3, <3>4 DEF SlotInv, Astray
    <2>5. CASE ~Astray
      BY <2>1, <2>3, <2>5, ConsumeChain
    <2> QED BY <2>4, <2>5
  <1> QED BY <1>1, <1>2 DEF Irq

\* The rings are empty at the start.
LEMMA SlotInit == Init => SlotInv
  <1> SUFFICES ASSUME Init PROVE SlotInv
    OBVIOUS
  <1>1. 0 \in Index
    BY BlockIoAssumption DEF Index
  <1>2. Ahead(devIdx, availIdx) = 0 /\ Ahead(lastUsed, usedIdx) = 0
    BY <1>1, AheadFacts DEF Init
  <1>3. Offers = {} /\ Answers = {}
    BY <1>2 DEF Offers, Answers
  <1> QED BY <1>3 DEF Init, SlotInv, ChainInv, AnswerInv, Polling

\* A slot becomes active only when no chain of it is with the device, neither taken nor
\* still on the avail ring.
LEMMA ReuseStep ==
    ASSUME IInv, pc # "stopped" => SlotInv, [Next]_vars, NEW s \in Slot, ~active[s], active'[s]
    PROVE  /\ s \notin inDevice
           /\ \A i \in Index : Ahead(devIdx, i) < Ahead(devIdx, availIdx) => avail[i % Ring] # s
  <1>1. pc # "stopped"
    <2>1. ASSUME NEW t \in Slot, Complete(t) PROVE ~active'[s]
      <3>1. active' = active \/ active' = [active EXCEPT ![t] = FALSE]
        BY <2>1 DEF Complete
      <3> QED BY <3>1 DEF IInv, TypeOK
    <2> SUFFICES ASSUME pc = "stopped" PROVE FALSE
      BY Zenon
    <2>2. CASE Caller \/ Thread \/ StartScheduler
      BY <2>2, Zenon DEF Caller, Thread, Submit, SubmitBusy, Wait, WaitTest, WaitReturn, WaitBlock,
         WaitRelax, PollRead, PollHandle, PollDone, PollTimeout, StartScheduler, Executes
    <2>3. CASE IrqConsume
      <3>1. used[lastUsed % Ring] \in Slot
        BY IndexTypes, RingFacts, Zenon DEF IInv, TypeOK
      <3> QED BY <2>1, <2>3, <3>1 DEF IrqConsume
    <2>4. CASE IrqEnter \/ IrqLeave \/ Tick \/ Dispatch \/ Device \/ Stopped \/ UNCHANGED vars
      BY <2>4, Zenon DEF IrqEnter, IrqLeave, Tick, Dispatch, Device, DeviceTake, DeviceAnswer,
         Stopped, slots, vars
    <2> QED BY <2>2, <2>3, <2>4 DEF Next, Irq
  <1>2. SlotInv
    BY <1>1, Zenon
  <1>3. s \notin inDevice
    BY <1>2, Zenon DEF SlotInv, ChainInv
  <1>4. ASSUME NEW i \in Index, Ahead(devIdx, i) < Ahead(devIdx, availIdx)
        PROVE  avail[i % Ring] # s
    <2>a. PICK k : k = Ahead(devIdx, i)
      BY Zenon
    <2>1. k \in Nat /\ (devIdx + k) % Ring = i % Ring
      BY <2>a, IndexTypes, AheadFacts DEF IInv
    <2>2. k \in Offers
      BY <1>4, <2>a, <2>1, IndexTypes DEF Offers, IInv
    <2>3. Offered(k) # s
      BY <1>2, <2>2, Zenon DEF SlotInv, ChainInv
    <2> QED BY <2>1, <2>3, Zenon DEF Offered
  <1> QED BY <1>3, <1>4

-----------------------------------------------------------------------------
INSTANCE FiniteSetTheorems

\* Different slots, none of them s, are fewer than the slots.
LEMMA FewerSlots ==
    ASSUME NEW d \in Nat, NEW s \in Slot, NEW f \in [0..(d - 1) -> Slot \ {s}],
           \A j, k \in 0..(d - 1) : f[j] = f[k] => j = k
    PROVE  d < Ring
  <1>1. Slots \in Nat \ {0} /\ Slots <= Ring /\ Ring \in Nat
    BY BlockIoAssumption
  <1>2. IsFiniteSet(Slot) /\ Cardinality(Slot) = Slots
    BY <1>1, FS_Interval DEF Slot
  <1>3. IsFiniteSet(Slot \ {s}) /\ Cardinality(Slot \ {s}) = Slots - 1
    BY <1>2, FS_RemoveElement
  <1>4. IsFiniteSet(0..(d - 1)) /\ Cardinality(0..(d - 1)) = d
    BY FS_Interval
  <1>5. ~(Slots - 1 < d)
    <2> SUFFICES ASSUME Slots - 1 < d PROVE FALSE
      OBVIOUS
    <2>1. Cardinality(Slot \ {s}) < Cardinality(0..(d - 1))
      BY <1>3, <1>4
    <2>2. \E x, y \in 0..(d - 1) : x # y /\ f[x] = f[y]
      BY <1>3, <1>4, <2>1, FS_PigeonHole, SMTT(20)
    <2> QED BY <2>2
  <1> QED BY <1>1, <1>5

\* The rings have room: an entry is written only over one that was consumed.
LEMMA RingsHaveRoom ==
    ASSUME IInv, SlotInv, NEW s \in Slot
    PROVE  /\ ~active[s] => Ahead(devIdx, availIdx) < Ring
           /\ s \in inDevice => Ahead(lastUsed, usedIdx) < Ring
  <1>1. ASSUME ~active[s] PROVE Ahead(devIdx, availIdx) < Ring
    <2> DEFINE d == Ahead(devIdx, availIdx)
               f == [k \in 0..(d - 1) |-> Offered(k)]
    <2>1. d \in Nat
      BY IndexTypes DEF IInv
    <2>2. ASSUME NEW k \in 0..(d - 1) PROVE Offered(k) \in Slot \ {s}
      <3>1. devIdx + k \in Nat /\ Ring \in Nat \ {0}
        BY IndexTypes, BlockIoAssumption DEF IInv, Index
      <3>2. Offered(k) \in Slot
        BY <3>1, RemainderRange, Zenon DEF IInv, TypeOK, Offered
      <3> QED BY <1>1, <3>2 DEF SlotInv, ChainInv, Offers
    <2>3. \A j, k \in 0..(d - 1) : Offered(j) = Offered(k) => j = k
      BY DEF SlotInv, ChainInv, Offers
    <2> HIDE DEF d
    <2>4. f \in [0..(d - 1) -> Slot \ {s}]
      BY <2>2
    <2>5. \A j, k \in 0..(d - 1) : f[j] = f[k] => j = k
      BY <2>3
    <2> HIDE DEF f
    <2>6. d < Ring
      BY <2>1, <2>4, <2>5, FewerSlots
    <2> QED BY <2>6 DEF d
  <1>2. ASSUME s \in inDevice PROVE Ahead(lastUsed, usedIdx) < Ring
    <2> DEFINE d == Ahead(lastUsed, usedIdx)
               f == [k \in 0..(d - 1) |-> Answered(k)]
    <2>0. AnswerInv
      BY <1>2 DEF SlotInv, ChainInv, Astray
    <2>1. d \in Nat
      BY IndexTypes DEF IInv
    <2>2. ASSUME NEW k \in 0..(d - 1) PROVE Answered(k) \in Slot \ {s}
      <3>1. lastUsed + k \in Nat /\ Ring \in Nat \ {0}
        BY IndexTypes, BlockIoAssumption DEF IInv, Index
      <3>2. Answered(k) \in Slot
        BY <3>1, RemainderRange, Zenon DEF IInv, TypeOK, Answered
      <3> QED BY <1>2, <2>0, <3>2 DEF AnswerInv, Answers
    <2>3. \A j, k \in 0..(d - 1) : Answered(j) = Answered(k) => j = k
      BY <2>0 DEF AnswerInv, Answers
    <2> HIDE DEF d
    <2>4. f \in [0..(d - 1) -> Slot \ {s}]
      BY <2>2
    <2>5. \A j, k \in 0..(d - 1) : f[j] = f[k] => j = k
      BY <2>3
    <2> HIDE DEF f
    <2>6. d < Ring
      BY <2>1, <2>4, <2>5, FewerSlots
    <2> QED BY <2>6 DEF d
  <1> QED BY <1>1, <1>2

\* Every step but a timeout keeps SlotInv.
LEMMA SlotStep ==
    ASSUME IInv, SlotInv, [Next]_vars
    PROVE  pc' = "stopped" \/ SlotInv'
  <1>1. ASSUME NEW r \in Req, Submit(r) PROVE SlotInv'
    <2>1. \E s \in Slot : ~active[s]
      BY <1>1, Zenon DEF Submit, FirstFree, FreeSlots
    <2> QED BY <1>1, <2>1, RingsHaveRoom, SubmitChain
  <1>2. CASE Caller
    BY <1>1, <1>2, ThreadChains DEF Caller
  <1>3. CASE Thread
    BY <1>3, ThreadChains, HandleChain DEF Thread, PollTimeout
  <1>4. CASE StartScheduler
    BY <1>4, ThreadChains
  <1>5. CASE Irq \/ Tick \/ Dispatch
    BY <1>5, IrqChains
  <1>6. ASSUME NEW s \in Slot, DeviceAnswer(s) PROVE SlotInv'
    <2>1. s \in inDevice
      BY <1>6 DEF DeviceAnswer
    <2> QED BY <1>6, <2>1, RingsHaveRoom, AnswerChain
  <1>7. CASE Device
    BY <1>6, <1>7, TakeChain, Zenon DEF Device
  <1>8. CASE UNCHANGED vars
    <2>1. UNCHANGED <<active, request, avail, availIdx, used, usedIdx, devIdx, inDevice, lastUsed,
                      booting, pc, cur, elem>>
      BY <1>8 DEF vars, slots, device, thread
    <2>2. (Polling' <=> Polling) /\ (Astray' <=> Astray)
      BY <2>1 DEF Polling, Astray
    <2> QED BY <2>1, <2>2, SameChains DEF SlotInv
  <1> QED BY <1>2, <1>3, <1>4, <1>5, <1>7, <1>8 DEF Next, Stopped

\* The driver reuses a request slot only when its last chain is back from the device: no
\* descriptor is rewritten under the device, for any number of requests and slots and any
\* ring, although the boot poll and the interrupt may consume the same element.
THEOREM SlotsComeBack == Spec => SlotBackBeforeReuse
  <1> DEFINE S == pc # "stopped" => SlotInv
             A == \A s \in Slot : ~active[s] /\ active'[s] =>
                     /\ s \notin inDevice
                     /\ devIdx = availIdx \/ \A i \in Index :
                           (i - devIdx) % IdxMod < (availIdx - devIdx) % IdxMod => avail[i % Ring] # s
  <1>1. Init => S
    BY SlotInit
  <1>2. IInv /\ S /\ [Next]_vars => S'
    BY SlotStep, StaysStopped, Zenon
  <1>3. IInv /\ S /\ [Next]_vars => [A]_vars
    <2> SUFFICES ASSUME IInv, S, [Next]_vars PROVE A
      BY Zenon
    <2> QED BY ReuseStep, Zenon DEF Ahead
  <1> HIDE DEF S
  <1> QED BY <1>1, <1>2, <1>3, Invariant, PTL DEF Spec, SlotBackBeforeReuse
=============================================================================
