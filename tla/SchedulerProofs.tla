--------------------------- MODULE SchedulerProofs ---------------------------
(***************************************************************************)
(* The rest of the proof that Scheduler keeps Inv (SchedulerInv): waking,  *)
(* reaping and dispatching; then the theorems that follow from it; last,   *)
(* that no CPU sleeps over work, for any number of CPUs and threads.       *)
(***************************************************************************)
EXTENDS SchedulerInv

\* Preserved by mark_thread_ready.
LEMMA MarkReadyInv ==
    ASSUME Inv, NEW c \in CPU, MarkReady(c)
    PROVE  Inv'
  <1>1. /\ pc[c] = "ready" /\ arg[c] \in Thread /\ Holds(c, arg[c]) /\ arg[c] \notin waiters
        /\ state[arg[c]] \in {"Ready", "Running", "Blocked"}
        /\ \E d \in CPU : dest' = [dest EXCEPT ![c] = d]
        /\ state' = [state EXCEPT ![arg[c]] = "Ready"]
        /\ pc' = [pc EXCEPT ![c] = "enqueue"]
        /\ UNCHANGED <<runq, rqcpu, current, waiters, ipi, stack, arg, entry, after>>
    <2>1. /\ pc[c] = "ready" /\ arg[c] \in Thread /\ Holds(c, arg[c]) /\ arg[c] \notin waiters
          /\ state[arg[c]] \in {"Ready", "Running", "Blocked"}
      BY DEF MarkReady, Inv, Locals, HolderState, HeldIsUnlinked, Holds
    <2>2. CASE dest[c] = None
      BY <2>1, <2>2 DEF MarkReady, Goto, queues
    <2>3. CASE dest[c] # None
      <3>1. dest[c] \in CPU /\ dest = [dest EXCEPT ![c] = dest[c]]
        BY <2>3 DEF Inv, TypeOK
      <3> QED BY <2>1, <2>3, <3>1 DEF MarkReady, Goto, queues
    <2> QED BY <2>2, <2>3
  <1>2. TypeOK' /\ Locals'
    BY <1>1, SchedulerAssumption DEF Inv, TypeOK, PcValues, Locals
  <1>3. OneQueue'
    BY Zenon, <1>1 DEF Inv, OneQueue
  <1>4. HolderState'
    BY <1>1, SchedulerAssumption DEF Inv, TypeOK, Locals, HolderState, OneHolder, QueuedIsReady,
       Holds, Mine
  <1>5. /\ \A d \in CPU \ {c} : /\ pc'[d] = pc[d] /\ arg'[d] = arg[d] /\ current'[d] = current[d]
                                /\ entry'[d] = entry[d] /\ after'[d] = after[d]
        /\ \A x \in Thread \ {arg[c]} : /\ state'[x] = state[x] /\ rqcpu'[x] = rqcpu[x]
                                   /\ (x \in waiters' <=> x \in waiters)
    BY <1>1 DEF Inv, TypeOK
  <1>6. \A x \in Thread \ {arg[c]} : Holds(c, x)' => Holds(c, x)
    BY <1>1 DEF Inv, TypeOK, Locals, Holds, Mine
  <1>7. /\ NotLost(arg[c])' /\ (rqcpu'[arg[c]] # None => state'[arg[c]] = "Ready")
        /\ arg[c] \in waiters' => state'[arg[c]] = "Blocked" /\ rqcpu'[arg[c]] = None
    BY <1>1, SchedulerAssumption DEF Inv, TypeOK, NotLost, WaiterIsBlocked, QueuedIsReady
  <1>8. /\ \A d \in CPU \ {c} : Holds(d, arg[c]) => ~Holds(c, arg[c])' /\ rqcpu'[arg[c]] = None /\ arg[c] \notin waiters'
        /\ Holds(c, arg[c])' => rqcpu'[arg[c]] = None /\ arg[c] \notin waiters'
    BY <1>1, SchedulerAssumption DEF Inv, TypeOK, Locals, OneHolder, HeldIsUnlinked,
       WaiterIsBlocked, HolderState, QueuedIsReady, Holds, Mine
  <1> QED BY <1>1, <1>2, <1>3, <1>4, <1>5, <1>6, <1>7, <1>8, ThreadStep

\* Preserved by enqueue_thread_on_cpu.
LEMMA EnqueueInv ==
    ASSUME Inv, NEW c \in CPU, Enqueue(c)
    PROVE  Inv'
  <1>1. PICK p \in {"ipi", "wake", "reap", "pop", "return"} :
        /\ pc[c] = "enqueue" /\ arg[c] \in Thread /\ dest[c] \in CPU
        /\ rqcpu[arg[c]] = None /\ Holds(c, arg[c]) /\ arg[c] \notin waiters
        /\ state[arg[c]] = "Ready"
        /\ runq' = [runq EXCEPT ![dest[c]] = Append(runq[dest[c]], arg[c])]
        /\ rqcpu' = [rqcpu EXCEPT ![arg[c]] = dest[c]]
        /\ p \in {"ipi", after[c]} /\ pc' = [pc EXCEPT ![c] = p]
        /\ UNCHANGED <<state, current, waiters, ipi, stack, arg, dest, entry, after>>
    BY DEF Enqueue, Goto, queues, Inv, Locals, HeldIsUnlinked, HolderState, Holds
  <1>2. TypeOK' /\ Locals'
    <2>1. runq' \in [CPU -> Seq(Thread)]
      BY <1>1, AppendFacts DEF Inv, TypeOK
    <2> QED BY <1>1, <2>1 DEF Inv, TypeOK, PcValues, Locals
  <1>3. OneQueue'
    <2> DEFINE q == runq[dest[c]]
    <2>1. q \in Seq(Thread) /\ ~InQueue(q, arg[c]) /\ NoDuplicates(q)
      BY <1>1, SchedulerAssumption DEF Inv, TypeOK, OneQueue
    <2>2. /\ \A x \in Thread : InQueue(Append(q, arg[c]), x) <=> InQueue(q, x) \/ x = arg[c]
          /\ NoDuplicates(Append(q, arg[c]))
      BY <1>1, <2>1, AppendFacts, Zenon
    <2>3. /\ runq'[dest[c]] = Append(q, arg[c]) /\ rqcpu'[arg[c]] = dest[c]
          /\ \A d \in CPU : d # dest[c] => runq'[d] = runq[d]
          /\ \A x \in Thread : x # arg[c] => rqcpu'[x] = rqcpu[x]
      BY <1>1 DEF Inv, TypeOK
    <2> HIDE DEF q
    <2>4. \A d \in CPU, x \in Thread : InQueue(runq'[d], x) => rqcpu'[x] = d
      BY <1>1, <2>2, <2>3, SchedulerAssumption DEF Inv, TypeOK, OneQueue, q
    <2>5. \A x \in Thread : rqcpu'[x] # None => InQueue(runq'[rqcpu'[x]], x)
      BY <1>1, <2>2, <2>3, SchedulerAssumption DEF Inv, TypeOK, OneQueue, q
    <2>6. \A d \in CPU : NoDuplicates(runq'[d])
      BY Zenon, <1>1, <2>2, <2>3 DEF Inv, OneQueue
    <2> QED BY <2>4, <2>5, <2>6 DEF OneQueue, InQueue, NoDuplicates
  <1>4. HolderState'
    <2>1. current[c] \in Thread /\ Mine(c)' => Mine(c)
      BY <1>1 DEF Inv, TypeOK, Locals, Mine
    <2> QED BY <1>1, <2>1 DEF Inv, TypeOK, HolderState, Mine
  <1>5. /\ \A d \in CPU \ {c} : /\ pc'[d] = pc[d] /\ arg'[d] = arg[d] /\ current'[d] = current[d]
                                /\ entry'[d] = entry[d] /\ after'[d] = after[d]
        /\ \A x \in Thread \ {arg[c]} : /\ state'[x] = state[x] /\ rqcpu'[x] = rqcpu[x]
                                   /\ (x \in waiters' <=> x \in waiters)
    BY <1>1 DEF Inv, TypeOK
  <1>6. \A x \in Thread \ {arg[c]} : Holds(c, x)' => Holds(c, x)
    BY <1>1 DEF Inv, TypeOK, Locals, Holds, Mine
  <1>7. /\ NotLost(arg[c])' /\ (rqcpu'[arg[c]] # None => state'[arg[c]] = "Ready")
        /\ arg[c] \in waiters' => state'[arg[c]] = "Blocked" /\ rqcpu'[arg[c]] = None
    BY <1>1, SchedulerAssumption DEF Inv, TypeOK, NotLost, WaiterIsBlocked, QueuedIsReady
  <1>8. /\ \A d \in CPU \ {c} : Holds(d, arg[c]) => ~Holds(c, arg[c])' /\ rqcpu'[arg[c]] = None /\ arg[c] \notin waiters'
        /\ Holds(c, arg[c])' => rqcpu'[arg[c]] = None /\ arg[c] \notin waiters'
    BY <1>1, SchedulerAssumption DEF Inv, TypeOK, Locals, OneHolder, HeldIsUnlinked,
       WaiterIsBlocked, HolderState, QueuedIsReady, Holds, Mine
  <1> QED BY <1>1, <1>2, <1>3, <1>4, <1>5, <1>6, <1>7, <1>8, ThreadStep

\* Preserved by ipi_send_reschedule.
LEMMA SendIpiInv ==
    ASSUME Inv, NEW c \in CPU, SendIpi(c)
    PROVE  Inv'
  <1>1. TypeOK' /\ Locals'
    BY SchedulerAssumption DEF Inv, TypeOK, PcValues, Locals, SendIpi, Goto, queues
  <1>2. /\ UNCHANGED <<state, runq, rqcpu, waiters>>
        /\ \A d \in CPU \ {c} : /\ pc'[d] = pc[d] /\ arg'[d] = arg[d] /\ current'[d] = current[d]
                                /\ entry'[d] = entry[d] /\ after'[d] = after[d]
        /\ pc[c] \notin {"ready", "enqueue", "dispatch"}
    BY DEF Inv, TypeOK, SendIpi, Goto, queues
  <1>3. \A x \in Thread : Holds(c, x)' => Holds(c, x)
    BY SchedulerAssumption DEF Inv, TypeOK, Locals, Holds, Mine, SendIpi, Goto, queues
  <1>4. HolderState'
    BY SchedulerAssumption DEF Inv, TypeOK, Locals, HolderState, Mine, SendIpi, Goto, queues
  <1> QED BY Zenon, <1>1, <1>2, <1>3, <1>4, HandlerStep

\* Preserved by the reaper's search.
LEMMA ReapFindInv ==
    ASSUME Inv, NEW c \in CPU, ReapFind(c)
    PROVE  Inv'
  <1>1. TypeOK' /\ Locals'
    BY SchedulerAssumption DEF Inv, TypeOK, PcValues, Locals, ReapFind, Goto, queues
  <1>2. /\ UNCHANGED <<state, runq, rqcpu, waiters>>
        /\ \A d \in CPU \ {c} : /\ pc'[d] = pc[d] /\ arg'[d] = arg[d] /\ current'[d] = current[d]
                                /\ entry'[d] = entry[d] /\ after'[d] = after[d]
        /\ pc[c] \notin {"ready", "enqueue", "dispatch"}
    BY DEF Inv, TypeOK, ReapFind, Goto, queues
  <1>3. \A x \in Thread : Holds(c, x)' => Holds(c, x)
    BY SchedulerAssumption DEF Inv, TypeOK, Locals, Holds, Mine, ReapFind, Goto, queues
  <1>4. HolderState'
    BY SchedulerAssumption DEF Inv, TypeOK, Locals, HolderState, Mine, ReapFind, Goto, queues
  <1> QED BY Zenon, <1>1, <1>2, <1>3, <1>4, HandlerStep

\* Preserved by clear_thread.
LEMMA ReapFreeInv ==
    ASSUME Inv, NEW c \in CPU, ReapFree(c)
    PROVE  Inv'
  <1>1. /\ pc[c] = "free" /\ arg[c] \in Thread /\ state[arg[c]] = "Dying" /\ rqcpu[arg[c]] = None
        /\ runq' = runq /\ rqcpu' = rqcpu
        /\ state' = [state EXCEPT ![arg[c]] = "Free"]
        /\ pc' = [pc EXCEPT ![c] = "childwake"]
        /\ UNCHANGED <<current, waiters, ipi, stack, arg, dest, entry, after>>
    <2>1. /\ pc[c] = "free" /\ arg[c] \in Thread /\ state[arg[c]] = "Dying" /\ rqcpu[arg[c]] = None
      BY Zenon DEF ReapFree, Inv, Locals, HolderState, QueuedIsReady
    <2>2. runq' = [d \in CPU |-> runq[d]]
      BY Zenon, <2>1, SchedulerAssumption DEF ReapFree
    <2> QED BY Zenon, <2>1, <2>2 DEF ReapFree, Goto, Inv, TypeOK
  <1>2. TypeOK' /\ Locals'
    BY <1>1, SchedulerAssumption DEF Inv, TypeOK, PcValues, Locals
  <1>3. OneQueue'
    BY Zenon, <1>1 DEF Inv, OneQueue
  <1>4. HolderState'
    BY <1>1, SchedulerAssumption DEF Inv, TypeOK, Locals, HolderState, OneHolder, QueuedIsReady,
       Holds, Mine
  <1>5. /\ \A d \in CPU \ {c} : /\ pc'[d] = pc[d] /\ arg'[d] = arg[d] /\ current'[d] = current[d]
                                /\ entry'[d] = entry[d] /\ after'[d] = after[d]
        /\ \A x \in Thread \ {arg[c]} : /\ state'[x] = state[x] /\ rqcpu'[x] = rqcpu[x]
                                   /\ (x \in waiters' <=> x \in waiters)
    BY <1>1 DEF Inv, TypeOK
  <1>6. \A x \in Thread \ {arg[c]} : Holds(c, x)' => Holds(c, x)
    BY <1>1 DEF Inv, TypeOK, Locals, Holds, Mine
  <1>7. /\ NotLost(arg[c])' /\ (rqcpu'[arg[c]] # None => state'[arg[c]] = "Ready")
        /\ arg[c] \in waiters' => state'[arg[c]] = "Blocked" /\ rqcpu'[arg[c]] = None
    BY <1>1, SchedulerAssumption DEF Inv, TypeOK, NotLost, WaiterIsBlocked, QueuedIsReady
  <1>8. /\ \A d \in CPU \ {c} : Holds(d, arg[c]) => ~Holds(c, arg[c])' /\ rqcpu'[arg[c]] = None /\ arg[c] \notin waiters'
        /\ Holds(c, arg[c])' => rqcpu'[arg[c]] = None /\ arg[c] \notin waiters'
    BY <1>1, SchedulerAssumption DEF Inv, TypeOK, Locals, OneHolder, HeldIsUnlinked,
       WaiterIsBlocked, HolderState, QueuedIsReady, Holds, Mine
  <1> QED BY Zenon, <1>1, <1>2, <1>3, <1>4, <1>5, <1>6, <1>7, <1>8, ThreadStep

\* Preserved by the reaper finding nothing.
LEMMA ReapDoneInv ==
    ASSUME Inv, NEW c \in CPU, ReapDone(c)
    PROVE  Inv'
  <1>1. TypeOK' /\ Locals'
    BY SchedulerAssumption DEF Inv, TypeOK, PcValues, Locals, ReapDone, Goto, queues
  <1>2. /\ UNCHANGED <<state, runq, rqcpu, waiters>>
        /\ \A d \in CPU \ {c} : /\ pc'[d] = pc[d] /\ arg'[d] = arg[d] /\ current'[d] = current[d]
                                /\ entry'[d] = entry[d] /\ after'[d] = after[d]
        /\ pc[c] \notin {"ready", "enqueue", "dispatch"}
    BY DEF Inv, TypeOK, ReapDone, Goto, queues
  <1>3. \A x \in Thread : Holds(c, x)' => Holds(c, x)
    BY SchedulerAssumption DEF Inv, TypeOK, Locals, Holds, Mine, ReapDone, Goto, queues
  <1>4. HolderState'
    BY SchedulerAssumption DEF Inv, TypeOK, Locals, HolderState, Mine, ReapDone, Goto, queues
  <1> QED BY Zenon, <1>1, <1>2, <1>3, <1>4, HandlerStep

\* Preserved by the end of handle_irq.
LEMMA IrqTailInv ==
    ASSUME Inv, NEW c \in CPU, IrqTail(c)
    PROVE  Inv'
  <1>0. TypeOK'
    BY ZenonT(30) DEF Inv, TypeOK, PcValues, IrqTail, Goto, ScheduleNext, queues
  <1>1. Locals'
    BY SchedulerAssumption DEF Inv, TypeOK, Locals, IrqTail, Goto, ScheduleNext, queues
  <1>2. /\ UNCHANGED <<state, runq, rqcpu, waiters>>
        /\ \A d \in CPU \ {c} : /\ pc'[d] = pc[d] /\ arg'[d] = arg[d] /\ current'[d] = current[d]
                                /\ entry'[d] = entry[d] /\ after'[d] = after[d]
        /\ pc[c] \notin {"ready", "enqueue", "dispatch"}
    BY DEF Inv, TypeOK, IrqTail, Goto, ScheduleNext, queues
  <1>3. \A x \in Thread : Holds(c, x)' => Holds(c, x)
    BY SchedulerAssumption DEF Inv, TypeOK, Locals, Holds, Mine, IrqTail, Goto, ScheduleNext,
       queues
  <1>4. HolderState'
    BY SchedulerAssumption DEF Inv, TypeOK, Locals, HolderState, Mine, IrqTail, Goto,
       ScheduleNext, queues
  <1> QED BY <1>0, <1>1, <1>2, <1>3, <1>4, HandlerStep, Zenon

\* Preserved by schedule_next(true) with a running thread.
LEMMA KeepCurrentRequeueInv ==
    ASSUME Inv, NEW c \in CPU, KeepCurrent(c), current[c] # Idle /\ state[current[c]] = "Running"
    PROVE  Inv'
  <1>1. /\ pc[c] = "keep" /\ current[c] \in Thread /\ state[current[c]] = "Running"
        /\ arg' = [arg EXCEPT ![c] = current[c]]
        /\ dest' = [dest EXCEPT ![c] = c]
        /\ after' = [after EXCEPT ![c] = "pop"]
        /\ pc' = [pc EXCEPT ![c] = "ready"]
        /\ UNCHANGED <<state, runq, rqcpu, current, waiters, ipi, stack, entry>>
    BY DEF KeepCurrent, Goto, queues, Inv, TypeOK
  <1>2. TypeOK' /\ Locals'
    BY <1>1, SchedulerAssumption DEF Inv, TypeOK, PcValues, Locals
  <1>3. OneQueue'
    BY Zenon, <1>1 DEF Inv, OneQueue
  <1>4. HolderState'
    BY <1>1, SchedulerAssumption DEF Inv, TypeOK, Locals, HolderState, OneHolder, QueuedIsReady,
       Holds, Mine
  <1>5. /\ \A d \in CPU \ {c} : /\ pc'[d] = pc[d] /\ arg'[d] = arg[d] /\ current'[d] = current[d]
                                /\ entry'[d] = entry[d] /\ after'[d] = after[d]
        /\ \A x \in Thread \ {current[c]} : /\ state'[x] = state[x] /\ rqcpu'[x] = rqcpu[x]
                                   /\ (x \in waiters' <=> x \in waiters)
    BY <1>1 DEF Inv, TypeOK
  <1>6. \A x \in Thread \ {current[c]} : Holds(c, x)' => Holds(c, x)
    BY <1>1 DEF Inv, TypeOK, Locals, Holds, Mine
  <1>7. /\ NotLost(current[c])' /\ (rqcpu'[current[c]] # None => state'[current[c]] = "Ready")
        /\ current[c] \in waiters' => state'[current[c]] = "Blocked" /\ rqcpu'[current[c]] = None
    BY <1>1, SchedulerAssumption DEF Inv, TypeOK, NotLost, WaiterIsBlocked, QueuedIsReady
  <1>8. /\ \A d \in CPU \ {c} : Holds(d, current[c]) => ~Holds(c, current[c])' /\ rqcpu'[current[c]] = None /\ current[c] \notin waiters'
        /\ Holds(c, current[c])' => rqcpu'[current[c]] = None /\ current[c] \notin waiters'
    BY <1>1, SchedulerAssumption DEF Inv, TypeOK, Locals, OneHolder, HeldIsUnlinked,
       WaiterIsBlocked, HolderState, QueuedIsReady, Holds, Mine
  <1> QED BY Zenon, <1>1, <1>2, <1>3, <1>4, <1>5, <1>6, <1>7, <1>8, ThreadStep

\* Preserved by schedule_next(true) on the idle thread.
LEMMA KeepCurrentIdleInv ==
    ASSUME Inv, NEW c \in CPU, KeepCurrent(c), ~(current[c] # Idle /\ state[current[c]] = "Running")
    PROVE  Inv'
  <1>0. TypeOK'
    BY Zenon DEF Inv, TypeOK, PcValues, KeepCurrent, Goto, queues
  <1>1. Locals'
    BY SchedulerAssumption DEF Inv, TypeOK, Locals, KeepCurrent, Goto, queues
  <1>2. /\ UNCHANGED <<state, runq, rqcpu, waiters>>
        /\ \A d \in CPU \ {c} : /\ pc'[d] = pc[d] /\ arg'[d] = arg[d] /\ current'[d] = current[d]
                                /\ entry'[d] = entry[d] /\ after'[d] = after[d]
        /\ pc[c] \notin {"ready", "enqueue", "dispatch"}
    BY DEF Inv, TypeOK, KeepCurrent, Goto, queues
  <1>3. \A x \in Thread : Holds(c, x)' => Holds(c, x)
    BY SchedulerAssumption DEF Inv, TypeOK, Locals, Holds, Mine, KeepCurrent, Goto, queues
  <1>4. HolderState'
    BY SchedulerAssumption DEF Inv, TypeOK, Locals, HolderState, Mine, KeepCurrent, Goto, queues
  <1> QED BY Zenon, <1>0, <1>1, <1>2, <1>3, <1>4, HandlerStep

\* Preserved by next_runnable_thread on an empty queue.
LEMMA PopIdleInv ==
    ASSUME Inv, NEW c \in CPU, Pop(c), runq[c] = <<>>
    PROVE  Inv'
  <1>0. /\ pc[c] = "pop"
        /\ arg' = [arg EXCEPT ![c] = Idle]
        /\ pc' = [pc EXCEPT ![c] = "dispatch"]
        /\ UNCHANGED <<state, runq, rqcpu, current, waiters, ipi, stack, dest, entry, after>>
    BY DEF Pop, Goto, queues
  <1>1. TypeOK' /\ Locals'
    BY <1>0, SchedulerAssumption DEF Inv, TypeOK, PcValues, Locals
  <1>2. /\ UNCHANGED <<state, runq, rqcpu, waiters>>
        /\ \A d \in CPU \ {c} : /\ pc'[d] = pc[d] /\ arg'[d] = arg[d] /\ current'[d] = current[d]
                                /\ entry'[d] = entry[d] /\ after'[d] = after[d]
        /\ pc[c] \notin {"ready", "enqueue", "dispatch"}
    BY DEF Inv, TypeOK, Pop, Goto, queues
  <1>3. \A x \in Thread : Holds(c, x)' => Holds(c, x)
    BY SchedulerAssumption DEF Inv, TypeOK, Locals, Holds, Mine, Pop, Goto, queues
  <1>4. HolderState'
    BY SchedulerAssumption DEF Inv, TypeOK, Locals, HolderState, Mine, Pop, Goto, queues
  <1> QED BY Zenon, <1>1, <1>2, <1>3, <1>4, HandlerStep

\* Preserved by dequeue_ready_thread.
LEMMA PopHeadInv ==
    ASSUME Inv, NEW c \in CPU, Pop(c), runq[c] # <<>>
    PROVE  Inv'
  <1>0. PICK t \in Thread :
        /\ t = Head(runq[c])
        /\ runq[c] \in Seq(Thread) /\ NoDuplicates(runq[c])
        /\ InQueue(runq[c], t)
        /\ Tail(runq[c]) \in Seq(Thread) /\ NoDuplicates(Tail(runq[c]))
        /\ \A x \in Thread : InQueue(Tail(runq[c]), x) <=> InQueue(runq[c], x) /\ x # t
    <2>1. runq[c] \in Seq(Thread) /\ NoDuplicates(runq[c])
      BY DEF Inv, TypeOK, OneQueue
    <2> QED BY <2>1, TailFacts, Zenon
  <1>1. /\ pc[c] = "pop" /\ t \in Thread /\ rqcpu[t] = c /\ state[t] = "Ready"
        /\ t \notin waiters /\ \A d \in CPU : ~Holds(d, t)
        /\ arg' = [arg EXCEPT ![c] = t]
        /\ runq' = [runq EXCEPT ![c] = Tail(runq[c])]
        /\ rqcpu' = [rqcpu EXCEPT ![t] = None]
        /\ pc' = [pc EXCEPT ![c] = "dispatch"]
        /\ UNCHANGED <<state, current, waiters, ipi, stack, dest, entry, after>>
    BY <1>0, SchedulerAssumption DEF Pop, Goto, Inv, OneQueue, QueuedIsReady,
       WaiterIsBlocked, HeldIsUnlinked
  <1>2. TypeOK' /\ Locals'
    <2>1. runq' \in [CPU -> Seq(Thread)]
      BY Zenon, <1>0, <1>1 DEF Inv, TypeOK
    <2> QED BY <1>1, <2>1 DEF Inv, TypeOK, PcValues, Locals
  <1>3. OneQueue'
    <2>1. /\ runq'[c] = Tail(runq[c]) /\ rqcpu'[t] = None
          /\ \A d \in CPU : d # c => runq'[d] = runq[d]
          /\ \A x \in Thread : x # t => rqcpu'[x] = rqcpu[x]
      BY <1>1 DEF Inv, TypeOK
    <2>2. \A d \in CPU, x \in Thread : InQueue(runq'[d], x) => rqcpu'[x] = d
      BY <1>0, <1>1, <2>1, SchedulerAssumption DEF Inv, TypeOK, OneQueue
    <2>3. \A x \in Thread : rqcpu'[x] # None => InQueue(runq'[rqcpu'[x]], x)
      BY <1>0, <1>1, <2>1, SchedulerAssumption DEF Inv, TypeOK, OneQueue
    <2>4. \A d \in CPU : NoDuplicates(runq'[d])
      BY <1>0, <1>1, <2>1 DEF Inv, OneQueue
    <2> QED BY Zenon, <2>2, <2>3, <2>4 DEF OneQueue, InQueue, NoDuplicates
  <1>4. HolderState'
    BY <1>1, SchedulerAssumption DEF Inv, TypeOK, Locals, HolderState, OneHolder, QueuedIsReady,
       Holds, Mine
  <1>5. /\ \A d \in CPU \ {c} : /\ pc'[d] = pc[d] /\ arg'[d] = arg[d] /\ current'[d] = current[d]
                                /\ entry'[d] = entry[d] /\ after'[d] = after[d]
        /\ \A x \in Thread \ {t} : /\ state'[x] = state[x] /\ rqcpu'[x] = rqcpu[x]
                                   /\ (x \in waiters' <=> x \in waiters)
    BY <1>1 DEF Inv, TypeOK
  <1>6. \A x \in Thread \ {t} : Holds(c, x)' => Holds(c, x)
    BY <1>1 DEF Inv, TypeOK, Locals, Holds, Mine
  <1>7. /\ NotLost(t)' /\ (rqcpu'[t] # None => state'[t] = "Ready")
        /\ t \in waiters' => state'[t] = "Blocked" /\ rqcpu'[t] = None
    BY SMTT(30), <1>1, SchedulerAssumption DEF Inv, TypeOK, NotLost, WaiterIsBlocked, QueuedIsReady
  <1>8. /\ \A d \in CPU \ {c} : Holds(d, t) => ~Holds(c, t)' /\ rqcpu'[t] = None /\ t \notin waiters'
        /\ Holds(c, t)' => rqcpu'[t] = None /\ t \notin waiters'
    BY <1>1, SchedulerAssumption DEF Inv, TypeOK, Locals, OneHolder, HeldIsUnlinked,
       WaiterIsBlocked, HolderState, QueuedIsReady, Holds, Mine
  <1> QED BY Zenon, <1>1, <1>2, <1>3, <1>4, <1>5, <1>6, <1>7, <1>8, ThreadStep

\* Preserved by schedule_next choosing the idle thread.
LEMMA DispatchIdleInv ==
    ASSUME Inv, NEW c \in CPU, Dispatch(c), arg[c] \notin Thread
    PROVE  Inv'
  <1>1. TypeOK' /\ Locals'
    BY SchedulerAssumption DEF Inv, TypeOK, PcValues, Locals, Dispatch, Goto, queues
  <1>2. /\ UNCHANGED <<state, runq, rqcpu, waiters>>
        /\ \A d \in CPU \ {c} : /\ pc'[d] = pc[d] /\ arg'[d] = arg[d] /\ current'[d] = current[d]
                                /\ entry'[d] = entry[d] /\ after'[d] = after[d]
    BY DEF Inv, TypeOK, Dispatch, Goto, queues
  <1>3. \A x \in Thread : Holds(c, x)' => Holds(c, x)
    BY SMTT(30), SchedulerAssumption DEF Inv, TypeOK, Locals, Holds, Mine, Dispatch, Goto, queues
  <1>4. HolderState'
    BY SchedulerAssumption DEF Inv, TypeOK, Locals, HolderState, Mine, Dispatch, Goto, queues
  <1> QED BY Zenon, <1>1, <1>2, <1>3, <1>4, HandlerStep

\* Preserved by schedule_next marking the thread Running.
LEMMA DispatchThreadInv ==
    ASSUME Inv, NEW c \in CPU, Dispatch(c), arg[c] \in Thread
    PROVE  Inv'
  <1>1. /\ pc[c] = "dispatch" /\ arg[c] \in Thread /\ state[arg[c]] = "Ready"
        /\ rqcpu[arg[c]] = None /\ arg[c] \notin waiters /\ Holds(c, arg[c])
        /\ state' = [state EXCEPT ![arg[c]] = "Running"]
        /\ pc' = [pc EXCEPT ![c] = "restore"]
        /\ UNCHANGED <<runq, rqcpu, current, waiters, ipi, stack, arg, dest, entry, after>>
    BY ZenonT(30) DEF Dispatch, Goto, queues, Inv, TypeOK, HolderState, HeldIsUnlinked, Holds
  <1>2. TypeOK' /\ Locals'
    BY <1>1, SchedulerAssumption DEF Inv, TypeOK, PcValues, Locals
  <1>3. OneQueue'
    BY ZenonT(30), <1>1 DEF Inv, OneQueue
  <1>4. HolderState'
    BY SMTT(30), <1>1, SchedulerAssumption DEF Inv, TypeOK, Locals, HolderState, OneHolder, QueuedIsReady,
       Holds, Mine
  <1>5. /\ \A d \in CPU \ {c} : /\ pc'[d] = pc[d] /\ arg'[d] = arg[d] /\ current'[d] = current[d]
                                /\ entry'[d] = entry[d] /\ after'[d] = after[d]
        /\ \A x \in Thread \ {arg[c]} : /\ state'[x] = state[x] /\ rqcpu'[x] = rqcpu[x]
                                   /\ (x \in waiters' <=> x \in waiters)
    BY <1>1 DEF Inv, TypeOK
  <1>6. \A x \in Thread \ {arg[c]} : Holds(c, x)' => Holds(c, x)
    BY <1>1 DEF Inv, TypeOK, Locals, Holds, Mine
  <1>7. /\ NotLost(arg[c])' /\ (rqcpu'[arg[c]] # None => state'[arg[c]] = "Ready")
        /\ arg[c] \in waiters' => state'[arg[c]] = "Blocked" /\ rqcpu'[arg[c]] = None
    BY SMTT(30), <1>1, SchedulerAssumption DEF Inv, TypeOK, NotLost, WaiterIsBlocked, QueuedIsReady
  <1>8. /\ \A d \in CPU \ {c} : Holds(d, arg[c]) => ~Holds(c, arg[c])' /\ rqcpu'[arg[c]] = None /\ arg[c] \notin waiters'
        /\ Holds(c, arg[c])' => rqcpu'[arg[c]] = None /\ arg[c] \notin waiters'
    BY <1>1, SchedulerAssumption DEF Inv, TypeOK, Locals, OneHolder, HeldIsUnlinked,
       WaiterIsBlocked, HolderState, QueuedIsReady, Holds, Mine
  <1> QED BY Zenon, <1>1, <1>2, <1>3, <1>4, <1>5, <1>6, <1>7, <1>8, ThreadStep

\* Preserved by restore_thread.
LEMMA RestoreInv ==
    ASSUME Inv, NEW c \in CPU, Restore(c)
    PROVE  Inv'
  <1>1. TypeOK' /\ Locals'
    BY SchedulerAssumption DEF Inv, TypeOK, PcValues, Locals, Restore, Goto, queues
  <1>2. /\ UNCHANGED <<state, runq, rqcpu, waiters>>
        /\ \A d \in CPU \ {c} : /\ pc'[d] = pc[d] /\ arg'[d] = arg[d] /\ current'[d] = current[d]
                                /\ entry'[d] = entry[d] /\ after'[d] = after[d]
        /\ pc[c] \notin {"ready", "enqueue", "dispatch"}
    BY DEF Inv, TypeOK, Restore, Goto, queues
  <1>3. \A x \in Thread : Holds(c, x)' => Holds(c, x)
    BY SchedulerAssumption DEF Inv, TypeOK, Locals, Holds, Mine, Restore, Goto, queues
  <1>4. HolderState'
    BY SchedulerAssumption DEF Inv, TypeOK, Locals, HolderState, Mine, Restore, Goto, queues
  <1> QED BY Zenon, <1>1, <1>2, <1>3, <1>4, HandlerStep

\* Preserved by the return to user mode.
LEMMA ReturnInv ==
    ASSUME Inv, NEW c \in CPU, Return(c)
    PROVE  Inv'
  <1>1. TypeOK' /\ Locals'
    BY SchedulerAssumption DEF Inv, TypeOK, PcValues, Locals, Return, Goto, queues
  <1>2. /\ UNCHANGED <<state, runq, rqcpu, waiters>>
        /\ \A d \in CPU \ {c} : /\ pc'[d] = pc[d] /\ arg'[d] = arg[d] /\ current'[d] = current[d]
                                /\ entry'[d] = entry[d] /\ after'[d] = after[d]
        /\ pc[c] \notin {"ready", "enqueue", "dispatch"}
    BY DEF Inv, TypeOK, Return, Goto, queues
  <1>3. \A x \in Thread : Holds(c, x)' => Holds(c, x)
    BY SchedulerAssumption DEF Inv, TypeOK, Locals, Holds, Mine, Return, Goto, queues
  <1>4. HolderState'
    BY SchedulerAssumption DEF Inv, TypeOK, Locals, HolderState, Mine, Return, Goto, queues
  <1> QED BY Zenon, <1>1, <1>2, <1>3, <1>4, HandlerStep

-----------------------------------------------------------------------------
\* The state kernel_main and cpu_boot_others leave satisfies the invariant.
LEMMA InitInv == Init => Inv
  <1> SUFFICES ASSUME Init PROVE Inv
    OBVIOUS
  <1>1. TypeOK
    BY SchedulerAssumption DEF Init, TypeOK, PcValues
  <1>2. OneQueue
    BY DEF Init, OneQueue, InQueue, NoDuplicates
  <1>3. Locals /\ QueuedIsReady /\ WaiterIsBlocked
    BY DEF Init, Locals, QueuedIsReady, WaiterIsBlocked
  <1>4. OneHolder /\ HeldIsUnlinked /\ HolderState
    BY SchedulerAssumption DEF Init, OneHolder, HeldIsUnlinked, HolderState, Holds, Mine
  <1>5. NoThreadLost
    BY DEF Init, NoThreadLost, NotLost
  <1> QED BY <1>1, <1>2, <1>3, <1>4, <1>5 DEF Inv

\* The invariant reads nothing but the variables.
LEMMA StutterInv ==
    ASSUME Inv, UNCHANGED vars
    PROVE  Inv'
  <1>1. /\ state' = state /\ runq' = runq /\ rqcpu' = rqcpu /\ current' = current
        /\ waiters' = waiters /\ ipi' = ipi /\ stack' = stack /\ pc' = pc /\ arg' = arg
        /\ dest' = dest /\ entry' = entry /\ after' = after
    BY DEF vars
  <1>2. TypeOK' /\ Locals' /\ OneQueue' /\ QueuedIsReady' /\ WaiterIsBlocked'
    BY SMTT(30), <1>1 DEF Inv, TypeOK, Locals, OneQueue, QueuedIsReady, WaiterIsBlocked
  <1>3. \A c \in CPU, t \in Thread : (Mine(c)' <=> Mine(c)) /\ (Holds(c, t)' <=> Holds(c, t))
    BY <1>1 DEF Holds, Mine
  <1>4. OneHolder' /\ HeldIsUnlinked'
    BY <1>1, <1>3 DEF Inv, OneHolder, HeldIsUnlinked
  <1>5. HolderState'
    BY <1>1, <1>3 DEF Inv, HolderState
  <1>6. NoThreadLost'
    BY <1>1 DEF Inv, NoThreadLost, NotLost
  <1> QED BY <1>2, <1>4, <1>5, <1>6 DEF Inv

\* Every step of every CPU preserves the invariant, and so does stuttering.
LEMMA NextInv == Inv /\ [Next]_vars => Inv'
  <1> SUFFICES ASSUME Inv, [Next]_vars PROVE Inv'
    OBVIOUS
  <1>1. CASE UNCHANGED vars
    BY <1>1, StutterInv
  <1>2. ASSUME NEW c \in CPU, Tick(c) \/ Resched(c) \/ DeviceIrq(c) \/ Yield(c) \/ Block(c) \/ Exit(c)
        PROVE  Inv'
    BY <1>2, TickInv, ReschedInv, DeviceIrqInv, YieldInv, BlockInv, ExitInv
  <1>3. ASSUME NEW c \in CPU, NEW t \in Thread, Spawn(c, t)
        PROVE  Inv'
    BY <1>3, SpawnInv
  <1>4. ASSUME NEW c \in CPU, Kernel(c)
        PROVE  Inv'
    <2>1. CASE WakeWaiter(c)
      BY <2>1, WakeWaiterSelfInv, WakeWaiterOtherInv
    <2>2. CASE KeepCurrent(c)
      BY <2>2, KeepCurrentRequeueInv, KeepCurrentIdleInv
    <2>3. CASE Pop(c)
      BY <2>3, PopIdleInv, PopHeadInv
    <2>4. CASE Dispatch(c)
      BY <2>4, DispatchIdleInv, DispatchThreadInv
    <2> QED BY <1>4, <2>1, <2>2, <2>3, <2>4, MigrateInv, NoMigrationInv, WakeDoneInv, MarkReadyInv,
               EnqueueInv, SendIpiInv, ReapFindInv, ReapFreeInv, ReapDoneInv, IrqTailInv,
               RestoreInv, ReturnInv DEF Kernel
  <1> QED BY <1>1, <1>2, <1>3, <1>4 DEF Next

\* The inductive invariant holds in every reachable state.
THEOREM SchedulerInvariant == Spec => []Inv
  BY InitInv, NextInv, PTL DEF Spec

\* The scheduler's state keeps its types on any number of CPUs.
THEOREM TypeCorrect == Spec => []TypeOK
  <1>1. Inv => TypeOK
    BY DEF Inv
  <1> QED BY <1>1, SchedulerInvariant, PTL

\* The queues threaded through the thread records never share a node: append,
\* remove, detach and dequeue keep every thread on at most one queue.
THEOREM QueuesAreDisjoint == Spec => []OneQueue
  <1>1. Inv => OneQueue
    BY DEF Inv
  <1> QED BY <1>1, SchedulerInvariant, PTL

\* schedule_next never resumes a thread that has blocked or died since it was
\* queued.
THEOREM OnlyReadyThreadsAreQueued == Spec => []QueuedIsReady
  <1>1. Inv => QueuedIsReady
    BY DEF Inv
  <1> QED BY <1>1, SchedulerInvariant, PTL

\* No interleaving of block, wake-up, preemption and migration drops a Ready or
\* a Blocked thread.
THEOREM ThreadsAreNeverLost == Spec => []NoThreadLost
  <1>1. Inv => NoThreadLost
    BY DEF Inv
  <1> QED BY <1>1, SchedulerInvariant, PTL

\* schedule_next and restore_thread never enter one thread on two CPUs.
THEOREM ThreadsRunOnOneCpu == Spec => []RunsOnOneCpu
  <1>1. Inv => RunsOnOneCpu
    <2> SUFFICES ASSUME Inv, NEW c \in CPU, NEW d \in CPU, pc[c] = "user", pc[d] = "user",
                        current[c] = current[d], current[c] # Idle
                 PROVE  c = d
      BY DEF RunsOnOneCpu
    <2>1. current[c] \in Thread
      BY DEF Inv, TypeOK
    <2>2. Holds(c, current[c]) /\ Holds(d, current[c])
      BY DEF Holds, Mine
    <2> QED BY <2>1, <2>2 DEF Inv, OneHolder
  <1> QED BY <1>1, SchedulerInvariant, PTL

-----------------------------------------------------------------------------
(* No CPU sleeps over work.  The invariant must already cover a CPU that has *)
(* decided to idle but has not yet returned to its idle thread.             *)

\* A CPU in, or on its way to, its idle thread has an empty run queue or is
\* being called.
IdleQueue ==
    \A c \in CPU :
        \/ pc[c] \in {"user", "return"} /\ current[c] = Idle
        \/ pc[c] \in {"dispatch", "restore"} /\ arg[c] = Idle
        => \/ runq[c] = <<>>
           \/ c \in ipi
           \/ \E d \in CPU : pc[d] = "ipi" /\ dest[d] = c

\* A step that leaves the queues and the pending vectors alone and does not put
\* its CPU to sleep.
LEMMA StillCalled ==
    ASSUME IdleQueue, NEW c \in CPU, pc[c] # "ipi",
           \A d \in CPU : d # c => /\ pc'[d] = pc[d] /\ arg'[d] = arg[d]
                                   /\ current'[d] = current[d] /\ dest'[d] = dest[d],
           runq' = runq, ipi' = ipi,
           \/ pc'[c] \notin {"user", "return", "dispatch", "restore"}
           \/ pc'[c] = "return" /\ (current'[c] = Idle => runq[c] = <<>>)
    PROVE  IdleQueue'
  BY DEF IdleQueue

\* No CPU is left asleep over work by scheduler tick.
LEMMA TickCalled ==
    ASSUME Inv, IdleQueue, NEW c \in CPU, Tick(c)
    PROVE  IdleQueue'
  BY SchedulerAssumption DEF Inv, TypeOK, Locals, IdleQueue, Tick, Enter, queues

\* No CPU is left asleep over work by reschedule interrupt.
LEMMA ReschedCalled ==
    ASSUME Inv, IdleQueue, NEW c \in CPU, Resched(c)
    PROVE  IdleQueue'
  BY SchedulerAssumption DEF Inv, TypeOK, Locals, IdleQueue, Resched, Enter, queues

\* No CPU is left asleep over work by device interrupt.
LEMMA DeviceIrqCalled ==
    ASSUME Inv, IdleQueue, NEW c \in CPU, DeviceIrq(c)
    PROVE  IdleQueue'
  BY SchedulerAssumption DEF Inv, TypeOK, Locals, IdleQueue, DeviceIrq, Enter, queues

\* No CPU is left asleep over work by sys_yield.
LEMMA YieldCalled ==
    ASSUME Inv, IdleQueue, NEW c \in CPU, Yield(c)
    PROVE  IdleQueue'
  BY SchedulerAssumption DEF Inv, TypeOK, Locals, IdleQueue, Yield, Enter, ScheduleNext, queues

\* No CPU is left asleep over work by block_current_thread.
LEMMA BlockCalled ==
    ASSUME Inv, IdleQueue, NEW c \in CPU, Block(c)
    PROVE  IdleQueue'
  BY SchedulerAssumption DEF Inv, TypeOK, Locals, IdleQueue, Block, Enter, ScheduleNext, queues

\* No CPU is left asleep over work by mark_current_thread_dying.
LEMMA ExitCalled ==
    ASSUME Inv, IdleQueue, NEW c \in CPU, Exit(c)
    PROVE  IdleQueue'
  BY SchedulerAssumption DEF Inv, TypeOK, Locals, IdleQueue, Exit, Enter, ScheduleNext, queues

\* No CPU is left asleep over work by create_user_thread.
LEMMA SpawnCalled ==
    ASSUME Inv, IdleQueue, NEW c \in CPU, NEW t \in Thread, Spawn(c, t)
    PROVE  IdleQueue'
  BY SchedulerAssumption DEF Inv, TypeOK, Locals, IdleQueue, Spawn, Enter, queues

\* No CPU is left asleep over work by scheduler_balance_cpu.
LEMMA MigrateCalled ==
    ASSUME Inv, IdleQueue, NEW c \in CPU, Migrate(c)
    PROVE  IdleQueue'
  BY SchedulerAssumption DEF Inv, TypeOK, Locals, IdleQueue, Migrate, Goto

\* No CPU is left asleep over work by a balancer pass that moves nothing.
LEMMA NoMigrationCalled ==
    ASSUME Inv, IdleQueue, NEW c \in CPU, NoMigration(c)
    PROVE  IdleQueue'
  BY SchedulerAssumption DEF Inv, TypeOK, Locals, IdleQueue, NoMigration, Goto, queues

\* No CPU is left asleep over work by wake_blocked_thread.
LEMMA WakeWaiterCalled ==
    ASSUME Inv, IdleQueue, NEW c \in CPU, WakeWaiter(c)
    PROVE  IdleQueue'
  <1>1. \A d \in CPU : d # c => /\ pc'[d] = pc[d] /\ arg'[d] = arg[d]
                                /\ current'[d] = current[d] /\ dest'[d] = dest[d]
    BY DEF Inv, TypeOK, WakeWaiter, Goto, queues
  <1>2. pc[c] # "ipi" /\ runq' = runq /\ ipi' = ipi
    BY DEF WakeWaiter, queues
  <1>3. \/ pc'[c] \notin {"user", "return", "dispatch", "restore"}
        \/ pc'[c] = "return" /\ (current'[c] = Idle => runq[c] = <<>>)
    BY DEF Inv, TypeOK, Locals, HolderState, WakeWaiter, Goto, queues
  <1> QED BY Zenon, <1>1, <1>2, <1>3, StillCalled

\* No CPU is left asleep over work by the end of a wake loop.
LEMMA WakeDoneCalled ==
    ASSUME Inv, IdleQueue, NEW c \in CPU, WakeDone(c)
    PROVE  IdleQueue'
  BY SchedulerAssumption DEF Inv, TypeOK, Locals, IdleQueue, WakeDone, Goto, queues

\* No CPU is left asleep over work by mark_thread_ready.
LEMMA MarkReadyCalled ==
    ASSUME Inv, IdleQueue, NEW c \in CPU, MarkReady(c)
    PROVE  IdleQueue'
  <1>1. \A d \in CPU : d # c => /\ pc'[d] = pc[d] /\ arg'[d] = arg[d]
                                /\ current'[d] = current[d] /\ dest'[d] = dest[d]
    BY DEF Inv, TypeOK, MarkReady, Goto, queues
  <1>2. pc[c] # "ipi" /\ runq' = runq /\ ipi' = ipi
    BY DEF MarkReady, queues
  <1>3. state[arg[c]] \notin {"Dying", "Free"}
    BY DEF MarkReady, Inv, HolderState
  <1>4. pc'[c] = "enqueue"
    BY <1>3 DEF MarkReady, Goto, Inv, TypeOK
  <1> QED BY <1>1, <1>2, <1>4, StillCalled

\* No CPU is left asleep over work by enqueue_thread_on_cpu.
LEMMA EnqueueCalled ==
    ASSUME Inv, IdleQueue, NEW c \in CPU, Enqueue(c)
    PROVE  IdleQueue'
  <1>1. \A d \in CPU : d # c => /\ pc'[d] = pc[d] /\ arg'[d] = arg[d]
                                /\ current'[d] = current[d] /\ dest'[d] = dest[d]
    BY DEF Inv, TypeOK, Enqueue, Goto, queues
  <1>2. /\ pc[c] = "enqueue" /\ ipi' = ipi /\ current' = current /\ dest' = dest /\ dest[c] \in CPU
        /\ rqcpu[arg[c]] = None
    BY Zenon DEF Enqueue, Inv, Locals, HeldIsUnlinked, Holds
  <1>3. /\ pc'[c] = IF dest[c] # c THEN "ipi" ELSE after[c]
        /\ \A d \in CPU : d # dest[c] => runq'[d] = runq[d]
    BY <1>2 DEF Enqueue, Goto, Inv, TypeOK
  <1>4. pc'[c] \notin {"user", "dispatch", "restore"} /\ (pc'[c] = "return" => current[c] # Idle)
    BY <1>2, <1>3 DEF Inv, Locals
  <1>5. \A d \in CPU : d = dest[c] /\ d # c => pc'[c] = "ipi" /\ dest'[c] = d
    BY <1>2, <1>3
  <1> QED BY <1>1, <1>2, <1>3, <1>4, <1>5 DEF IdleQueue

\* No CPU is left asleep over work by ipi_send_reschedule.
LEMMA SendIpiCalled ==
    ASSUME Inv, IdleQueue, NEW c \in CPU, SendIpi(c)
    PROVE  IdleQueue'
  <1>1. \A d \in CPU : d # c => /\ pc'[d] = pc[d] /\ arg'[d] = arg[d]
                                /\ current'[d] = current[d] /\ dest'[d] = dest[d]
    BY DEF Inv, TypeOK, SendIpi, Goto, queues
  <1>2. /\ pc[c] = "ipi" /\ runq' = runq /\ ipi' = ipi \cup {dest[c]}
        /\ pc'[c] = after[c] /\ current' = current
    BY DEF SendIpi, Goto, queues, Inv, TypeOK
  <1>3. pc'[c] \notin {"user", "dispatch", "restore"} /\ (pc'[c] = "return" => current[c] # Idle)
    BY <1>2 DEF Inv, Locals
  <1> QED BY <1>1, <1>2, <1>3 DEF IdleQueue

\* No CPU is left asleep over work by the reaper's search.
LEMMA ReapFindCalled ==
    ASSUME Inv, IdleQueue, NEW c \in CPU, ReapFind(c)
    PROVE  IdleQueue'
  BY SchedulerAssumption DEF Inv, TypeOK, Locals, IdleQueue, ReapFind, Goto, queues

\* No CPU is left asleep over work by clear_thread.
LEMMA ReapFreeCalled ==
    ASSUME Inv, IdleQueue, NEW c \in CPU, ReapFree(c)
    PROVE  IdleQueue'
  <1>1. \A d \in CPU : d # c => /\ pc'[d] = pc[d] /\ arg'[d] = arg[d]
                                /\ current'[d] = current[d] /\ dest'[d] = dest[d]
    BY DEF Inv, TypeOK, ReapFree, Goto
  <1>2. pc[c] # "ipi" /\ ipi' = ipi /\ pc'[c] = "childwake"
    BY DEF ReapFree, Goto, Inv, TypeOK
  <1>3. rqcpu[arg[c]] = None
    BY Zenon DEF ReapFree, Inv, Locals, HolderState, QueuedIsReady
  <1>4. runq' = [d \in CPU |-> runq[d]]
    BY Zenon, <1>3, SchedulerAssumption DEF ReapFree
  <1>5. runq' = runq
    BY <1>4 DEF Inv, TypeOK
  <1> QED BY Zenon, <1>1, <1>2, <1>5, StillCalled

\* No CPU is left asleep over work by the reaper finding nothing.
LEMMA ReapDoneCalled ==
    ASSUME Inv, IdleQueue, NEW c \in CPU, ReapDone(c)
    PROVE  IdleQueue'
  BY SchedulerAssumption DEF Inv, TypeOK, Locals, IdleQueue, ReapDone, Goto, queues

\* No CPU is left asleep over work by the end of handle_irq.
LEMMA IrqTailCalled ==
    ASSUME Inv, IdleQueue, NEW c \in CPU, IrqTail(c)
    PROVE  IdleQueue'
  <1>1. \A d \in CPU : d # c => /\ pc'[d] = pc[d] /\ arg'[d] = arg[d]
                                /\ current'[d] = current[d] /\ dest'[d] = dest[d]
    BY DEF Inv, TypeOK, IrqTail, Goto, ScheduleNext, queues
  <1>2. pc[c] # "ipi" /\ runq' = runq /\ ipi' = ipi
    BY DEF IrqTail, queues
  <1>3. \/ pc'[c] \notin {"user", "return", "dispatch", "restore"}
        \/ pc'[c] = "return" /\ (current'[c] = Idle => runq[c] = <<>>)
    BY DEF Inv, TypeOK, Locals, HolderState, IrqTail, Goto, ScheduleNext, queues
  <1> QED BY <1>1, <1>2, <1>3, StillCalled

\* No CPU is left asleep over work by schedule_next(true).
LEMMA KeepCurrentCalled ==
    ASSUME Inv, IdleQueue, NEW c \in CPU, KeepCurrent(c)
    PROVE  IdleQueue'
  <1>1. \A d \in CPU : d # c => /\ pc'[d] = pc[d] /\ arg'[d] = arg[d]
                                /\ current'[d] = current[d] /\ dest'[d] = dest[d]
    BY DEF Inv, TypeOK, KeepCurrent, Goto, queues
  <1>2. pc[c] # "ipi" /\ runq' = runq /\ ipi' = ipi
    BY DEF KeepCurrent, queues
  <1>3. \/ pc'[c] \notin {"user", "return", "dispatch", "restore"}
        \/ pc'[c] = "return" /\ (current'[c] = Idle => runq[c] = <<>>)
    BY DEF Inv, TypeOK, Locals, HolderState, KeepCurrent, Goto, queues
  <1> QED BY Zenon, <1>1, <1>2, <1>3, StillCalled

\* No CPU is left asleep over work by next_runnable_thread.
LEMMA PopCalled ==
    ASSUME Inv, IdleQueue, NEW c \in CPU, Pop(c)
    PROVE  IdleQueue'
  BY SchedulerAssumption DEF Inv, TypeOK, Locals, IdleQueue, Pop, Goto, queues

\* No CPU is left asleep over work by schedule_next's last write.
LEMMA DispatchCalled ==
    ASSUME Inv, IdleQueue, NEW c \in CPU, Dispatch(c)
    PROVE  IdleQueue'
  BY SchedulerAssumption DEF Inv, TypeOK, Locals, IdleQueue, Dispatch, Goto, queues

\* No CPU is left asleep over work by restore_thread.
LEMMA RestoreCalled ==
    ASSUME Inv, IdleQueue, NEW c \in CPU, Restore(c)
    PROVE  IdleQueue'
  BY SchedulerAssumption DEF Inv, TypeOK, Locals, IdleQueue, Restore, Goto, queues

\* No CPU is left asleep over work by the return to user mode.
LEMMA ReturnCalled ==
    ASSUME Inv, IdleQueue, NEW c \in CPU, Return(c)
    PROVE  IdleQueue'
  BY SchedulerAssumption DEF Inv, TypeOK, Locals, IdleQueue, Return, Goto, queues

\* No CPU is asleep over work initially: the queues are empty.
LEMMA InitCalled == Init => IdleQueue
  BY DEF Init, IdleQueue

\* No step leaves a CPU asleep over work.
LEMMA NextCalled == Inv /\ IdleQueue /\ [Next]_vars => IdleQueue'
  <1> SUFFICES ASSUME Inv, IdleQueue, [Next]_vars PROVE IdleQueue'
    OBVIOUS
  <1>1. CASE UNCHANGED vars
    BY <1>1 DEF vars, IdleQueue
  <1>2. ASSUME NEW c \in CPU, Tick(c) \/ Resched(c) \/ DeviceIrq(c) \/ Yield(c) \/ Block(c) \/ Exit(c)
        PROVE  IdleQueue'
    BY <1>2, TickCalled, ReschedCalled, DeviceIrqCalled, YieldCalled, BlockCalled, ExitCalled
  <1>3. ASSUME NEW c \in CPU, NEW t \in Thread, Spawn(c, t)
        PROVE  IdleQueue'
    BY <1>3, SpawnCalled
  <1>4. ASSUME NEW c \in CPU, Kernel(c)
        PROVE  IdleQueue'
    BY <1>4, MigrateCalled, NoMigrationCalled, WakeWaiterCalled, WakeDoneCalled, MarkReadyCalled,
       EnqueueCalled, SendIpiCalled, ReapFindCalled, ReapFreeCalled, ReapDoneCalled, IrqTailCalled,
       KeepCurrentCalled, PopCalled, DispatchCalled, RestoreCalled, ReturnCalled DEF Kernel
  <1> QED BY <1>1, <1>2, <1>3, <1>4 DEF Next

\* A CPU in its idle thread with a non-empty run queue has a reschedule vector
\* pending or about to be sent (enqueue_thread_on_cpu, ipi_send_reschedule).
THEOREM NoCpuSleepsOverWork == Spec => []NoIdleOverWork
  <1>1. IdleQueue => NoIdleOverWork
    BY DEF IdleQueue, NoIdleOverWork
  <1> QED BY <1>1, SchedulerInvariant, InitCalled, NextCalled, PTL DEF Spec
=============================================================================
