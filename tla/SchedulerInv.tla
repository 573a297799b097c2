---------------------------- MODULE SchedulerInv ----------------------------
(***************************************************************************)
(* Proofs about Scheduler for any number of CPUs and threads.              *)
(*                                                                         *)
(* The argument: every live thread is in at most one place -- on one run   *)
(* queue, on a wait queue, or held by one CPU, which runs it or carries it *)
(* to or from a queue.  current_thread alone does not say who holds a      *)
(* thread, because it goes stale as soon as the thread is requeued or      *)
(* blocked; Holds says when it still counts.                               *)
(***************************************************************************)
EXTENDS Scheduler, TLAPS

\* The CPU has not yet given up its current thread.
Mine(c) ==
    \/ pc[c] \in {"user", "return"}
    \/ /\ entry[c] # "drop"
       /\ \/ pc[c] \in {"balance", "wake", "childwake", "reap", "free", "check", "keep"}
          \/ pc[c] \in {"ready", "enqueue", "ipi"} /\ after[c] # "pop"

Holds(c, t) ==
    \/ current[c] = t /\ Mine(c)
    \/ arg[c] = t /\ pc[c] \in {"ready", "enqueue", "dispatch", "restore"}

\* What the handler's local variables hold at each step.
Locals ==
    \A c \in CPU :
        /\ pc[c] \in {"ready", "enqueue", "free"} => arg[c] \in Thread
        /\ pc[c] \in {"dispatch", "restore"} => arg[c] \in Thread \cup {Idle}
        /\ pc[c] \in {"enqueue", "ipi"} => dest[c] \in CPU
        /\ pc[c] \in {"ready", "enqueue", "ipi"} => after[c] \in {"wake", "reap", "pop", "return"}
        /\ pc[c] \in {"ready", "enqueue"} => (after[c] = "pop" <=> arg[c] = current[c])
        /\ pc[c] \in {"wake", "childwake", "reap", "free"} => c = Boot
        /\ pc[c] \in {"balance", "keep"} => entry[c] = "keep"
        /\ pc[c] = "check" => entry[c] = "irq"
        /\ pc[c] \in {"ready", "enqueue", "ipi"} /\ after[c] \in {"wake", "reap"} => c = Boot
        /\ pc[c] \in {"wake", "childwake", "reap", "free"} => entry[c] \in {"keep", "drop", "irq"}
        /\ pc[c] = "wake" => entry[c] # "drop"
        /\ pc[c] \in {"ready", "enqueue", "ipi"} /\ after[c] \in {"wake", "reap"} =>
               entry[c] \in {"keep", "drop", "irq"}
        /\ pc[c] \in {"ready", "enqueue", "ipi"} /\ after[c] = "wake" => entry[c] # "drop"
        /\ pc[c] \in {"ready", "enqueue", "ipi"} /\ after[c] = "return" =>
               current[c] # Idle /\ entry[c] = "return"

\* One place per thread.
OneHolder ==
    \A t \in Thread, c, d \in CPU : Holds(c, t) /\ Holds(d, t) => c = d

HeldIsUnlinked ==
    \A t \in Thread, c \in CPU : Holds(c, t) => rqcpu[t] = None /\ t \notin waiters

WaiterIsBlocked ==
    \A t \in waiters : state[t] = "Blocked" /\ rqcpu[t] = None

\* The state each kind of holder leaves the thread in.
HolderState ==
    \A c \in CPU :
        /\ current[c] \in Thread /\ Mine(c) => state[current[c]] = "Running"
        /\ pc[c] = "ready" => state[arg[c]] \in {"Ready", "Running", "Blocked"}
        /\ pc[c] = "enqueue" => state[arg[c]] = "Ready"
        /\ pc[c] = "dispatch" /\ arg[c] \in Thread => state[arg[c]] = "Ready"
        /\ pc[c] = "restore" /\ arg[c] \in Thread => state[arg[c]] = "Running"
        /\ pc[c] = "free" => state[arg[c]] = "Dying"

Inv ==
    /\ TypeOK
    /\ Locals
    /\ OneQueue
    /\ QueuedIsReady
    /\ OneHolder
    /\ HeldIsUnlinked
    /\ WaiterIsBlocked
    /\ HolderState
    /\ NoThreadLost

-----------------------------------------------------------------------------
\* Sequences: what the queue operations do to membership.

\* Appending (run_queue_append_locked) adds one member at the tail.
LEMMA AppendFacts ==
    ASSUME NEW q \in Seq(Thread), NEW t \in Thread
    PROVE  /\ Append(q, t) \in Seq(Thread)
           /\ \A x \in Thread : InQueue(Append(q, t), x) <=> InQueue(q, x) \/ x = t
           /\ NoDuplicates(q) /\ ~InQueue(q, t) => NoDuplicates(Append(q, t))
  BY DEF InQueue, NoDuplicates

\* Removing one position of a duplicate-free queue removes one member
\* (detach_last_migratable_thread_locked).
LEMMA RemoveFacts ==
    ASSUME NEW q \in Seq(Thread), NEW i \in 1..Len(q), NoDuplicates(q)
    PROVE  /\ RemoveAt(q, i) \in Seq(Thread)
           /\ \A x \in Thread : InQueue(RemoveAt(q, i), x) <=> InQueue(q, x) /\ x # q[i]
           /\ NoDuplicates(RemoveAt(q, i))
  <1> DEFINE r == RemoveAt(q, i)
  <1>1. /\ Len(q) \in Nat /\ Len(q) - 1 \in Nat
        /\ \A j \in 1..Len(q) : q[j] \in Thread
    OBVIOUS
  <1>2. r \in [1..(Len(q) - 1) -> Thread]
    BY <1>1 DEF RemoveAt
  <1>3. r \in Seq(Thread) /\ Len(r) = Len(q) - 1
    BY <1>1, <1>2
  <1>4. \A j \in 1..(Len(q) - 1) : r[j] = IF j < i THEN q[j] ELSE q[j + 1]
    BY DEF RemoveAt
  <1>5. NoDuplicates(r)
    BY SMTT(30), <1>1, <1>3, <1>4 DEF NoDuplicates
  <1>6. ASSUME NEW x \in Thread, InQueue(r, x)
        PROVE  InQueue(q, x) /\ x # q[i]
    BY <1>1, <1>3, <1>4, <1>6 DEF InQueue, NoDuplicates
  <1>7. ASSUME NEW x \in Thread, InQueue(q, x), x # q[i]
        PROVE  InQueue(r, x)
    <2>1. PICK k \in 1..Len(q) : q[k] = x
      BY <1>7 DEF InQueue
    <2>2. CASE k < i
      BY <1>1, <1>3, <1>4, <2>1, <2>2 DEF InQueue
    <2>3. CASE k > i
      <3>1. k - 1 \in 1..(Len(q) - 1) /\ ~(k - 1 < i) /\ (k - 1) + 1 = k
        BY <1>1, <2>3
      <3>2. r[k - 1] = x
        BY <1>4, <2>1, <3>1
      <3> QED BY <1>3, <3>1, <3>2 DEF InQueue
    <2> QED BY <1>1, <1>7, <2>1, <2>2, <2>3
  <1> QED BY <1>3, <1>5, <1>6, <1>7

\* Taking the head (dequeue_ready_thread).
LEMMA TailFacts ==
    ASSUME NEW q \in Seq(Thread), q # <<>>, NoDuplicates(q)
    PROVE  /\ Head(q) \in Thread /\ InQueue(q, Head(q))
           /\ Tail(q) \in Seq(Thread)
           /\ \A x \in Thread : InQueue(Tail(q), x) <=> InQueue(q, x) /\ x # Head(q)
           /\ NoDuplicates(Tail(q))
  <1>1. /\ Len(q) \in Nat /\ Len(q) > 0 /\ Head(q) = q[1]
        /\ Tail(q) \in Seq(Thread) /\ Len(Tail(q)) = Len(q) - 1
        /\ \A j \in 1..(Len(q) - 1) : Tail(q)[j] = q[j + 1]
        /\ \A j \in 1..Len(q) : q[j] \in Thread
    OBVIOUS
  <1>2. NoDuplicates(Tail(q))
    BY <1>1 DEF NoDuplicates
  <1>3. Head(q) \in Thread /\ InQueue(q, Head(q))
    BY <1>1 DEF InQueue
  <1>4. ASSUME NEW x \in Thread, InQueue(Tail(q), x)
        PROVE  InQueue(q, x) /\ x # Head(q)
    BY <1>1, <1>4 DEF InQueue, NoDuplicates
  <1>5. ASSUME NEW x \in Thread, InQueue(q, x), x # Head(q)
        PROVE  InQueue(Tail(q), x)
    <2>1. PICK k \in 1..Len(q) : q[k] = x
      BY <1>5 DEF InQueue
    <2>2. k - 1 \in 1..(Len(q) - 1) /\ (k - 1) + 1 = k
      BY <1>1, <1>5, <2>1
    <2> QED BY <1>1, <2>1, <2>2 DEF InQueue
  <1> QED BY <1>1, <1>2, <1>3, <1>4, <1>5

\* A thread that a step of CPU c does not touch is not lost by it.
LEMMA StillNotLost ==
    ASSUME NEW c \in CPU, NEW t \in Thread, NotLost(t),
           \A d \in CPU : d # c => pc'[d] = pc[d] /\ arg'[d] = arg[d],
           arg[c] # t \/ pc[c] \notin {"ready", "enqueue", "dispatch"},
           state'[t] = state[t],
           rqcpu[t] # None => rqcpu'[t] # None,
           t \in waiters => t \in waiters'
    PROVE  NotLost(t)'
  BY DEF NotLost

\* A step inside a handler that touches no thread, no queue and no wait queue:
\* only where CPU c is and what it holds can matter.
LEMMA HandlerStep ==
    ASSUME Inv, NEW c \in CPU, TypeOK', Locals', HolderState',
           UNCHANGED <<state, runq, rqcpu, waiters>>,
           \A d \in CPU \ {c} : /\ pc'[d] = pc[d] /\ arg'[d] = arg[d] /\ current'[d] = current[d]
                                /\ entry'[d] = entry[d] /\ after'[d] = after[d],
           arg[c] \notin Thread \/ pc[c] \notin {"ready", "enqueue", "dispatch"},
           \A x \in Thread : Holds(c, x)' => Holds(c, x)
    PROVE  Inv'
  <1>1. \A d \in CPU, x \in Thread : Holds(d, x)' => Holds(d, x)
    BY DEF Holds, Mine
  <1>2. OneQueue' /\ QueuedIsReady' /\ WaiterIsBlocked'
    BY DEF Inv, OneQueue, QueuedIsReady, WaiterIsBlocked
  <1>3. OneHolder' /\ HeldIsUnlinked'
    BY <1>1 DEF Inv, OneHolder, HeldIsUnlinked
  <1>4. NoThreadLost'
    BY StillNotLost DEF Inv, NoThreadLost
  <1> QED BY <1>2, <1>3, <1>4 DEF Inv

\* A step that touches one thread u: the others keep their place, and u has one
\* place afterwards if it has one now.
LEMMA ThreadStep ==
    ASSUME Inv, NEW c \in CPU, NEW u \in Thread, TypeOK', Locals', OneQueue', HolderState',
           \A d \in CPU \ {c} : /\ pc'[d] = pc[d] /\ arg'[d] = arg[d] /\ current'[d] = current[d]
                                /\ entry'[d] = entry[d] /\ after'[d] = after[d],
           arg[c] = u \/ pc[c] \notin {"ready", "enqueue", "dispatch"},
           \A x \in Thread \ {u} : /\ state'[x] = state[x] /\ rqcpu'[x] = rqcpu[x]
                                   /\ (x \in waiters' <=> x \in waiters)
                                   /\ (Holds(c, x)' => Holds(c, x)),
           NotLost(u)',
           rqcpu'[u] # None => state'[u] = "Ready",
           u \in waiters' => state'[u] = "Blocked" /\ rqcpu'[u] = None,
           \A d \in CPU \ {c} : Holds(d, u) => ~Holds(c, u)' /\ rqcpu'[u] = None /\ u \notin waiters',
           Holds(c, u)' => rqcpu'[u] = None /\ u \notin waiters'
    PROVE  Inv'
  <1>1. \A d \in CPU \ {c}, x \in Thread : Holds(d, x)' <=> Holds(d, x)
    BY DEF Holds, Mine
  <1>2. QueuedIsReady'
    BY DEF Inv, QueuedIsReady
  <1>3. WaiterIsBlocked'
    BY Zenon DEF Inv, TypeOK, WaiterIsBlocked
  <1>4. OneHolder'
    BY <1>1 DEF Inv, OneHolder
  <1>5. HeldIsUnlinked'
    BY <1>1 DEF Inv, HeldIsUnlinked
  <1>6. NoThreadLost'
    <2>1. \A x \in Thread \ {u} : NotLost(x)'
      BY StillNotLost DEF Inv, NoThreadLost
    <2> QED BY <2>1 DEF NoThreadLost
  <1> QED BY <1>2, <1>3, <1>4, <1>5, <1>6 DEF Inv

-----------------------------------------------------------------------------
\* One lemma per step: it preserves every conjunct of the invariant.

\* Preserved by scheduler tick.
LEMMA TickInv ==
    ASSUME Inv, NEW c \in CPU, Tick(c)
    PROVE  Inv'
  <1>1. TypeOK' /\ Locals'
    BY SchedulerAssumption DEF Inv, TypeOK, PcValues, Locals, Tick, Enter, queues
  <1>2. /\ UNCHANGED <<state, runq, rqcpu, waiters>>
        /\ \A d \in CPU \ {c} : /\ pc'[d] = pc[d] /\ arg'[d] = arg[d] /\ current'[d] = current[d]
                                /\ entry'[d] = entry[d] /\ after'[d] = after[d]
        /\ pc[c] \notin {"ready", "enqueue", "dispatch"}
    BY DEF Inv, TypeOK, Tick, Enter, queues
  <1>3. \A x \in Thread : Holds(c, x)' => Holds(c, x)
    BY SchedulerAssumption DEF Inv, TypeOK, Locals, Holds, Mine, Tick, Enter, queues
  <1>4. HolderState'
    BY SchedulerAssumption DEF Inv, TypeOK, Locals, HolderState, Mine, Tick, Enter, queues
  <1> QED BY <1>1, <1>2, <1>3, <1>4, HandlerStep

\* Preserved by reschedule interrupt.
LEMMA ReschedInv ==
    ASSUME Inv, NEW c \in CPU, Resched(c)
    PROVE  Inv'
  <1>1. TypeOK' /\ Locals'
    BY SchedulerAssumption DEF Inv, TypeOK, PcValues, Locals, Resched, Enter, queues
  <1>2. /\ UNCHANGED <<state, runq, rqcpu, waiters>>
        /\ \A d \in CPU \ {c} : /\ pc'[d] = pc[d] /\ arg'[d] = arg[d] /\ current'[d] = current[d]
                                /\ entry'[d] = entry[d] /\ after'[d] = after[d]
        /\ pc[c] \notin {"ready", "enqueue", "dispatch"}
    BY DEF Inv, TypeOK, Resched, Enter, queues
  <1>3. \A x \in Thread : Holds(c, x)' => Holds(c, x)
    BY SchedulerAssumption DEF Inv, TypeOK, Locals, Holds, Mine, Resched, Enter, queues
  <1>4. HolderState'
    BY SchedulerAssumption DEF Inv, TypeOK, Locals, HolderState, Mine, Resched, Enter, queues
  <1> QED BY <1>1, <1>2, <1>3, <1>4, HandlerStep

\* Preserved by device interrupt.
LEMMA DeviceIrqInv ==
    ASSUME Inv, NEW c \in CPU, DeviceIrq(c)
    PROVE  Inv'
  <1>1. TypeOK' /\ Locals'
    BY SchedulerAssumption DEF Inv, TypeOK, PcValues, Locals, DeviceIrq, Enter, queues
  <1>2. /\ UNCHANGED <<state, runq, rqcpu, waiters>>
        /\ \A d \in CPU \ {c} : /\ pc'[d] = pc[d] /\ arg'[d] = arg[d] /\ current'[d] = current[d]
                                /\ entry'[d] = entry[d] /\ after'[d] = after[d]
        /\ pc[c] \notin {"ready", "enqueue", "dispatch"}
    BY DEF Inv, TypeOK, DeviceIrq, Enter, queues
  <1>3. \A x \in Thread : Holds(c, x)' => Holds(c, x)
    BY SchedulerAssumption DEF Inv, TypeOK, Locals, Holds, Mine, DeviceIrq, Enter, queues
  <1>4. HolderState'
    BY SchedulerAssumption DEF Inv, TypeOK, Locals, HolderState, Mine, DeviceIrq, Enter, queues
  <1> QED BY <1>1, <1>2, <1>3, <1>4, HandlerStep

\* Preserved by sys_yield.
LEMMA YieldInv ==
    ASSUME Inv, NEW c \in CPU, Yield(c)
    PROVE  Inv'
  <1>1. TypeOK' /\ Locals'
    BY SchedulerAssumption DEF Inv, TypeOK, PcValues, Locals, Yield, Enter, ScheduleNext, queues
  <1>2. /\ UNCHANGED <<state, runq, rqcpu, waiters>>
        /\ \A d \in CPU \ {c} : /\ pc'[d] = pc[d] /\ arg'[d] = arg[d] /\ current'[d] = current[d]
                                /\ entry'[d] = entry[d] /\ after'[d] = after[d]
        /\ pc[c] \notin {"ready", "enqueue", "dispatch"}
    BY DEF Inv, TypeOK, Yield, Enter, ScheduleNext, queues
  <1>3. \A x \in Thread : Holds(c, x)' => Holds(c, x)
    BY SchedulerAssumption DEF Inv, TypeOK, Locals, Holds, Mine, Yield, Enter, ScheduleNext,
       queues
  <1>4. HolderState'
    BY SchedulerAssumption DEF Inv, TypeOK, Locals, HolderState, Mine, Yield, Enter,
       ScheduleNext, queues
  <1> QED BY <1>1, <1>2, <1>3, <1>4, HandlerStep

\* Preserved by block_current_thread.
LEMMA BlockInv ==
    ASSUME Inv, NEW c \in CPU, Block(c)
    PROVE  Inv'
  <1>1. /\ pc[c] = "user" /\ current[c] \in Thread /\ state[current[c]] = "Running"
        /\ rqcpu[current[c]] = None
        /\ stack' = [stack EXCEPT ![c] = current[c]]
        /\ entry' = [entry EXCEPT ![c] = "drop"]
        /\ pc' = [pc EXCEPT ![c] = IF c = Boot THEN "reap" ELSE "pop"]
        /\ state' = [state EXCEPT ![current[c]] = "Blocked"]
        /\ waiters' = waiters \cup {current[c]}
        /\ UNCHANGED <<runq, rqcpu, current, ipi, arg, dest, after>>
    BY DEF Block, Enter, ScheduleNext, queues, Inv, TypeOK, HolderState, HeldIsUnlinked, Holds,
       Mine
  <1>2. TypeOK' /\ Locals'
    BY <1>1, SchedulerAssumption DEF Inv, TypeOK, PcValues, Locals
  <1>3. OneQueue'
    BY <1>1 DEF Inv, OneQueue
  <1>4. HolderState'
    BY <1>1, SchedulerAssumption DEF Inv, TypeOK, Locals, HolderState, OneHolder, QueuedIsReady,
       Holds, Mine
  <1>5. /\ \A d \in CPU \ {c} : /\ pc'[d] = pc[d] /\ arg'[d] = arg[d] /\ current'[d] = current[d]
                                /\ entry'[d] = entry[d] /\ after'[d] = after[d]
        /\ \A x \in Thread \ {current[c]} : /\ state'[x] = state[x] /\ rqcpu'[x] = rqcpu[x]
                                   /\ (x \in waiters' <=> x \in waiters)
    BY <1>1 DEF Inv, TypeOK
  <1>6. \A x \in Thread \ {current[c]} : Holds(c, x)' => Holds(c, x)
    BY <1>1 DEF Inv, TypeOK, Locals, Holds, Mine
  <1>7. /\ NotLost(current[c])' /\ (rqcpu'[current[c]] # None => state'[current[c]] = "Ready")
        /\ current[c] \in waiters' => state'[current[c]] = "Blocked" /\ rqcpu'[current[c]] = None
    BY <1>1, SchedulerAssumption DEF Inv, TypeOK, NotLost, WaiterIsBlocked, QueuedIsReady
  <1>8. /\ \A d \in CPU \ {c} : Holds(d, current[c]) => ~Holds(c, current[c])' /\ rqcpu'[current[c]] = None /\ current[c] \notin waiters'
        /\ Holds(c, current[c])' => rqcpu'[current[c]] = None /\ current[c] \notin waiters'
    BY SMTT(30), <1>1, SchedulerAssumption DEF Inv, TypeOK, Locals, OneHolder, HeldIsUnlinked,
       WaiterIsBlocked, HolderState, QueuedIsReady, Holds, Mine
  <1> QED BY <1>1, <1>2, <1>3, <1>4, <1>5, <1>6, <1>7, <1>8, ThreadStep

\* Preserved by mark_current_thread_dying.
LEMMA ExitInv ==
    ASSUME Inv, NEW c \in CPU, Exit(c)
    PROVE  Inv'
  <1>1. /\ pc[c] = "user" /\ current[c] \in Thread /\ state[current[c]] = "Running"
        /\ rqcpu[current[c]] = None /\ current[c] \notin waiters
        /\ stack' = [stack EXCEPT ![c] = current[c]]
        /\ entry' = [entry EXCEPT ![c] = "drop"]
        /\ pc' = [pc EXCEPT ![c] = IF c = Boot THEN "reap" ELSE "pop"]
        /\ state' = [state EXCEPT ![current[c]] = "Dying"]
        /\ UNCHANGED <<runq, rqcpu, current, waiters, ipi, arg, dest, after>>
    BY DEF Exit, Enter, ScheduleNext, queues, Inv, TypeOK, HolderState, HeldIsUnlinked, Holds,
       Mine
  <1>2. TypeOK' /\ Locals'
    BY <1>1, SchedulerAssumption DEF Inv, TypeOK, PcValues, Locals
  <1>3. OneQueue'
    BY <1>1 DEF Inv, OneQueue
  <1>4. HolderState'
    BY <1>1, SchedulerAssumption DEF Inv, TypeOK, Locals, HolderState, OneHolder, QueuedIsReady,
       Holds, Mine
  <1>5. /\ \A d \in CPU \ {c} : /\ pc'[d] = pc[d] /\ arg'[d] = arg[d] /\ current'[d] = current[d]
                                /\ entry'[d] = entry[d] /\ after'[d] = after[d]
        /\ \A x \in Thread \ {current[c]} : /\ state'[x] = state[x] /\ rqcpu'[x] = rqcpu[x]
                                   /\ (x \in waiters' <=> x \in waiters)
    BY <1>1 DEF Inv, TypeOK
  <1>6. \A x \in Thread \ {current[c]} : Holds(c, x)' => Holds(c, x)
    BY <1>1 DEF Inv, TypeOK, Locals, Holds, Mine
  <1>7. /\ NotLost(current[c])' /\ (rqcpu'[current[c]] # None => state'[current[c]] = "Ready")
        /\ current[c] \in waiters' => state'[current[c]] = "Blocked" /\ rqcpu'[current[c]] = None
    BY <1>1, SchedulerAssumption DEF Inv, TypeOK, NotLost, WaiterIsBlocked, QueuedIsReady
  <1>8. /\ \A d \in CPU \ {c} : Holds(d, current[c]) => ~Holds(c, current[c])' /\ rqcpu'[current[c]] = None /\ current[c] \notin waiters'
        /\ Holds(c, current[c])' => rqcpu'[current[c]] = None /\ current[c] \notin waiters'
    BY SMTT(30), <1>1, SchedulerAssumption DEF Inv, TypeOK, Locals, OneHolder, HeldIsUnlinked,
       WaiterIsBlocked, HolderState, QueuedIsReady, Holds, Mine
  <1> QED BY <1>1, <1>2, <1>3, <1>4, <1>5, <1>6, <1>7, <1>8, ThreadStep

\* Preserved by create_user_thread.
LEMMA SpawnInv ==
    ASSUME Inv, NEW c \in CPU, NEW t \in Thread, Spawn(c, t)
    PROVE  Inv'
  <1>0. /\ pc[c] = "user" /\ current[c] \in Thread /\ state[current[c]] = "Running"
        /\ state[t] = "Free" /\ rqcpu[t] = None /\ t \notin waiters
    BY DEF Spawn, Enter, Inv, TypeOK, HolderState, QueuedIsReady, WaiterIsBlocked, Mine
  <1>a. \A d \in CPU : ~Holds(d, t)
    BY ZenonT(30), <1>0 DEF Inv, TypeOK, HolderState, Holds
  <1>1. /\ pc[c] = "user" /\ current[c] \in Thread /\ state[current[c]] = "Running"
        /\ state[t] = "Free" /\ rqcpu[t] = None /\ t \notin waiters
        /\ \A d \in CPU : ~Holds(d, t)
        /\ stack' = [stack EXCEPT ![c] = current[c]]
        /\ entry' = [entry EXCEPT ![c] = "return"]
        /\ pc' = [pc EXCEPT ![c] = "ready"]
        /\ state' = [state EXCEPT ![t] = "Ready"]
        /\ arg' = [arg EXCEPT ![c] = t]
        /\ dest' = [dest EXCEPT ![c] = None]
        /\ after' = [after EXCEPT ![c] = "return"]
        /\ UNCHANGED <<runq, rqcpu, current, waiters, ipi>>
    BY <1>0, <1>a DEF Spawn, Enter, queues
  <1>2. TypeOK' /\ Locals'
    BY <1>1, SchedulerAssumption DEF Inv, TypeOK, PcValues, Locals
  <1>3. OneQueue'
    BY <1>1 DEF Inv, OneQueue
  <1>4. HolderState'
    BY <1>1, SchedulerAssumption DEF Inv, TypeOK, Locals, HolderState, OneHolder, QueuedIsReady,
       Holds, Mine
  <1>5. /\ \A d \in CPU \ {c} : /\ pc'[d] = pc[d] /\ arg'[d] = arg[d] /\ current'[d] = current[d]
                                /\ entry'[d] = entry[d] /\ after'[d] = after[d]
        /\ \A x \in Thread \ {t} : /\ state'[x] = state[x] /\ rqcpu'[x] = rqcpu[x]
                                   /\ (x \in waiters' <=> x \in waiters)
    BY <1>1 DEF Inv, TypeOK
  <1>6. \A x \in Thread \ {t} : Holds(c, x)' => Holds(c, x)
    BY <1>1 DEF Inv, TypeOK, Locals, Holds, Mine
  <1>7. /\ NotLost(t)' /\ (rqcpu'[t] # None => state'[t] = "Ready")
        /\ t \in waiters' => state'[t] = "Blocked" /\ rqcpu'[t] = None
    BY <1>1, SchedulerAssumption DEF Inv, TypeOK, NotLost, WaiterIsBlocked, QueuedIsReady
  <1>8. /\ \A d \in CPU \ {c} : Holds(d, t) => ~Holds(c, t)' /\ rqcpu'[t] = None /\ t \notin waiters'
        /\ Holds(c, t)' => rqcpu'[t] = None /\ t \notin waiters'
    BY SMTT(30), <1>1, SchedulerAssumption DEF Inv, TypeOK, Locals, OneHolder, HeldIsUnlinked,
       WaiterIsBlocked, HolderState, QueuedIsReady, Holds, Mine
  <1> QED BY <1>1, <1>2, <1>3, <1>4, <1>5, <1>6, <1>7, <1>8, ThreadStep

\* Preserved by scheduler_balance_cpu.
LEMMA MigrateInv ==
    ASSUME Inv, NEW c \in CPU, Migrate(c)
    PROVE  Inv'
  <1>a. PICK t \in Thread, src \in CPU, qd \in Seq(Thread), qc \in Seq(Thread) :
        /\ src # c /\ state[t] = "Ready" /\ rqcpu[t] = src
        /\ NoDuplicates(qd)
        /\ \A x \in Thread : InQueue(qd, x) <=> InQueue(runq[src], x) /\ x # t
        /\ NoDuplicates(qc)
        /\ \A x \in Thread : InQueue(qc, x) <=> InQueue(runq[c], x) \/ x = t
        /\ runq' = [runq EXCEPT ![src] = qd, ![c] = qc]
        /\ rqcpu' = [rqcpu EXCEPT ![t] = c]
    <2>1. PICK src \in CPU : \E i \in 1..Len(runq[src]) :
            /\ src # c /\ state[runq[src][i]] = "Ready"
            /\ runq' = [runq EXCEPT ![src] = RemoveAt(runq[src], i),
                                    ![c] = Append(runq[c], runq[src][i])]
            /\ rqcpu' = [rqcpu EXCEPT ![runq[src][i]] = c]
      BY Zenon DEF Migrate, Inv, TypeOK
    <2>2. PICK i \in 1..Len(runq[src]) :
            /\ src # c /\ state[runq[src][i]] = "Ready"
            /\ runq' = [runq EXCEPT ![src] = RemoveAt(runq[src], i),
                                    ![c] = Append(runq[c], runq[src][i])]
            /\ rqcpu' = [rqcpu EXCEPT ![runq[src][i]] = c]
      BY Zenon, <2>1
    <2>3. runq[src] \in Seq(Thread) /\ runq[c] \in Seq(Thread)
      BY DEF Inv, TypeOK
    <2>4. runq[src][i] \in Thread /\ InQueue(runq[src], runq[src][i])
      BY <2>3 DEF InQueue
    <2>5. /\ rqcpu[runq[src][i]] = src /\ ~InQueue(runq[c], runq[src][i])
          /\ NoDuplicates(runq[src]) /\ NoDuplicates(runq[c])
      BY <2>2, <2>4 DEF Inv, OneQueue
    <2>6. /\ RemoveAt(runq[src], i) \in Seq(Thread) /\ NoDuplicates(RemoveAt(runq[src], i))
          /\ \A x \in Thread :
                InQueue(RemoveAt(runq[src], i), x) <=> InQueue(runq[src], x) /\ x # runq[src][i]
      BY <2>3, <2>5, RemoveFacts
    <2>7. /\ Append(runq[c], runq[src][i]) \in Seq(Thread)
          /\ NoDuplicates(Append(runq[c], runq[src][i]))
          /\ \A x \in Thread : InQueue(Append(runq[c], runq[src][i]), x)
                                 <=> InQueue(runq[c], x) \/ x = runq[src][i]
      BY <2>3, <2>4, <2>5, AppendFacts
    <2> QED BY Zenon, <2>2, <2>4, <2>5, <2>6, <2>7
  <1>1. /\ pc[c] = "balance" /\ src # c /\ state[t] = "Ready" /\ rqcpu[t] = src
        /\ runq' = [e \in CPU |-> IF e = c THEN qc ELSE IF e = src THEN qd ELSE runq[e]]
        /\ rqcpu' = [rqcpu EXCEPT ![t] = c]
        /\ pc' = [pc EXCEPT ![c] = IF c = Boot THEN "wake" ELSE "keep"]
        /\ UNCHANGED <<state, current, waiters, ipi, stack, arg, dest, entry, after>>
    BY Zenon, <1>a DEF Migrate, Goto, Inv, TypeOK
  <1>2. TypeOK' /\ Locals'
    <2>1. runq' \in [CPU -> Seq(Thread)]
      BY SMTT(30), <1>1 DEF Inv, TypeOK
    <2> QED BY <1>1, <2>1 DEF Inv, TypeOK, PcValues, Locals
  <1>3. OneQueue'
    <2>1. /\ runq'[src] = qd /\ runq'[c] = qc /\ rqcpu'[t] = c
          /\ \A e \in CPU : e # c /\ e # src => runq'[e] = runq[e]
          /\ \A x \in Thread : x # t => rqcpu'[x] = rqcpu[x]
      BY <1>1 DEF Inv, TypeOK
    <2>2. \A e \in CPU, x \in Thread : InQueue(runq'[e], x) => rqcpu'[x] = e
      BY <1>a, <1>1, <2>1, SchedulerAssumption DEF Inv, TypeOK, OneQueue
    <2>3. \A x \in Thread : rqcpu'[x] # None => InQueue(runq'[rqcpu'[x]], x)
      BY <1>a, <1>1, <2>1, SchedulerAssumption DEF Inv, TypeOK, OneQueue
    <2>4. \A e \in CPU : NoDuplicates(runq'[e])
      BY Zenon, <1>a, <2>1 DEF Inv, OneQueue
    <2> QED BY <2>2, <2>3, <2>4 DEF OneQueue, InQueue, NoDuplicates
  <1>4. HolderState'
    BY <1>1, SchedulerAssumption DEF Inv, TypeOK, Locals, HolderState, OneHolder, QueuedIsReady,
       Holds, Mine
  <1>5. /\ \A d \in CPU \ {c} : /\ pc'[d] = pc[d] /\ arg'[d] = arg[d] /\ current'[d] = current[d]
                                /\ entry'[d] = entry[d] /\ after'[d] = after[d]
        /\ \A x \in Thread \ {t} : /\ state'[x] = state[x] /\ rqcpu'[x] = rqcpu[x]
                                   /\ (x \in waiters' <=> x \in waiters)
    BY <1>1 DEF Inv, TypeOK
  <1>6. \A x \in Thread \ {t} : Holds(c, x)' => Holds(c, x)
    BY <1>1 DEF Inv, TypeOK, Locals, Holds, Mine
  <1>7. /\ NotLost(t)' /\ (rqcpu'[t] # None => state'[t] = "Ready")
        /\ t \in waiters' => state'[t] = "Blocked" /\ rqcpu'[t] = None
    BY <1>1, SchedulerAssumption DEF Inv, TypeOK, NotLost, WaiterIsBlocked, QueuedIsReady
  <1>8. /\ \A d \in CPU \ {c} : Holds(d, t) => ~Holds(c, t)' /\ rqcpu'[t] = None /\ t \notin waiters'
        /\ Holds(c, t)' => rqcpu'[t] = None /\ t \notin waiters'
    BY <1>1, SchedulerAssumption DEF Inv, TypeOK, Locals, OneHolder, HeldIsUnlinked,
       WaiterIsBlocked, HolderState, QueuedIsReady, Holds, Mine
  <1> QED BY Zenon, <1>1, <1>2, <1>3, <1>4, <1>5, <1>6, <1>7, <1>8, ThreadStep

\* Preserved by a balancer pass that moves nothing.
LEMMA NoMigrationInv ==
    ASSUME Inv, NEW c \in CPU, NoMigration(c)
    PROVE  Inv'
  <1>1. TypeOK' /\ Locals'
    BY SchedulerAssumption DEF Inv, TypeOK, PcValues, Locals, NoMigration, Goto, queues
  <1>2. /\ UNCHANGED <<state, runq, rqcpu, waiters>>
        /\ \A d \in CPU \ {c} : /\ pc'[d] = pc[d] /\ arg'[d] = arg[d] /\ current'[d] = current[d]
                                /\ entry'[d] = entry[d] /\ after'[d] = after[d]
        /\ pc[c] \notin {"ready", "enqueue", "dispatch"}
    BY DEF Inv, TypeOK, NoMigration, Goto, queues
  <1>3. \A x \in Thread : Holds(c, x)' => Holds(c, x)
    BY SchedulerAssumption DEF Inv, TypeOK, Locals, Holds, Mine, NoMigration, Goto, queues
  <1>4. HolderState'
    BY SchedulerAssumption DEF Inv, TypeOK, Locals, HolderState, Mine, NoMigration, Goto, queues
  <1> QED BY Zenon, <1>1, <1>2, <1>3, <1>4, HandlerStep

\* Preserved by wake_blocked_thread on the CPU's own current thread.
LEMMA WakeWaiterSelfInv ==
    ASSUME Inv, NEW c \in CPU, WakeWaiter(c), current[c] \in waiters, current[c] \notin waiters'
    PROVE  Inv'
  <1>1. /\ pc[c] \in {"wake", "childwake"} /\ current[c] \in Thread /\ current[c] \in waiters
        /\ state[current[c]] = "Blocked" /\ rqcpu[current[c]] = None /\ ~Holds(c, current[c])
        /\ waiters' = waiters \ {current[c]}
        /\ state' = [state EXCEPT ![current[c]] = "Running"]
        /\ pc' = [pc EXCEPT ![c] = IF pc[c] = "wake" THEN "wake" ELSE "reap"]
        /\ UNCHANGED <<runq, rqcpu, current, ipi, stack, arg, dest, entry, after>>
    BY DEF WakeWaiter, Goto, queues, Inv, TypeOK, WaiterIsBlocked, HeldIsUnlinked
  <1>2. TypeOK' /\ Locals'
    BY SMTT(30), <1>1, SchedulerAssumption DEF Inv, TypeOK, PcValues, Locals
  <1>a. runq' = runq /\ rqcpu' = rqcpu
    BY <1>1
  <1>3. OneQueue'
    BY Zenon, <1>a DEF Inv, OneQueue
  <1>4. HolderState'
    BY <1>1, SchedulerAssumption DEF Inv, TypeOK, Locals, HolderState, OneHolder, QueuedIsReady,
       Holds, Mine
  <1>5. /\ \A d \in CPU \ {c} : /\ pc'[d] = pc[d] /\ arg'[d] = arg[d] /\ current'[d] = current[d]
                                /\ entry'[d] = entry[d] /\ after'[d] = after[d]
        /\ \A x \in Thread \ {current[c]} : /\ state'[x] = state[x] /\ rqcpu'[x] = rqcpu[x]
                                   /\ (x \in waiters' <=> x \in waiters)
    BY <1>1 DEF Inv, TypeOK
  <1>6. \A x \in Thread \ {current[c]} : Holds(c, x)' => Holds(c, x)
    BY <1>1 DEF Inv, TypeOK, Locals, Holds, Mine
  <1>7. /\ NotLost(current[c])' /\ (rqcpu'[current[c]] # None => state'[current[c]] = "Ready")
        /\ current[c] \in waiters' => state'[current[c]] = "Blocked" /\ rqcpu'[current[c]] = None
    BY SMTT(30), <1>1, SchedulerAssumption DEF Inv, TypeOK, NotLost, WaiterIsBlocked, QueuedIsReady
  <1>8. /\ \A d \in CPU \ {c} : Holds(d, current[c]) => ~Holds(c, current[c])' /\ rqcpu'[current[c]] = None /\ current[c] \notin waiters'
        /\ Holds(c, current[c])' => rqcpu'[current[c]] = None /\ current[c] \notin waiters'
    BY SMTT(30), <1>1, SchedulerAssumption DEF Inv, TypeOK, Locals, OneHolder, HeldIsUnlinked,
       WaiterIsBlocked, HolderState, QueuedIsReady, Holds, Mine
  <1> QED BY <1>1, <1>2, <1>3, <1>4, <1>5, <1>6, <1>7, <1>8, ThreadStep

\* Preserved by wake_blocked_thread on another thread.
LEMMA WakeWaiterOtherInv ==
    ASSUME Inv, NEW c \in CPU, WakeWaiter(c), current[c] \in waiters => current[c] \in waiters'
    PROVE  Inv'
  <1>1. PICK t \in Thread, n \in {"wake", "reap"} :
        /\ pc[c] \in {"wake", "childwake"} /\ t \in waiters /\ t # current[c]
        /\ n = IF pc[c] = "wake" THEN "wake" ELSE "reap"
        /\ state[t] = "Blocked" /\ rqcpu[t] = None
        /\ waiters' = waiters \ {t}
        /\ arg' = [arg EXCEPT ![c] = t]
        /\ dest' = [dest EXCEPT ![c] = None]
        /\ after' = [after EXCEPT ![c] = n]
        /\ pc' = [pc EXCEPT ![c] = "ready"]
        /\ UNCHANGED <<state, runq, rqcpu, current, ipi, stack, entry>>
    BY Zenon DEF WakeWaiter, Goto, queues, Inv, TypeOK, WaiterIsBlocked
  <1>2. TypeOK' /\ Locals'
    BY SMTT(30), <1>1, SchedulerAssumption DEF Inv, TypeOK, PcValues, Locals
  <1>a. runq' = runq /\ rqcpu' = rqcpu
    BY <1>1
  <1>3. OneQueue'
    BY Zenon, <1>a DEF Inv, OneQueue
  <1>4. HolderState'
    BY <1>1, SchedulerAssumption DEF Inv, TypeOK, Locals, HolderState, OneHolder, QueuedIsReady,
       Holds, Mine
  <1>5. /\ \A d \in CPU \ {c} : /\ pc'[d] = pc[d] /\ arg'[d] = arg[d] /\ current'[d] = current[d]
                                /\ entry'[d] = entry[d] /\ after'[d] = after[d]
        /\ \A x \in Thread \ {t} : /\ state'[x] = state[x] /\ rqcpu'[x] = rqcpu[x]
                                   /\ (x \in waiters' <=> x \in waiters)
    BY <1>1 DEF Inv, TypeOK
  <1>6. \A x \in Thread \ {t} : Holds(c, x)' => Holds(c, x)
    BY <1>1 DEF Inv, TypeOK, Locals, Holds, Mine
  <1>7. /\ NotLost(t)' /\ (rqcpu'[t] # None => state'[t] = "Ready")
        /\ t \in waiters' => state'[t] = "Blocked" /\ rqcpu'[t] = None
    BY SMTT(30), <1>1, SchedulerAssumption DEF Inv, TypeOK, NotLost, WaiterIsBlocked, QueuedIsReady
  <1>8. /\ \A d \in CPU \ {c} : Holds(d, t) => ~Holds(c, t)' /\ rqcpu'[t] = None /\ t \notin waiters'
        /\ Holds(c, t)' => rqcpu'[t] = None /\ t \notin waiters'
    BY <1>1, SchedulerAssumption DEF Inv, TypeOK, Locals, OneHolder, HeldIsUnlinked,
       WaiterIsBlocked, HolderState, QueuedIsReady, Holds, Mine
  <1> QED BY <1>1, <1>2, <1>3, <1>4, <1>5, <1>6, <1>7, <1>8, ThreadStep

\* Preserved by the end of a wake loop.
LEMMA WakeDoneInv ==
    ASSUME Inv, NEW c \in CPU, WakeDone(c)
    PROVE  Inv'
  <1>1. TypeOK' /\ Locals'
    BY SchedulerAssumption DEF Inv, TypeOK, PcValues, Locals, WakeDone, Goto, queues
  <1>2. /\ UNCHANGED <<state, runq, rqcpu, waiters>>
        /\ \A d \in CPU \ {c} : /\ pc'[d] = pc[d] /\ arg'[d] = arg[d] /\ current'[d] = current[d]
                                /\ entry'[d] = entry[d] /\ after'[d] = after[d]
        /\ pc[c] \notin {"ready", "enqueue", "dispatch"}
    BY DEF Inv, TypeOK, WakeDone, Goto, queues
  <1>3. \A x \in Thread : Holds(c, x)' => Holds(c, x)
    BY SchedulerAssumption DEF Inv, TypeOK, Locals, Holds, Mine, WakeDone, Goto, queues
  <1>4. HolderState'
    BY SchedulerAssumption DEF Inv, TypeOK, Locals, HolderState, Mine, WakeDone, Goto, queues
  <1> QED BY Zenon, <1>1, <1>2, <1>3, <1>4, HandlerStep
=============================================================================
