------------------------------ MODULE Scheduler ------------------------------
(***************************************************************************)
(* Threads, per-CPU run queues, dispatch, blocking, wake-up, migration and *)
(* the deferred reaper on several CPUs: proc/thread.cpp, sched/*.cpp,      *)
(* proc/reaper.cpp and the switch code of multitask.asm.                   *)
(*                                                                         *)
(* A CPU runs a thread in user mode (pc = "user") or one kernel handler at *)
(* a time with interrupts masked.  A step is what the handler does under   *)
(* one spinlock, or one unlocked write another CPU can observe, so the     *)
(* CPUs interleave exactly where the code releases its locks.              *)
(*                                                                         *)
(* Every thread is a user thread.  The idle thread of each CPU is the      *)
(* value Idle: it is never queued, woken or reaped.  `waiters' stands for  *)
(* the wait queues of the kernel (console readers, waitpid callers).       *)
(***************************************************************************)
EXTENDS Integers, Sequences, FiniteSets

CONSTANTS
    CPU,                \* the schedulable CPUs
    Boot,               \* g_cpu_boot: takes device interrupts, runs the reaper
    Ticking,            \* the CPUs with a timer: all, or Boot with the PIT fallback
    Thread,             \* thread records of the slab cache
    Idle,               \* the idle thread (one per CPU, never shared)
    None                \* nullptr

ASSUME SchedulerAssumption ==
    /\ Boot \in Ticking /\ Ticking \subseteq CPU
    /\ Idle \notin Thread
    /\ None \notin Thread \cup CPU
    /\ None # Idle

VARIABLES
    state,      \* Thread::state
    runq,       \* cpu::runq, head first
    rqcpu,      \* Thread::run_queue_cpu
    current,    \* cpu::current_thread
    waiters,    \* threads linked on a wait queue
    ipi,        \* CPUs with a reschedule vector pending in their LAPIC
    stack,      \* the thread whose kernel stack a CPU executes on
    pc,         \* where a CPU's handler is
    arg,        \* the thread the handler works on
    dest,       \* target_cpu of mark_thread_ready
    entry,      \* how the handler ends: schedule_next(true), (false) or neither
    after       \* where mark_thread_ready returns to

queues == <<runq, rqcpu>>
vars == <<state, runq, rqcpu, current, waiters, ipi, stack, pc, arg, dest,
          entry, after>>

InQueue(q, t) == \E i \in 1..Len(q) : q[i] = t

RemoveAt(q, i) == [j \in 1..(Len(q) - 1) |-> IF j < i THEN q[j] ELSE q[j + 1]]

NoDuplicates(q) == \A i, j \in 1..Len(q) : q[i] = q[j] => i = j

-----------------------------------------------------------------------------
\* The boot CPU has entered the first thread; the others sit in their idle
\* threads (kernel_main, cpu_boot_others).
Init ==
    \E first \in Thread :
        /\ state = [t \in Thread |-> IF t = first THEN "Running" ELSE "Free"]
        /\ runq = [c \in CPU |-> <<>>]
        /\ rqcpu = [t \in Thread |-> None]
        /\ current = [c \in CPU |-> IF c = Boot THEN first ELSE Idle]
        /\ waiters = {}
        /\ ipi = {}
        /\ stack = [c \in CPU |-> None]
        /\ pc = [c \in CPU |-> "user"]
        /\ arg = [c \in CPU |-> None]
        /\ dest = [c \in CPU |-> None]
        /\ entry = [c \in CPU |-> None]
        /\ after = [c \in CPU |-> None]

\* Trap entry: the CPU switches to the kernel stack of its current thread
\* (trap_entry_common, syscall_entry) and the handler starts at `where'.
Enter(c, how, where) ==
    /\ pc[c] = "user"
    /\ stack' = [stack EXCEPT ![c] = current[c]]
    /\ entry' = [entry EXCEPT ![c] = how]
    /\ pc' = [pc EXCEPT ![c] = where]

Goto(c, where) == pc' = [pc EXCEPT ![c] = where]

\* schedule_next: the boot CPU reaps first.
ScheduleNext(c, where) == IF c = Boot THEN "reap" ELSE where

\* handle_irq, scheduler tick: balance, then the boot CPU wakes console readers.
\* enter_ap_idle_thread starts the local timer of an AP only when
\* prepare_scheduler_timer has not fallen back to the PIT.
Tick(c) ==
    /\ c \in Ticking
    /\ Enter(c, "keep", "balance")
    /\ UNCHANGED <<state, queues, current, waiters, ipi, arg, dest, after>>

\* handle_irq, reschedule vector.
Resched(c) ==
    /\ c \in ipi
    /\ ipi' = ipi \ {c}
    /\ Enter(c, "keep", IF c = Boot THEN "wake" ELSE "keep")
    /\ UNCHANGED <<state, queues, current, waiters, arg, dest, after>>

\* handle_irq, any other vector: a device on the boot CPU, a TLB shootdown on
\* the others.
DeviceIrq(c) ==
    /\ Enter(c, "irq", IF c = Boot THEN "wake" ELSE "check")
    /\ UNCHANGED <<state, queues, current, waiters, ipi, arg, dest, after>>

\* sys_yield
Yield(c) ==
    /\ current[c] # Idle
    /\ Enter(c, "keep", ScheduleNext(c, "keep"))
    /\ UNCHANGED <<state, queues, current, waiters, ipi, arg, dest, after>>

\* Mutant of Block: the thread is marked Blocked but not linked.
BlockUnlinked(c) ==
    /\ current[c] # Idle
    /\ Enter(c, "drop", ScheduleNext(c, "pop"))
    /\ state' = [state EXCEPT ![current[c]] = "Blocked"]
    /\ UNCHANGED <<queues, current, waiters, ipi, arg, dest, after>>

\* sys_read or sys_waitpid without a result: block_current_thread links the
\* thread on a wait queue and marks it Blocked under the queue's lock.
Block(c) ==
    /\ current[c] # Idle
    /\ Enter(c, "drop", ScheduleNext(c, "pop"))
    /\ state' = [state EXCEPT ![current[c]] = "Blocked"]
    /\ waiters' = waiters \cup {current[c]}
    /\ UNCHANGED <<queues, current, ipi, arg, dest, after>>

\* sys_exit, or a user fault: mark_current_thread_dying.
Exit(c) ==
    /\ current[c] # Idle
    /\ Enter(c, "drop", ScheduleNext(c, "pop"))
    /\ state' = [state EXCEPT ![current[c]] = "Dying"]
    /\ UNCHANGED <<queues, current, waiters, ipi, arg, dest, after>>

\* sys_spawn: create_user_thread fills and links a free record, then calls
\* mark_thread_ready; afterwards the caller returns to user mode.
Spawn(c, t) ==
    /\ current[c] # Idle
    /\ state[t] = "Free"
    /\ Enter(c, "return", "ready")
    /\ state' = [state EXCEPT ![t] = "Ready"]
    /\ arg' = [arg EXCEPT ![c] = t]
    /\ dest' = [dest EXCEPT ![c] = None]
    /\ after' = [after EXCEPT ![c] = "return"]
    /\ UNCHANGED <<queues, current, waiters, ipi>>

-----------------------------------------------------------------------------
\* scheduler_balance_cpu: with both run-queue locks held, move one Ready
\* thread from a queue that is longer by at least two.  Cool-down and affinity
\* may exempt any thread, so any Ready one may be taken.
Migrate(c) ==
    /\ pc[c] = "balance"
    /\ \E d \in CPU \ {c} : \E i \in 1..Len(runq[d]) :
          LET t == runq[d][i] IN
          /\ Len(runq[d]) > Len(runq[c]) + 1
          /\ state[t] = "Ready"
          /\ runq' = [runq EXCEPT ![d] = RemoveAt(@, i), ![c] = Append(@, t)]
          /\ rqcpu' = [rqcpu EXCEPT ![t] = c]
    /\ Goto(c, IF c = Boot THEN "wake" ELSE "keep")
    /\ UNCHANGED <<state, current, waiters, ipi, stack, arg, dest, entry, after>>

\* The balancer finds nothing to move, or is not due at this tick.
NoMigration(c) ==
    /\ pc[c] = "balance"
    /\ Goto(c, IF c = Boot THEN "wake" ELSE "keep")
    /\ UNCHANGED <<state, queues, current, waiters, ipi, stack, arg, dest, entry, after>>

\* A thread whose event has happened leaves its wait queue: wake_console_readers
\* in every interrupt of the boot CPU, wake_child_waiters in its reaper.  Then
\* wake_blocked_thread: the CPU's own current thread is only marked Running.
WakeWaiter(c) ==
    /\ pc[c] \in {"wake", "childwake"}
    /\ LET next == IF pc[c] = "wake" THEN "wake" ELSE "reap" IN
       \E t \in waiters :
          /\ waiters' = waiters \ {t}
          /\ \/ /\ t = current[c]
                /\ state' = [state EXCEPT ![t] = "Running"]
                /\ Goto(c, next)
                /\ UNCHANGED <<arg, dest, after>>
             \/ /\ t # current[c]
                /\ arg' = [arg EXCEPT ![c] = t]
                /\ dest' = [dest EXCEPT ![c] = None]
                /\ after' = [after EXCEPT ![c] = next]
                /\ Goto(c, "ready")
                /\ UNCHANGED state
    /\ UNCHANGED <<queues, current, ipi, stack, entry>>

WakeDone(c) ==
    /\ pc[c] \in {"wake", "childwake"}
    /\ Goto(c, "reap")
    /\ UNCHANGED <<state, queues, current, waiters, ipi, stack, arg, dest, entry, after>>

-----------------------------------------------------------------------------
\* mark_thread_ready: choose the target CPU and publish Ready.  Without a
\* given target select_user_target_cpu reads one queue length after another,
\* so by the time it is used the choice may be any CPU.
MarkReady(c) ==
    /\ pc[c] = "ready"
    /\ IF state[arg[c]] \in {"Dying", "Free"}
       THEN /\ Goto(c, after[c])
            /\ UNCHANGED <<state, dest>>
       ELSE /\ state' = [state EXCEPT ![arg[c]] = "Ready"]
            /\ IF dest[c] # None
               THEN UNCHANGED dest
               ELSE \E d \in CPU : dest' = [dest EXCEPT ![c] = d]
            /\ Goto(c, "enqueue")
    /\ UNCHANGED <<queues, current, waiters, ipi, stack, arg, entry, after>>

\* Mutant of Enqueue: the target is not interrupted.
EnqueueSilent(c) ==
    /\ pc[c] = "enqueue"
    /\ IF rqcpu[arg[c]] = None
       THEN /\ runq' = [runq EXCEPT ![dest[c]] = Append(@, arg[c])]
            /\ rqcpu' = [rqcpu EXCEPT ![arg[c]] = dest[c]]
       ELSE UNCHANGED queues
    /\ Goto(c, after[c])
    /\ UNCHANGED <<state, current, waiters, ipi, stack, arg, dest, entry, after>>

\* Mutant of Enqueue: the thread is linked at the head.
EnqueueFront(c) ==
    /\ pc[c] = "enqueue"
    /\ IF rqcpu[arg[c]] = None
       THEN /\ runq' = [runq EXCEPT ![dest[c]] = <<arg[c]>> \o @]
            /\ rqcpu' = [rqcpu EXCEPT ![arg[c]] = dest[c]]
            /\ Goto(c, IF dest[c] # c THEN "ipi" ELSE after[c])
       ELSE /\ Goto(c, after[c])
            /\ UNCHANGED queues
    /\ UNCHANGED <<state, current, waiters, ipi, stack, arg, dest, entry, after>>

\* enqueue_thread_on_cpu and run_queue_append_locked.
Enqueue(c) ==
    /\ pc[c] = "enqueue"
    /\ IF rqcpu[arg[c]] = None
       THEN /\ runq' = [runq EXCEPT ![dest[c]] = Append(@, arg[c])]
            /\ rqcpu' = [rqcpu EXCEPT ![arg[c]] = dest[c]]
            /\ Goto(c, IF dest[c] # c THEN "ipi" ELSE after[c])
       ELSE /\ Goto(c, after[c])
            /\ UNCHANGED queues
    /\ UNCHANGED <<state, current, waiters, ipi, stack, arg, dest, entry, after>>

\* ipi_send_reschedule: sets a bit in the target's LAPIC.
SendIpi(c) ==
    /\ pc[c] = "ipi"
    /\ ipi' = ipi \cup {dest[c]}
    /\ Goto(c, after[c])
    /\ UNCHANGED <<state, queues, current, waiters, stack, arg, dest, entry, after>>

-----------------------------------------------------------------------------
\* reap_dead_threads, boot CPU only: pick a Dying thread that is nobody's
\* current thread, under the registry lock.
ReapFind(c) ==
    /\ pc[c] = "reap"
    /\ \E t \in Thread :
          /\ state[t] = "Dying"
          /\ \A d \in CPU : current[d] # t
          /\ arg' = [arg EXCEPT ![c] = t]
    /\ Goto(c, "free")
    /\ UNCHANGED <<state, queues, current, waiters, ipi, stack, dest, entry, after>>

\* Free its kernel stack; clear_thread unqueues it and frees the record.
ReapFree(c) ==
    /\ pc[c] = "free"
    /\ LET t == arg[c] IN
          /\ runq' = [d \in CPU |->
                        IF d = rqcpu[t]
                        THEN SelectSeq(runq[d], LAMBDA x : x # t)
                        ELSE runq[d]]
          /\ rqcpu' = [rqcpu EXCEPT ![t] = None]
          /\ state' = [state EXCEPT ![t] = "Free"]
    /\ Goto(c, "childwake")
    /\ UNCHANGED <<current, waiters, ipi, stack, arg, dest, entry, after>>

\* Nothing to reap: go on with the rest of the handler.
ReapDone(c) ==
    /\ pc[c] = "reap"
    /\ ~\E t \in Thread : state[t] = "Dying" /\ \A d \in CPU : current[d] # t
    /\ Goto(c, CASE entry[c] = "keep" -> "keep"
                 [] entry[c] = "drop" -> "pop"
                 [] OTHER -> "check")
    /\ UNCHANGED <<state, queues, current, waiters, ipi, stack, arg, dest, entry, after>>

\* The end of handle_irq for a device vector: reschedule only a CPU that idles
\* although it has work queued.
IrqTail(c) ==
    /\ pc[c] = "check"
    /\ IF current[c] = Idle /\ runq[c] # <<>>
       THEN /\ entry' = [entry EXCEPT ![c] = "keep"]
            /\ Goto(c, ScheduleNext(c, "keep"))
       ELSE /\ Goto(c, "return")
            /\ UNCHANGED entry
    /\ UNCHANGED <<state, queues, current, waiters, ipi, stack, arg, dest, after>>

-----------------------------------------------------------------------------
\* schedule_next(true): requeue the current thread at its own CPU.
KeepCurrent(c) ==
    /\ pc[c] = "keep"
    /\ IF current[c] # Idle /\ state[current[c]] = "Running"
       THEN /\ arg' = [arg EXCEPT ![c] = current[c]]
            /\ dest' = [dest EXCEPT ![c] = c]
            /\ after' = [after EXCEPT ![c] = "pop"]
            /\ Goto(c, "ready")
       ELSE /\ Goto(c, "pop")
            /\ UNCHANGED <<arg, dest, after>>
    /\ UNCHANGED <<state, queues, current, waiters, ipi, stack, entry>>

\* Mutant of Pop: the head is taken but stays linked.
PopPeeks(c) ==
    /\ pc[c] = "pop"
    /\ arg' = [arg EXCEPT ![c] = IF runq[c] = <<>> THEN Idle ELSE Head(runq[c])]
    /\ Goto(c, "dispatch")
    /\ UNCHANGED <<state, queues, current, waiters, ipi, stack, dest, entry, after>>

\* dequeue_ready_thread, or the idle thread.
Pop(c) ==
    /\ pc[c] = "pop"
    /\ IF runq[c] = <<>>
       THEN /\ arg' = [arg EXCEPT ![c] = Idle]
            /\ UNCHANGED queues
       ELSE /\ arg' = [arg EXCEPT ![c] = Head(runq[c])]
            /\ runq' = [runq EXCEPT ![c] = Tail(@)]
            /\ rqcpu' = [rqcpu EXCEPT ![Head(runq[c])] = None]
    /\ Goto(c, "dispatch")
    /\ UNCHANGED <<state, current, waiters, ipi, stack, dest, entry, after>>

\* next->state = Running
Dispatch(c) ==
    /\ pc[c] = "dispatch"
    /\ state' = [t \in Thread |-> IF t = arg[c] THEN "Running" ELSE state[t]]
    /\ Goto(c, "restore")
    /\ UNCHANGED <<queues, current, waiters, ipi, stack, arg, dest, entry, after>>

\* restore_thread publishes the new current thread first ...
Restore(c) ==
    /\ pc[c] = "restore"
    /\ current' = [current EXCEPT ![c] = arg[c]]
    /\ Goto(c, "return")
    /\ UNCHANGED <<state, queues, waiters, ipi, stack, arg, dest, entry, after>>

\* ... and only leaves the previous thread's kernel stack with the final
\* `mov rsp, [rsp]' and iretq.
Return(c) ==
    /\ pc[c] = "return"
    /\ stack' = [stack EXCEPT ![c] = None]
    /\ arg' = [arg EXCEPT ![c] = None]
    /\ dest' = [dest EXCEPT ![c] = None]
    /\ entry' = [entry EXCEPT ![c] = None]
    /\ after' = [after EXCEPT ![c] = None]
    /\ Goto(c, "user")
    /\ UNCHANGED <<state, queues, current, waiters, ipi>>

\* The steps of a handler, once it has been entered.
Kernel(c) ==
    \/ Migrate(c) \/ NoMigration(c) \/ WakeWaiter(c) \/ WakeDone(c)
    \/ MarkReady(c) \/ Enqueue(c) \/ SendIpi(c)
    \/ ReapFind(c) \/ ReapFree(c) \/ ReapDone(c) \/ IrqTail(c)
    \/ KeepCurrent(c) \/ Pop(c) \/ Dispatch(c) \/ Restore(c) \/ Return(c)

Next ==
    \E c \in CPU :
        \/ Tick(c) \/ Resched(c) \/ DeviceIrq(c)
        \/ Yield(c) \/ Block(c) \/ Exit(c)
        \/ \E t \in Thread : Spawn(c, t)
        \/ Kernel(c)

Spec == Init /\ [][Next]_vars

\* A handler that has been entered runs to its end (interrupts are masked), and
\* a pending timer or reschedule vector stays in the LAPIC until it is taken.
\* The wake loop ends: it consumes a console line per reader, and only the boot
\* CPU's own (masked) interrupts add lines.
Fairness ==
    /\ \A c \in CPU : WF_vars(Kernel(c)) /\ SF_vars(Resched(c)) /\ SF_vars(WakeDone(c))
    /\ \A c \in Ticking : SF_vars(Tick(c))

FairSpec == Spec /\ Fairness

-----------------------------------------------------------------------------
PcValues == {"user", "balance", "wake", "childwake", "ready", "enqueue", "ipi",
             "reap", "free", "check", "keep", "pop", "dispatch", "restore", "return"}

\* The type of the scheduler's state: run queues hold live thread records, a
\* CPU's current thread is never nullptr once it schedules.
TypeOK ==
    /\ state \in [Thread -> {"Free", "Ready", "Running", "Blocked", "Dying"}]
    /\ runq \in [CPU -> Seq(Thread)]
    /\ rqcpu \in [Thread -> CPU \cup {None}]
    /\ current \in [CPU -> Thread \cup {Idle}]
    /\ waiters \subseteq Thread
    /\ ipi \subseteq CPU
    /\ stack \in [CPU -> Thread \cup {Idle, None}]
    /\ pc \in [CPU -> PcValues]
    /\ arg \in [CPU -> Thread \cup {Idle, None}]
    /\ dest \in [CPU -> CPU \cup {None}]
    /\ entry \in [CPU -> {"keep", "drop", "irq", "return", None}]
    /\ after \in [CPU -> {"wake", "reap", "pop", "return", None}]

\* A thread sits on at most one run queue, at most once, and run_queue_cpu says
\* which: the queues are linked through the thread itself, so a second link
\* would splice two queues together.
OneQueue ==
    /\ \A c \in CPU, t \in Thread : InQueue(runq[c], t) => rqcpu[t] = c
    /\ \A t \in Thread : rqcpu[t] # None => InQueue(runq[rqcpu[t]], t)
    /\ \A c \in CPU : NoDuplicates(runq[c])

NotLost(t) ==
    /\ state[t] = "Ready" =>
         \/ rqcpu[t] # None
         \/ \E c \in CPU : arg[c] = t /\ pc[c] \in {"ready", "enqueue", "dispatch"}
    /\ state[t] = "Blocked" =>
         \/ t \in waiters
         \/ \E c \in CPU : arg[c] = t /\ pc[c] = "ready"

\* No thread is lost between the two halves of a wake-up or a preemption: a
\* Ready thread is on a run queue or in the hands of a CPU that will put it
\* there or run it, and a Blocked one is on a wait queue or being woken.
NoThreadLost == \A t \in Thread : NotLost(t)

\* A queued thread is Ready: schedule_next sets Running without looking at the
\* state, so a queued thread that had blocked or died would be resumed.
QueuedIsReady == \A t \in Thread : rqcpu[t] # None => state[t] = "Ready"

\* A CPU never sleeps in its idle thread over a non-empty run queue: whoever
\* filled the queue has sent, or is about to send, the reschedule interrupt.
\* (Needed because application processors may run without a local timer.)
NoIdleOverWork ==
    \A c \in CPU :
        pc[c] = "user" /\ current[c] = Idle /\ runq[c] # <<>> =>
            c \in ipi \/ \E d \in CPU : pc[d] = "ipi" /\ dest[d] = c

\* A thread executes user code on at most one CPU at a time.
RunsOnOneCpu ==
    \A c, d \in CPU :
        pc[c] = "user" /\ pc[d] = "user" /\ current[c] = current[d] =>
            c = d \/ current[c] = Idle

Runs(t) == \E c \in CPU : pc[c] = "user" /\ current[c] = t

\* scheduler_balance_cpu moves thread t.
Moved(t) == \E c \in CPU : Migrate(c) /\ rqcpu'[t] # rqcpu[t]

\* Every thread that becomes ready eventually executes user code on some CPU,
\* whatever the queue it waits in, unless the balancer moves it from queue to queue
\* for ever: the cooldown that is to prevent this compares the tick counts of
\* different CPUs (thread_is_migratable).  This is about machines where every CPU
\* has a timer; with the PIT fallback a thread queued on an AP may wait for ever.
ReadyRuns ==
    \A t \in Thread : (state[t] = "Ready" ~> Runs(t)) \/ []<><<Moved(t)>>_vars

\* The reaper never frees a kernel stack that a CPU is still executing on.
StackNotFreedInUse ==
    \A c \in CPU : stack[c] \in Thread => state[stack[c]] # "Free"
=============================================================================
