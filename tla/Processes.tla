------------------------------ MODULE Processes ------------------------------
(***************************************************************************)
(* The life of a process: spawn, exit, waitpid, the boot CPU's reaper and  *)
(* the teardown both of them call (syscall/wait.cpp, syscall/process.cpp,  *)
(* proc/process.cpp, proc/user_program.cpp, proc/reaper.cpp).              *)
(*                                                                         *)
(* A user process has exactly one thread, so a member of Proc stands for a *)
(* process record and for the thread record that goes with it; the two are *)
(* created and released separately (pstate, tstate).  A step is one        *)
(* critical section of the process-table or thread-registry lock, or one   *)
(* unlocked access that another CPU can race with.  waitpid's look for a   *)
(* child and its enqueue are two steps under one hold of the process-table *)
(* lock: what the reaper does in between needs other locks only.  Run      *)
(* queues are one set here: Scheduler has them in detail.                  *)
(***************************************************************************)
EXTENDS Integers, FiniteSets

CONSTANTS
    CPU,        \* the schedulable CPUs
    Boot,       \* the CPU that runs the reaper
    Proc,       \* process records, each with its thread record
    InitProc,   \* the process kernel_main loads: it has no parent
    Idle,       \* the idle thread
    None,       \* nullptr
    MaxPid,     \* bound on g_next_pid: how many processes are ever created
    Status      \* exit statuses; 0 is the one a new process starts with

ASSUME ProcessAssumption ==
    /\ Boot \in CPU /\ InitProc \in Proc /\ MaxPid \in Nat \ {0} /\ 0 \in Status
    /\ Idle \notin Proc /\ None \notin Proc \cup Status /\ None # Idle

VARIABLES
    pstate,     \* Process::state
    linked,     \* processes on the registry list, which is in pid order
    parent,     \* Process::parent
    pid,        \* Process::pid
    status,     \* Process::exit_status
    tstate,     \* Thread::state
    waiting,    \* threads linked on their process's child_exit_waiters
    want,       \* Thread::wait.child_exit.pid, 0 for any child
    queued,     \* threads on a run queue
    current,    \* cpu::current_thread
    nextPid,    \* g_next_pid
    pc,         \* where a CPU's handler is
    keep,       \* the argument of schedule_next
    obj,        \* the process record the handler works on
    waiter,     \* the waitpid caller a child is collected for
    ret,        \* where reap_process returns to
    arg,        \* the pid argument of waitpid
    exited,     \* history: the status each pid passed to exit
    got         \* history: the status waitpid delivered for each pid

procs == <<pstate, linked, parent, pid, status, nextPid>>
threads == <<tstate, waiting, want, queued, current>>
regs == <<keep, obj, waiter, ret, arg>>
history == <<exited, got>>
vars == <<procs, threads, pc, regs, history>>

Init ==
    /\ pstate = [p \in Proc |-> IF p = InitProc THEN "Running" ELSE "Free"]
    /\ linked = {InitProc}
    /\ parent = [p \in Proc |-> None]
    /\ pid = [p \in Proc |-> IF p = InitProc THEN 1 ELSE 0]
    /\ status = [p \in Proc |-> 0]
    /\ tstate = [p \in Proc |-> IF p = InitProc THEN "Running" ELSE "Free"]
    /\ waiting = {}
    /\ want = [p \in Proc |-> 0]
    /\ queued = {}
    /\ current = [c \in CPU |-> IF c = Boot THEN InitProc ELSE Idle]
    /\ nextPid = 2
    /\ pc = [c \in CPU |-> "user"]
    /\ keep = [c \in CPU |-> FALSE]
    /\ obj = [c \in CPU |-> None]
    /\ waiter = [c \in CPU |-> None]
    /\ ret = [c \in CPU |-> "user"]
    /\ arg = [c \in CPU |-> 0]
    /\ exited = [i \in 1..MaxPid |-> None]
    /\ got = [i \in 1..MaxPid |-> None]

Goto(c, where) == pc' = [pc EXCEPT ![c] = where]

\* No other CPU holds g_process_table_lock from one step to the next: waitpid does,
\* between its look for a child and the enqueue.
TableFree(c) == \A d \in CPU \ {c} : pc[d] # "block"

\* schedule_next(k), called by the handler of CPU c.
ScheduleNext(c, k) ==
    /\ keep' = [keep EXCEPT ![c] = k]
    /\ Goto(c, IF c = Boot THEN "reap" ELSE "keep")

\* set_process_state: a Dying process stays Dying.
SetProcessState(f, p, s) == [f EXCEPT ![p] = IF @ = "Dying" THEN @ ELSE s]

\* find_child_process_locked: the first match in registry order.
Children(p, w, states) ==
    {q \in linked : parent[q] = p /\ pstate[q] \in states /\ w \in {0, pid[q]}}

AnyChild(p, w) == Children(p, w, {"Ready", "Running", "Zombie"}) # {}

FirstZombie(p, w) ==
    {q \in Children(p, w, {"Zombie"}) :
        \A r \in Children(p, w, {"Zombie"}) : pid[q] <= pid[r]}

\* Mutant: a waitpid for any child finds none.
CollectableByPidOnly(p, w) == {q \in FirstZombie(p, w) : tstate[q] = "Free" /\ pid[q] = w}

\* The zombie waitpid may collect: the first one, once its thread is gone.
Collectable(p, w) == {q \in FirstZombie(p, w) : tstate[q] = "Free"}

-----------------------------------------------------------------------------
\* The registry and its records: allocate_process_record, link_process,
\* unlink_process and orphan_children.
IsFree(q) == pstate[q] = "Free" /\ q \notin linked

LinkProcess(q) == linked' = linked \cup {q}

UnlinkProcess(q) == linked' = linked \ {q}

OrphanChildren(p) ==
    parent' = [q \in Proc |-> IF q \in linked /\ parent[q] = p THEN None ELSE parent[q]]

\* A thread is in its registry until its record is released.
LinkThread(p) == tstate' = [tstate EXCEPT ![p] = "Ready"]

ReleaseThread(p) == tstate' = [tstate EXCEPT ![p] = "Free"]

ClearThreadWait(p) == want' = [want EXCEPT ![p] = 0]

\* sys_spawn, load_user_program: create_user_process takes a free record.
SpawnProcess(c) ==
    /\ pc[c] = "user" /\ current[c] # Idle /\ TableFree(c) /\ nextPid <= MaxPid
    /\ \E q \in Proc :
          /\ IsFree(q)
          /\ pstate' = [pstate EXCEPT ![q] = "Ready"]
          /\ LinkProcess(q)
          /\ parent' = [parent EXCEPT ![q] = current[c]]
          /\ pid' = [pid EXCEPT ![q] = nextPid]
          /\ status' = [status EXCEPT ![q] = 0]
          /\ obj' = [obj EXCEPT ![c] = q]
    /\ nextPid' = nextPid + 1
    /\ Goto(c, "thread")
    /\ UNCHANGED <<threads, keep, waiter, ret, arg, history>>

\* create_user_thread fills and links the thread, and mark_thread_ready queues
\* it: from here on another CPU may run it.
SpawnThread(c) ==
    /\ pc[c] = "thread" /\ TableFree(c)
    /\ LinkThread(obj[c])
    /\ pstate' = SetProcessState(pstate, obj[c], "Ready")
    /\ queued' = queued \cup {obj[c]}
    /\ Goto(c, "prepare")
    /\ UNCHANGED <<linked, parent, pid, status, nextPid, waiting, want, current, regs, history>>

\* No memory for the thread: the process is torn down again.
SpawnFails(c) ==
    /\ pc[c] = "thread"
    /\ ret' = [ret EXCEPT ![c] = "user"]
    /\ Goto(c, "unlink")
    /\ UNCHANGED <<procs, threads, keep, obj, waiter, arg, history>>

\* prepare_user_thread_entry, through the pointer create_user_thread returned:
\* a released thread record is zeroed and has no process any more.
SpawnPrepare(c) ==
    /\ pc[c] = "prepare"
    /\ ClearThreadWait(obj[c])
    /\ status' = IF tstate[obj[c]] = "Free" THEN status ELSE [status EXCEPT ![obj[c]] = 0]
    /\ obj' = [obj EXCEPT ![c] = None]
    /\ Goto(c, "user")
    /\ UNCHANGED <<pstate, linked, parent, pid, nextPid, tstate, waiting, queued, current,
                   keep, waiter, ret, arg, history>>

\* Mutant: the status is not stored in the process.
ExitUnrecorded(c) ==
    /\ pc[c] = "user" /\ current[c] # Idle /\ TableFree(c)
    /\ LET p == current[c] IN
       \E s \in Status :
          /\ status' = status
          /\ pstate' = [pstate EXCEPT ![p] = IF parent[p] # None THEN "Zombie" ELSE "Dying"]
          /\ tstate' = [tstate EXCEPT ![p] = "Dying"]
          /\ exited' = [exited EXCEPT ![pid[p]] = s]
    /\ ScheduleNext(c, FALSE)
    /\ UNCHANGED <<linked, parent, pid, nextPid, waiting, want, queued, current,
                   obj, waiter, ret, arg, got>>

\* sys_exit or a user fault: mark_current_thread_dying.
Exit(c) ==
    /\ pc[c] = "user" /\ current[c] # Idle /\ TableFree(c)
    /\ LET p == current[c] IN
       \E s \in Status :
          /\ status' = [status EXCEPT ![p] = s]
          /\ pstate' = [pstate EXCEPT ![p] = IF parent[p] # None THEN "Zombie" ELSE "Dying"]
          /\ tstate' = [tstate EXCEPT ![p] = "Dying"]
          /\ exited' = [exited EXCEPT ![pid[p]] = s]
    /\ ScheduleNext(c, FALSE)
    /\ UNCHANGED <<linked, parent, pid, nextPid, waiting, want, queued, current,
                   obj, waiter, ret, arg, got>>

-----------------------------------------------------------------------------
\* The child's status, read under the lock, is copied out to the caller p; then
\* reap_process, which returns to where.
Collect(c, p, w, where) ==
    /\ \E q \in Collectable(p, w) :
          /\ obj' = [obj EXCEPT ![c] = q]
          /\ got' = [got EXCEPT ![pid[q]] = status[q]]
    /\ ret' = [ret EXCEPT ![c] = where]
    /\ Goto(c, "unlink")

\* sys_waitpid with a collectable child.  (With a bad status pointer it returns
\* -1 and has changed nothing.)
WaitCollect(c) ==
    /\ pc[c] = "user" /\ current[c] # Idle /\ TableFree(c)
    /\ \E w \in 0..MaxPid : Collect(c, current[c], w, "user")
    /\ waiter' = [waiter EXCEPT ![c] = current[c]]
    /\ UNCHANGED <<procs, threads, keep, arg, exited>>

\* Mutant: decide to block without looking for a zombie.
WaitLookUnchecked(c) ==
    /\ pc[c] = "user" /\ current[c] # Idle /\ TableFree(c)
    /\ \E w \in 0..MaxPid :
          /\ AnyChild(current[c], w)
          /\ arg' = [arg EXCEPT ![c] = w]
    /\ Goto(c, "block")
    /\ UNCHANGED <<procs, threads, keep, obj, waiter, ret, history>>

\* sys_waitpid otherwise, when there is such a child: with the process-table lock
\* held, the thread-registry lock is taken for the look and given back ...
WaitLook(c) ==
    /\ pc[c] = "user" /\ current[c] # Idle /\ TableFree(c)
    /\ \E w \in 0..MaxPid :
          /\ Collectable(current[c], w) = {} /\ AnyChild(current[c], w)
          /\ arg' = [arg EXCEPT ![c] = w]
    /\ Goto(c, "block")
    /\ UNCHANGED <<procs, threads, keep, obj, waiter, ret, history>>

\* ... and then, under the lock of the wait queue, the caller is linked and marked
\* Blocked.
WaitBlock(c) ==
    /\ pc[c] = "block"
    /\ LET p == current[c] IN
          /\ want' = [want EXCEPT ![p] = arg[c]]
          /\ waiting' = waiting \cup {p}
          /\ tstate' = [tstate EXCEPT ![p] = "Blocked"]
          /\ pstate' = SetProcessState(pstate, p, "Ready")
    /\ arg' = [arg EXCEPT ![c] = 0]
    /\ ScheduleNext(c, FALSE)
    /\ UNCHANGED <<linked, parent, pid, status, nextPid, queued, current,
                   obj, waiter, ret, history>>

\* reap_process under both registry locks: refuse while a thread is left,
\* otherwise orphan the children and unlink the record ...
ReapUnlink(c) ==
    /\ pc[c] = "unlink" /\ TableFree(c)
    /\ IF tstate[obj[c]] # "Free"
       THEN /\ Goto(c, ret[c])
            /\ UNCHANGED procs
       ELSE /\ OrphanChildren(obj[c]) /\ UnlinkProcess(obj[c])
            /\ Goto(c, "release")
            /\ UNCHANGED <<pstate, pid, status, nextPid>>
    /\ UNCHANGED <<threads, regs, history>>

\* ... and, without a lock, release_process_record zeroes and frees it.  For a
\* record that is already free kmem_cache_free panics and this CPU stops.
ReapRelease(c) ==
    /\ pc[c] = "release"
    /\ pstate[obj[c]] # "Free"
    /\ pstate' = [pstate EXCEPT ![obj[c]] = "Free"]
    /\ parent' = [parent EXCEPT ![obj[c]] = None]
    /\ pid' = [pid EXCEPT ![obj[c]] = 0]
    /\ status' = [status EXCEPT ![obj[c]] = 0]
    /\ waiting' = waiting \ {obj[c]}
    /\ obj' = [obj EXCEPT ![c] = None]
    /\ Goto(c, ret[c])
    /\ UNCHANGED <<linked, nextPid, tstate, want, queued, current, keep, waiter, ret, arg, history>>

-----------------------------------------------------------------------------
\* reap_dead_threads on the boot CPU: a Dying thread that is nobody's current
\* thread.
ReapFind(c) ==
    /\ pc[c] = "reap"
    /\ \E q \in Proc :
          /\ tstate[q] = "Dying" /\ \A d \in CPU : current[d] # q
          /\ obj' = [obj EXCEPT ![c] = q]
    /\ Goto(c, "clear")
    /\ UNCHANGED <<procs, threads, keep, waiter, ret, arg, history>>

ReapNone(c) ==
    /\ pc[c] = "reap"
    /\ \A q \in Proc : tstate[q] = "Dying" => \E d \in CPU : current[d] = q
    /\ Goto(c, "keep")
    /\ UNCHANGED <<procs, threads, regs, history>>

\* Free the kernel stack; clear_thread unlinks and releases the thread record.
ReapClear(c) ==
    /\ pc[c] = "clear"
    /\ ReleaseThread(obj[c])
    /\ queued' = queued \ {obj[c]}
    /\ want' = [want EXCEPT ![obj[c]] = 0]
    /\ Goto(c, "owner")
    /\ UNCHANGED <<procs, waiting, current, regs, history>>

\* process_has_threads(owner), through the pointer read before clear_thread.
ReapOwner(c) ==
    /\ pc[c] = "owner"
    /\ Goto(c, IF tstate[obj[c]] = "Free" THEN "state" ELSE "reap")
    /\ UNCHANGED <<procs, threads, regs, history>>

\* Mutant: a zombie nobody waits for yet is reaped like any other process.
ReapStateEager(c) ==
    /\ pc[c] = "state"
    /\ IF pstate[obj[c]] = "Zombie" /\ parent[obj[c]] \in waiting
       THEN /\ waiter' = [waiter EXCEPT ![c] = parent[obj[c]]]
            /\ obj' = [obj EXCEPT ![c] = None]
            /\ Goto(c, "wake")
            /\ UNCHANGED ret
       ELSE /\ ret' = [ret EXCEPT ![c] = "reap"]
            /\ Goto(c, "unlink")
            /\ UNCHANGED <<obj, waiter>>
    /\ UNCHANGED <<procs, threads, keep, arg, exited, got>>

\* A zombie is left to its parent, which is woken; any other process is reaped.
ReapState(c) ==
    /\ pc[c] = "state"
    /\ IF pstate[obj[c]] = "Zombie"
       THEN /\ waiter' = [waiter EXCEPT ![c] = parent[obj[c]]]
            /\ obj' = [obj EXCEPT ![c] = None]
            /\ Goto(c, IF parent[obj[c]] = None THEN "reap" ELSE "wake")
            /\ UNCHANGED ret
       ELSE /\ ret' = [ret EXCEPT ![c] = "reap"]
            /\ Goto(c, "unlink")
            /\ UNCHANGED <<obj, waiter>>
    /\ UNCHANGED <<procs, threads, keep, arg, exited, got>>

\* wake_child_waiters: take the parent's thread off its queue ...
WakeDequeue(c) ==
    /\ pc[c] = "wake"
    /\ waiting' = waiting \ {waiter[c]}
    /\ Goto(c, IF waiter[c] \in waiting THEN "try" ELSE "reap")
    /\ UNCHANGED <<procs, tstate, want, queued, current, regs, history>>

\* ... try_complete_wait_pid for it: collect; give up, when no child is left or
\* the status cannot be copied out; or put it back.
WakeTry(c) ==
    /\ pc[c] = "try" /\ TableFree(c)
    /\ LET p == waiter[c] IN
       \/ /\ Collect(c, p, want[p], "woken")
          /\ UNCHANGED waiting
       \/ /\ Collectable(p, want[p]) # {} \/ ~AnyChild(p, want[p])
          /\ Goto(c, "woken")
          /\ UNCHANGED <<waiting, obj, ret, got>>
       \/ /\ Collectable(p, want[p]) = {} /\ AnyChild(p, want[p])
          /\ waiting' = waiting \cup {p}
          /\ Goto(c, "reap")
          /\ UNCHANGED <<obj, ret, got>>
    /\ UNCHANGED <<procs, tstate, want, queued, current, keep, waiter, arg, exited>>

\* wake_blocked_thread: the CPU's own current thread is only marked Running,
\* any other one is queued by mark_thread_ready, unless it is Dying or Free.
WakeWoken(c) ==
    /\ pc[c] = "woken" /\ TableFree(c)
    /\ LET p == waiter[c]
           s == CASE p = current[c] -> "Running"
                  [] p # current[c] /\ tstate[p] \in {"Dying", "Free"} -> tstate[p]
                  [] OTHER -> "Ready"
       IN /\ ClearThreadWait(p)
          /\ tstate' = [tstate EXCEPT ![p] = s]
          /\ pstate' = IF s \in {"Running", "Ready"} THEN SetProcessState(pstate, p, s) ELSE pstate
          /\ queued' = IF s = "Ready" THEN queued \cup {p} ELSE queued
    /\ Goto(c, "reap")
    /\ UNCHANGED <<linked, parent, pid, status, nextPid, waiting, current, regs, history>>

-----------------------------------------------------------------------------
\* handle_irq: the timer.
Tick(c) ==
    /\ pc[c] = "user"
    /\ ScheduleNext(c, TRUE)
    /\ UNCHANGED <<procs, threads, obj, waiter, ret, arg, history>>

\* schedule_next: requeue the current thread when it is kept and Running.
KeepCurrent(c) ==
    /\ pc[c] = "keep" /\ TableFree(c)
    /\ LET p == current[c] IN
       IF keep[c] /\ p # Idle /\ tstate[p] = "Running"
       THEN /\ tstate' = [tstate EXCEPT ![p] = "Ready"]
            /\ pstate' = SetProcessState(pstate, p, "Ready")
            /\ queued' = queued \cup {p}
       ELSE UNCHANGED <<tstate, pstate, queued>>
    /\ Goto(c, "pop")
    /\ UNCHANGED <<linked, parent, pid, status, nextPid, waiting, want, current, regs, history>>

\* Run the queued thread p ...
Dispatch(c, p) ==
    /\ pc[c] = "pop" /\ TableFree(c) /\ p \in queued
    /\ queued' = queued \ {p}
    /\ tstate' = [tstate EXCEPT ![p] = "Running"]
    /\ pstate' = SetProcessState(pstate, p, "Running")
    /\ current' = [current EXCEPT ![c] = p]
    /\ Goto(c, "user")
    /\ UNCHANGED <<linked, parent, pid, status, nextPid, waiting, want, regs, history>>

\* ... or idle: the queued ones may be on another CPU's queue.
DispatchIdle(c) ==
    /\ pc[c] = "pop" /\ (queued = {} \/ CPU # {c})
    /\ current' = [current EXCEPT ![c] = Idle]
    /\ Goto(c, "user")
    /\ UNCHANGED <<procs, tstate, waiting, want, queued, regs, history>>

Kernel(c) ==
    \/ SpawnThread(c) \/ SpawnFails(c) \/ SpawnPrepare(c) \/ WaitBlock(c)
    \/ ReapUnlink(c) \/ ReapRelease(c)
    \/ ReapFind(c) \/ ReapNone(c) \/ ReapClear(c) \/ ReapOwner(c) \/ ReapState(c)
    \/ WakeDequeue(c) \/ WakeTry(c) \/ WakeWoken(c)
    \/ KeepCurrent(c) \/ DispatchIdle(c) \/ \E p \in Proc : Dispatch(c, p)

User(c) == SpawnProcess(c) \/ Exit(c) \/ WaitCollect(c) \/ WaitLook(c) \/ Tick(c)

Next == \E c \in CPU : User(c) \/ Kernel(c)

Spec == Init /\ [][Next]_vars

\* Handlers run to their end with interrupts masked, the timer ticks, and a
\* queued thread is dispatched (Scheduler!ReadyRuns).
Fairness ==
    /\ \A c \in CPU : WF_vars(Kernel(c)) /\ SF_vars(Tick(c))
    /\ \A p \in Proc : SF_vars(\E c \in CPU : Dispatch(c, p))

FairSpec == Spec /\ Fairness

-----------------------------------------------------------------------------
ThreadStates == {"Free", "Ready", "Running", "Blocked", "Dying"}
PcValues == {"user", "thread", "prepare", "block", "unlink", "release", "reap", "clear", "owner",
             "state", "wake", "try", "woken", "keep", "pop"}

\* The type of the process table, the threads and the handlers' registers.
TypeOK ==
    /\ pstate \in [Proc -> {"Free", "Ready", "Running", "Dying", "Zombie"}]
    /\ linked \subseteq Proc
    /\ parent \in [Proc -> Proc \cup {None}]
    /\ pid \in [Proc -> 0..MaxPid]
    /\ status \in [Proc -> Status]
    /\ tstate \in [Proc -> ThreadStates]
    /\ waiting \subseteq Proc /\ queued \subseteq Proc
    /\ want \in [Proc -> 0..MaxPid]
    /\ current \in [CPU -> Proc \cup {Idle}]
    /\ nextPid \in 2..(MaxPid + 1)
    /\ pc \in [CPU -> PcValues]
    /\ keep \in [CPU -> BOOLEAN]
    /\ obj \in [CPU -> Proc \cup {None}]
    /\ waiter \in [CPU -> Proc \cup {None}]
    /\ ret \in [CPU -> {"user", "reap", "woken"}]
    /\ exited \in [1..MaxPid -> Status \cup {None}]
    /\ got \in [1..MaxPid -> Status \cup {None}]
    /\ arg \in [CPU -> 0..MaxPid]

\* A child-exit wake is never missed: when a blocked waitpid caller's first
\* matching zombie has no thread left, the reaper is on its way to wake the
\* caller (try_complete_or_block_wait_pid against reap_dead_threads).
NoMissedExit ==
    \A p \in waiting :
        Collectable(p, want[p]) # {} =>
            \/ pc[Boot] \in {"owner", "state"} /\ parent[obj[Boot]] = p
            \/ pc[Boot] = "wake" /\ waiter[Boot] = p

\* The reaper leaves a zombie to its parent: its record goes away only in a
\* waitpid of the parent, or the parent has gone first.
ZombieKept ==
    [][\A q \in Proc :
          q \in linked /\ q \notin linked' /\ pstate[q] = "Zombie" /\ parent[q] # None =>
              \E c \in CPU : pc[c] = "unlink" /\ obj[c] = q /\ waiter[c] = parent[q]
                             /\ ret[c] # "reap" /\ got[pid[q]] # None]_vars

\* waitpid delivers the status the child passed to exit.
StatusDelivered == \A i \in 1..MaxPid : got[i] # None => got[i] = exited[i]

\* A process record is released once: release_process_record never meets a
\* record that has already gone back to the slab.
NoDoubleFree ==
    \A c \in CPU : pc[c] = "release" => pstate[obj[c]] # "Free"

\* A blocked waitpid caller with an exited child is woken.
WaiterWoken ==
    \A p \in Proc :
        p \in waiting /\ FirstZombie(p, want[p]) # {} ~> p \notin waiting

\* waitpid returns once a child it waits for has exited: the caller is back in
\* user mode.
WaitReturns ==
    \A p \in Proc :
        p \in waiting /\ FirstZombie(p, want[p]) # {} ~>
            \E c \in CPU : current[c] = p /\ pc[c] = "user"
=============================================================================
