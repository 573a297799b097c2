------------------------------- MODULE Console -------------------------------
(***************************************************************************)
(* Console input and the system calls around it: keys and serial bytes     *)
(* arrive in interrupts on the boot CPU, are edited into lines and echoed  *)
(* (console/console_input.cpp); readers on any CPU take a line or block    *)
(* (syscall/dispatch.cpp, syscall/console_read.cpp) and every interrupt of *)
(* the boot CPU serves the blocked ones; other calls write to the active   *)
(* terminal (sys_write, console/console.cpp) or read the event ring        *)
(* (sys_observe).  System calls run with interrupts off, so an interrupt   *)
(* meets only the calls of the other CPUs.                                 *)
(*                                                                         *)
(* A line is its number; its bytes are only counted.                       *)
(***************************************************************************)
EXTENDS Terminals, EventRing, FiniteSets

CONSTANTS
    CPU, Boot,      \* CPUs are numbers from 1
    Thread,         \* threads that read
    None,
    LineCapacity,   \* kConsoleInputCompletedLineCapacity
    MaxLineBytes,   \* kConsoleInputMaxLineBytes
    MaxKeys,        \* bound: characters that arrive
    MaxCalls,       \* bound: system calls
    MaxBytes,       \* bound: bytes of a write
    Usage           \* keys of the USB keyboard

ASSUME ConsoleAssumption ==
    /\ CPU \subseteq Nat \ {0} /\ Boot \in CPU /\ None \notin Thread
    /\ LineCapacity \in Nat \ {0} /\ MaxLineBytes \in Nat \ {0}
    /\ MaxKeys \in Nat /\ MaxCalls \in Nat /\ MaxBytes \in Nat

VARIABLES
    pending,            \* g_pending_length
    line, lineHead, lineTail, lineCount,    \* g_completed_*
    lines,              \* lines committed so far
    queued,             \* those neither dropped nor taken
    keys,               \* characters so far
    held,               \* BootKeyboardState::keys
    irq,                \* the boot CPU's interrupt handler
    call, calls,        \* the call each CPU executes; calls so far
    blocked,            \* threads blocked in read
    waiters,            \* g_console_read_waiters
    shared              \* two calls have used the static snapshot at once

inputVars == <<pending, line, lineHead, lineTail, lineCount, lines, queued, keys, held>>
callVars == <<call, calls, blocked, waiters, shared>>
vars == <<terminalVars, ringVars, inputVars, irq, callVars>>

NoCall == [op |-> "none", t |-> None, left |-> 0, got |-> <<>>, upto |-> 0]
NoIrq == [pc |-> "off", t |-> None, source |-> "none", left |-> 0, commit |-> FALSE]

\* console_input_initialize
Init ==
    /\ TerminalsInit /\ RingInit
    /\ pending = 0 /\ line = [i \in 0..(LineCapacity - 1) |-> 0]
    /\ lineHead = 0 /\ lineTail = 0 /\ lineCount = 0 /\ lines = 0
    /\ queued = {} /\ keys = 0 /\ held = {}
    /\ irq = NoIrq /\ call = [c \in CPU |-> NoCall] /\ calls = 0
    /\ blocked = {} /\ waiters = <<>> /\ shared = FALSE

\* g_console_input_lock is held over the handling of a character, echo included, and
\* over all the characters of a poll.
InputLocked == irq.pc = "echo" \/ (irq.pc = "input" /\ irq.source = "serial")

-----------------------------------------------------------------------------
(* Characters, on the boot CPU *)

\* Mutant: a full queue is not noticed.
Commit_Overwrites ==
    /\ line' = [line EXCEPT ![lineTail] = lines + 1]
    /\ lineTail' = (lineTail + 1) % LineCapacity
    /\ lineCount' = IF lineCount = LineCapacity THEN lineCount ELSE lineCount + 1
    /\ queued' = queued \cup {lines + 1}
    /\ lines' = lines + 1 /\ pending' = 0 /\ UNCHANGED lineHead

\* commit_pending_line: dropped when the queue is full.
Commit ==
    /\ IF lineCount = LineCapacity
       THEN UNCHANGED <<line, lineTail, lineCount, queued>>
       ELSE /\ line' = [line EXCEPT ![lineTail] = lines + 1]
            /\ lineTail' = (lineTail + 1) % LineCapacity
            /\ lineCount' = lineCount + 1
            /\ queued' = queued \cup {lines + 1}
    /\ lines' = lines + 1 /\ pending' = 0 /\ UNCHANGED lineHead

\* echo_byte, echo_backspace: the terminal's write, without the output lock.
Echo(ch, commit) ==
    /\ WriteBegins(Boot, ch) /\ irq' = [irq EXCEPT !.pc = "echo", !.commit = commit, !.left = @ - 1]

Silent == irq' = [irq EXCEPT !.left = @ - 1] /\ UNCHANGED terminalVars

TooLong == pending + 1 >= MaxLineBytes

\* handle_input_char
Character ==
    /\ irq.pc = "input" /\ irq.left > 0 /\ keys < MaxKeys /\ keys' = keys + 1
    /\ \/ IF pending > 0 THEN Echo("backspace", FALSE) /\ pending' = pending - 1
                         ELSE Silent /\ UNCHANGED pending
       \/ Echo("newline", TRUE) /\ UNCHANGED pending
       \/ /\ irq.source # "hot key"        \* the tables give those a control code
          /\ IF TooLong THEN Silent /\ UNCHANGED pending
                        ELSE Echo("printable", FALSE) /\ pending' = pending + 1
       \/ Silent /\ UNCHANGED pending       \* not printable
    /\ UNCHANGED <<line, lineHead, lineTail, lineCount, lines, queued, held, ringVars, callVars>>

\* The end of the echo; a newline then commits the line.
Echoed ==
    /\ irq.pc = "echo" /\ WriteEnds
    /\ irq' = [irq EXCEPT !.pc = "input", !.commit = FALSE]
    /\ IF irq.commit THEN Commit ELSE UNCHANGED <<pending, line, lineHead, lineTail, lineCount, lines, queued>>
    /\ UNCHANGED <<keys, held, ringVars, callVars>>

BeginIrq(source, n) ==
    /\ irq.pc = "off" /\ call[Boot] = NoCall
    /\ irq' = [NoIrq EXCEPT !.pc = "input", !.source = source, !.left = n]

\* handle_irq for the tick: console_input_poll_serial takes what has arrived.
Tick ==
    /\ \E n \in 0..(MaxKeys - keys) : BeginIrq("serial", n)
    /\ UNCHANGED <<terminalVars, ringVars, inputVars, callVars>>

\* Keyboard::irq_handler: a shift or break code, or a key; a hot key switches
\* (kernel_keyboard_hook) and is a character nevertheless.
KeyboardIrq ==
    /\ \/ (\E n \in {0, 1} : n <= MaxKeys - keys /\ BeginIrq("ps2", n)) /\ UNCHANGED terminalVars
       \/ keys < MaxKeys /\ BeginIrq("hot key", 1) /\ \E t \in Terminal : SwitchTo(t)
    /\ Record
    /\ UNCHANGED <<inputVars, callVars>>

\* boot_keyboard_apply_report: the keys the last report did not have, each of which
\* may have a character.
NewKeys(report) == report \ held

\* handle_keyboard_report; a roll-over report is one without keys.
ReportIrq ==
    /\ \E report \in SUBSET Usage :
          /\ \E n \in 0..Cardinality(NewKeys(report)) : n <= MaxKeys - keys /\ BeginIrq("usb", n)
          /\ held' = report
    /\ Record
    /\ UNCHANGED <<pending, line, lineHead, lineTail, lineCount, lines, queued, keys>>
    /\ UNCHANGED <<terminalVars, callVars>>

\* Mutant: only an interrupt that may have brought a key serves the readers.
InputEnds_OnlyKeys ==
    /\ irq.pc = "input" /\ irq.left = 0
    /\ irq' = IF irq.source = "serial" THEN NoIrq ELSE [irq EXCEPT !.pc = "wake"]
    /\ UNCHANGED <<terminalVars, ringVars, inputVars, callVars>>

\* The end of input: handle_irq goes on to wake_console_readers.
InputEnds ==
    /\ irq.pc = "input" /\ irq.left = 0 /\ irq' = [irq EXCEPT !.pc = "wake"]
    /\ UNCHANGED <<terminalVars, ringVars, inputVars, callVars>>

-----------------------------------------------------------------------------
(* Lines, on any CPU *)

HasLine == lineCount > 0

\* console_input_pop_line.  The line is gone even when the caller's buffer is too small
\* for it and the read returns -1.
Popped ==
    /\ line' = [line EXCEPT ![lineHead] = 0]
    /\ lineHead' = (lineHead + 1) % LineCapacity /\ lineCount' = lineCount - 1
    /\ queued' = queued \ {line[lineHead]}
    /\ UNCHANGED <<pending, lineTail, lines, keys, held>>

\* wake_console_readers: the loop's condition, and the first waiter.
WakeNone ==
    /\ irq.pc = "wake" /\ (~HasLine \/ waiters = <<>>) /\ irq' = NoIrq
    /\ UNCHANGED <<terminalVars, ringVars, inputVars, callVars>>

WakeDequeue ==
    /\ irq.pc = "wake" /\ HasLine /\ waiters # <<>>
    /\ irq' = [irq EXCEPT !.pc = "serve", !.t = Head(waiters)] /\ waiters' = Tail(waiters)
    /\ UNCHANGED <<terminalVars, ringVars, inputVars, call, calls, blocked, shared>>

\* wait_queue_enqueue: at the tail, unless it is there already.
Enqueue(t) == waiters' = IF \E i \in DOMAIN waiters : waiters[i] = t THEN waiters ELSE Append(waiters, t)

Requeue(t) == Enqueue(t)

\* try_complete_console_read for a waiter: another CPU may have taken the line.
WakeServe ==
    /\ irq.pc = "serve"
    /\ IF HasLine
       THEN /\ Popped
            /\ blocked' = blocked \ {irq.t} /\ irq' = [irq EXCEPT !.pc = "wake", !.t = None]
            /\ UNCHANGED waiters
       ELSE /\ Requeue(irq.t) /\ irq' = NoIrq /\ UNCHANGED <<blocked, inputVars>>
    /\ UNCHANGED <<terminalVars, ringVars, call, calls, shared>>

-----------------------------------------------------------------------------
(* System calls *)

Interrupted(c) == c = Boot /\ irq.pc # "off"

Begin(c, x) ==
    /\ call[c] = NoCall /\ ~Interrupted(c) /\ calls < MaxCalls /\ calls' = calls + 1
    /\ call' = [call EXCEPT ![c] = x]

Return(c) == call' = [call EXCEPT ![c] = NoCall] /\ UNCHANGED calls

\* handle_syscall: read, write, observe.
BeginRead ==
    /\ \E c \in CPU, t \in Thread \ blocked :
          /\ \A d \in CPU : call[d].t # t
          /\ Begin(c, [NoCall EXCEPT !.op = "read", !.t = t])
    /\ UNCHANGED <<terminalVars, ringVars, inputVars, irq, blocked, waiters, shared>>

BeginWrite ==
    /\ \E c \in CPU, n \in 1..MaxBytes : Begin(c, [NoCall EXCEPT !.op = "write", !.left = n])
    /\ UNCHANGED <<terminalVars, ringVars, inputVars, irq, blocked, waiters, shared>>

\* sys_observe
BeginObserve ==
    /\ \E c \in CPU : Begin(c, [NoCall EXCEPT !.op = "observe"])
    /\ UNCHANGED <<terminalVars, ringVars, inputVars, irq, blocked, waiters, shared>>

\* try_complete_console_read: a line is there and is taken, or the caller blocks.
ReadTry(c) ==
    /\ call[c].op = "read" /\ ~InputLocked
    /\ IF HasLine THEN Popped /\ Return(c)
       ELSE call' = [call EXCEPT ![c].op = "block"] /\ UNCHANGED <<inputVars, calls>>
    /\ UNCHANGED <<terminalVars, ringVars, irq, blocked, waiters, shared>>

\* block_current_thread_on_console_read: without another look at the queue.
ReadBlock(c) ==
    /\ call[c].op = "block" /\ blocked' = blocked \cup {call[c].t}
    /\ Enqueue(call[c].t) /\ Return(c)
    /\ UNCHANGED <<terminalVars, ringVars, inputVars, irq, shared>>

\* sys_write, write_console_bytes: a chunk, byte by byte under the output lock.
WriteLock(c) ==
    /\ call[c].op = "write" /\ \A d \in CPU : call[d].op \notin {"next byte", "byte"}
    /\ call' = [call EXCEPT ![c].op = "next byte"]
    /\ UNCHANGED <<terminalVars, ringVars, inputVars, irq, calls, blocked, waiters, shared>>

WriteByte(c) ==
    /\ call[c].op = "next byte" /\ call[c].left > 0
    /\ \E ch \in Char : WriteBegins(c, ch)
    /\ call' = [call EXCEPT ![c].op = "byte", ![c].left = @ - 1]
    /\ UNCHANGED <<ringVars, inputVars, irq, calls, blocked, waiters, shared>>

WriteByteEnds(c) ==
    /\ call[c].op = "byte" /\ WriteEnds
    /\ call' = [call EXCEPT ![c].op = "next byte"]
    /\ UNCHANGED <<ringVars, inputVars, irq, calls, blocked, waiters, shared>>

WriteReturn(c) ==
    /\ call[c].op = "next byte" /\ call[c].left = 0 /\ Return(c)
    /\ UNCHANGED <<terminalVars, ringVars, inputVars, irq, blocked, waiters, shared>>

\* sys_observe_events: the snapshot, in an array that all calls share.
ObserveSnapshot(c) ==
    /\ call[c].op = "observe" /\ TakeSnapshot
    /\ call' = [call EXCEPT ![c].op = "header", ![c].left = ringCount, ![c].upto = nextSequence - 1]
    /\ shared' = (shared \/ \E d \in CPU \ {c} : call[d].op \in {"header", "record"})
    /\ UNCHANGED <<terminalVars, inputVars, irq, calls, blocked, waiters>>

\* begin_observe_transfer: the buffer is too small for all records, or the header is
\* copied.
ObserveHeader(c) ==
    /\ call[c].op = "header"
    /\ Return(c) \/ (call' = [call EXCEPT ![c].op = "record"] /\ UNCHANGED calls)
    /\ UNCHANGED <<terminalVars, ringVars, inputVars, irq, blocked, waiters, shared>>

\* write_observe_record: the next record of the array is copied.
WriteRecord(x) == [x EXCEPT !.left = @ - 1, !.got = Append(@, snapshot[Len(@) + 1])]

\* sys_observe_events: record by record; a copy may fail.
ObserveRecord(c) ==
    /\ call[c].op = "record"
    /\ \/ Return(c)
       \/ call[c].left > 0 /\ call' = [call EXCEPT ![c] = WriteRecord(@)] /\ UNCHANGED calls
    /\ UNCHANGED <<terminalVars, ringVars, inputVars, irq, blocked, waiters, shared>>

-----------------------------------------------------------------------------

Arrive == Tick \/ KeyboardIrq \/ ReportIrq
Handle == Character \/ Echoed \/ InputEnds \/ WakeNone \/ WakeDequeue \/ WakeServe

Step(c) ==
    \/ ReadTry(c) \/ ReadBlock(c)
    \/ WriteLock(c) \/ WriteByte(c) \/ WriteByteEnds(c) \/ WriteReturn(c) \/ ObserveSnapshot(c) \/ ObserveHeader(c)
    \/ ObserveRecord(c)

BeginCall == BeginRead \/ BeginWrite \/ BeginObserve

\* Behaviours are followed up to the first overlap.
Stopped == overlapped /\ UNCHANGED vars

Next ==
    \/ ~overlapped /\ (Arrive \/ Handle \/ BeginCall \/ \E c \in CPU : Step(c))
    \/ Stopped

\* The timer ticks for ever and handlers and calls run to their end.
Fairness ==
    /\ WF_vars(~overlapped /\ Tick) /\ WF_vars(~overlapped /\ Handle)
    /\ \A c \in CPU : WF_vars(~overlapped /\ Step(c))

Spec == Init /\ [][Next]_vars /\ Fairness

-----------------------------------------------------------------------------
(* Properties *)

TypeOK ==
    /\ pending \in 0..(MaxLineBytes - 1) /\ lineCount \in 0..LineCapacity
    /\ lineHead \in 0..(LineCapacity - 1) /\ lineTail \in 0..(LineCapacity - 1)
    /\ blocked \subseteq Thread /\ keys \in 0..MaxKeys /\ lines \in 0..MaxKeys

\* The queue is a ring of exactly the lines that were committed and not taken, oldest
\* first: none is lost, doubled or overtaken, whoever takes them (commit_pending_line,
\* console_input_pop_line).
LinesInOrder ==
    /\ Cardinality(queued) = lineCount
    /\ \A i \in 1..lineCount :
          LET l == line[(lineHead + i - 1) % LineCapacity] IN
          l \in queued /\ Cardinality({k \in queued : k < l}) = i - 1

\* Records reach a caller without gap and in order, the newest last, whatever is
\* recorded meanwhile, as long as no other call uses the static array at the same time
\* (sys_observe_events, KernelEventRing::snapshot).
EventsConsecutive ==
    ~shared => \A c \in CPU : LET g == call[c].got IN
        \A i \in DOMAIN g : g[i] = call[c].upto - call[c].left - Len(g) + i

\* A reader does not sleep on a line: though it blocks without a second look, and its
\* line may have come just before, the boot CPU's next interrupts serve it or the line
\* goes to another reader (wake_console_readers in handle_irq).
ReaderServed ==
    (blocked # {} /\ lineCount > 0) ~> (blocked = {} \/ lineCount = 0 \/ overlapped)

=============================================================================
