---------------------------- MODULE ConsoleProofs ----------------------------
(***************************************************************************)
(* Proofs about Console, for any number of CPUs, threads, terminals and    *)
(* keys and any size of screen, line queue and event ring: the screen      *)
(* shows the active terminal, lines leave in the order they were typed,    *)
(* and records reach a caller of observe without a gap.                    *)
(***************************************************************************)
EXTENDS Console, FiniteSetTheorems, TLAPS

\* What the screen shows is what the display's shadow and its last cursor say, at all
\* times; between two writes these are the active terminal's.
ScreenInv ==
    /\ screen = [c \in Cell |-> Drawn(shadow[c], c = last)]
    /\ writer = 0 /\ ~overlapped => shadow = cells[active] /\ last = cursor[active]

-----------------------------------------------------------------------------
(* The screen *)

\* All that a step may do to the terminals and to the display.
LEMMA TerminalEffects ==
    ASSUME [Next]_vars
    PROVE  \/ UNCHANGED terminalVars
           \/ \E who \in CPU, ch \in Char : WriteBegins(who, ch)
           \/ WriteEnds
           \/ \E t \in Terminal : SwitchTo(t)
  <1>0. Boot \in CPU
    BY ConsoleAssumption
  <1>1. CASE UNCHANGED vars \/ Stopped
    BY <1>1 DEF vars, Stopped
  <1>2. CASE Arrive
    BY <1>2 DEF Arrive, Tick, KeyboardIrq, ReportIrq
  <1>3. CASE Character
    BY <1>0, <1>3 DEF Character, Echo, Silent, Char
  <1>4. CASE Handle /\ ~Character
    BY <1>4, SMTT(30) DEF Handle, Echoed, InputEnds, WakeNone, WakeDequeue, WakeServe
  <1>5. CASE BeginCall
    BY <1>5, Zenon DEF BeginCall, BeginRead, BeginWrite, BeginObserve
  <1>6. CASE \E c \in CPU : Step(c)
    BY <1>6 DEF Step, ReadTry, ReadBlock, WriteLock, WriteByte, WriteByteEnds, WriteReturn,
                ObserveSnapshot, ObserveHeader, ObserveRecord
  <1> QED BY <1>1, <1>2, <1>3, <1>4, <1>5, <1>6 DEF Next

\* present_framebuffer_text, which draws only some of the cells, leaves the screen as if
\* it had drawn all of them.
LEMMA PresentedAll ==
    ASSUME screen = [c \in Cell |-> Drawn(shadow[c], c = last)],
           NEW buffer, NEW at, Presented(buffer, at)
    PROVE  screen' = [c \in Cell |-> Drawn(shadow'[c], c = last')]
  <1>1. shadow' = buffer /\ last' = at
    BY DEF Presented
  <1>2. screen' = [c \in Cell |-> IF Redraw(c, buffer, at) THEN Drawn(buffer[c], at = c) ELSE screen[c]]
    BY DEF Presented
  <1>3. ASSUME NEW c \in Cell
        PROVE  (IF Redraw(c, buffer, at) THEN Drawn(buffer[c], at = c) ELSE screen[c])
                   = Drawn(buffer[c], c = at)
    <2>1. CASE Redraw(c, buffer, at)
      BY <2>1
    <2>2. CASE ~Redraw(c, buffer, at)
      <3>1. shadow[c] = buffer[c] /\ last # c /\ at # c
        BY <2>2 DEF Redraw
      <3>2. screen[c] = Drawn(shadow[c], c = last)
        OBVIOUS
      <3> QED BY <2>2, <3>1, <3>2
    <2> QED BY <2>1, <2>2
  <1> QED BY <1>1, <1>2, <1>3

\* ScreenInv is kept by every step.
LEMMA ScreenStep ==
    ASSUME ScreenInv, [Next]_vars
    PROVE  ScreenInv'
  <1>1. CASE UNCHANGED terminalVars
    BY <1>1 DEF ScreenInv, terminalVars
  <1>2. CASE \E who \in CPU, ch \in Char : WriteBegins(who, ch)
    <2>1. writer' # 0 /\ UNCHANGED <<shadow, last, screen>>
      BY <1>2, ConsoleAssumption DEF WriteBegins
    <2> QED BY <2>1 DEF ScreenInv
  <1>3. CASE WriteEnds
    <2>1. shadow' = cells'[active'] /\ last' = cursor'[active']
      BY <1>3 DEF WriteEnds, Presented
    <2> QED BY <1>3, <2>1, PresentedAll DEF ScreenInv, WriteEnds
  <1>4. CASE \E t \in Terminal : SwitchTo(t) /\ t # active
    <2>1. PICK t \in Terminal : SwitchTo(t) /\ t # active
      BY <1>4
    <2>2. Presented(cells[t], cursor[t])
      BY <2>1 DEF SwitchTo
    <2>3. shadow' = cells'[active'] /\ last' = cursor'[active']
      BY <2>1 DEF SwitchTo, Presented
    <2> QED BY <2>2, <2>3, PresentedAll DEF ScreenInv
  <1> QED BY <1>1, <1>2, <1>3, <1>4, TerminalEffects DEF SwitchTo

\* Whatever was written to whichever terminal and however often it was switched, the
\* screen shows the active terminal, on any number of CPUs and for any screen size.
THEOREM ScreenCorrect == Spec => []ScreenShowsActive
  <1>1. Init => ScreenInv
    <2> SUFFICES ASSUME Init PROVE ScreenInv
      OBVIOUS
    <2>1. /\ shadow = Blank /\ last = <<0, 0>> /\ active = 1 /\ 1 \in Terminal
          /\ cells = [t \in Terminal |-> Blank] /\ cursor = [t \in Terminal |-> <<0, 0>>]
          /\ screen = [c \in Cell |-> Drawn(FALSE, c = <<0, 0>>)]
      BY TerminalsAssumption DEF Init, TerminalsInit
    <2>2. \A c \in Cell : shadow[c] = FALSE
      BY <2>1 DEF Blank
    <2> QED BY <2>1, <2>2, Zenon DEF ScreenInv
  <1>2. ScreenInv /\ [Next]_vars => ScreenInv'
    BY ScreenStep
  <1>3. ScreenInv => ScreenShowsActive
    BY DEF ScreenInv, ScreenShowsActive
  <1> QED BY <1>1, <1>2, <1>3, PTL DEF Spec

-----------------------------------------------------------------------------
(* Positions in a ring *)

\* A remainder, for the positions that ring arithmetic forms: at most one round beyond
\* the ring's size.
Wrapped(a, n) == IF a < n THEN a ELSE a - n

LEMMA OneRound ==
    ASSUME NEW n \in Nat \ {0}, NEW a \in 0..(2 * n - 1)
    PROVE  a % n = Wrapped(a, n) /\ a % n \in 0..(n - 1)
  BY DEF Wrapped

-----------------------------------------------------------------------------
(* The line queue *)

\* The position of the i-th line of the queue, from 1.
At(i) == (lineHead + i - 1) % LineCapacity

\* LinesInOrder with what it needs to be inductive: the tail follows the last line, and
\* every line queued was committed.
LinesInv ==
    /\ lineCount \in 0..LineCapacity /\ lineHead \in 0..(LineCapacity - 1)
    /\ lineTail = (lineHead + lineCount) % LineCapacity
    /\ lines \in Nat /\ line \in [0..(LineCapacity - 1) -> Nat]
    /\ IsFiniteSet(queued) /\ queued \subseteq 1..lines
    /\ LinesInOrder

lineVars == <<line, lineHead, lineTail, lineCount, lines, queued>>

\* All that a step may do to the queue of lines.
LEMMA LineEffects ==
    ASSUME [Next]_vars
    PROVE  UNCHANGED lineVars \/ Commit \/ (HasLine /\ Popped)
  <1>1. CASE UNCHANGED vars \/ Stopped
    BY <1>1 DEF vars, Stopped, inputVars, lineVars
  <1>2. CASE Arrive
    BY <1>2 DEF Arrive, Tick, KeyboardIrq, ReportIrq, inputVars, lineVars
  <1>3. CASE Handle
    BY <1>3, ZenonT(40) DEF Handle, Character, Echoed, InputEnds, WakeNone, WakeDequeue, WakeServe, inputVars, lineVars
  <1>4. CASE BeginCall
    BY <1>4, Zenon DEF BeginCall, BeginRead, BeginWrite, BeginObserve, inputVars, lineVars
  <1>5. CASE \E c \in CPU : Step(c)
    BY <1>5, ZenonT(40) DEF Step, ReadTry, ReadBlock, WriteLock, WriteByte, WriteByteEnds, WriteReturn,
                ObserveSnapshot, ObserveHeader, ObserveRecord, inputVars, lineVars
  <1> QED BY <1>1, <1>2, <1>3, <1>4, <1>5 DEF Next

\* commit_pending_line keeps the order.
LEMMA CommitStep ==
    ASSUME LinesInv, Commit
    PROVE  LinesInv'
  <1> DEFINE n == LineCapacity
  <1>0. n \in Nat \ {0}
    BY ConsoleAssumption
  <1>1. CASE lineCount = n
    <2>1. UNCHANGED <<line, lineTail, lineCount, queued, lineHead>> /\ lines' = lines + 1
      BY <1>1 DEF Commit
    <2> QED BY <2>1 DEF LinesInv, LinesInOrder
  <1>2. CASE lineCount # n
    <2>1. /\ line' = [line EXCEPT ![lineTail] = lines + 1]
          /\ lineTail' = (lineTail + 1) % n
          /\ lineCount' = lineCount + 1 /\ queued' = queued \cup {lines + 1}
          /\ lines' = lines + 1 /\ lineHead' = lineHead
      BY <1>2 DEF Commit
    <2>2. lineCount \in 0..(n - 1) /\ lineHead \in 0..(n - 1) /\ lines \in Nat
      BY <1>0, <1>2 DEF LinesInv
    <2> DEFINE last1 == lineHead + lineCount
    <2>3. /\ lineTail = Wrapped(last1, n)
          /\ lineTail \in 0..(n - 1)
      <3>1. last1 \in 0..(2 * n - 1) /\ lineTail = last1 % n
        BY <1>0, <2>2 DEF LinesInv
      <3> QED BY <1>0, <3>1, OneRound, Zenon
    <2>4. lineTail' = (lineHead' + lineCount') % n
      <3>1. last1 + 1 \in 0..(2 * n - 1) /\ lineTail + 1 \in 0..(2 * n - 1)
        BY <1>0, <2>2, <2>3
      <3>2. /\ (last1 + 1) % n = Wrapped(last1 + 1, n)
            /\ (lineTail + 1) % n = Wrapped(lineTail + 1, n)
        BY <1>0, <3>1, OneRound, Zenon
      <3>3. (lineTail + 1) % n = (last1 + 1) % n
        BY <1>0, <2>2, <2>3, <3>2 DEF Wrapped
      <3>4. last1 + 1 = lineHead + (lineCount + 1)
        BY <2>2
      <3> QED BY <2>1, <3>3, <3>4, Zenon
    <2>5. line' \in [0..(n - 1) -> Nat]
      BY <2>1, <2>2, <2>3 DEF LinesInv
    <2>6. \A k \in queued : k \in Nat /\ k < lines + 1
      BY <2>2 DEF LinesInv
    <2>7. lines + 1 \notin queued /\ queued' \subseteq 1..lines'
      BY <2>1, <2>2 DEF LinesInv
    <2>8. /\ IsFiniteSet(queued') /\ Cardinality(queued') = lineCount'
      BY <2>1, <2>7, FS_AddElement DEF LinesInv, LinesInOrder
    <2>9. ASSUME NEW i \in 1..lineCount'
          PROVE  LET l == line'[At(i)]
                 IN  l \in queued' /\ Cardinality({k \in queued' : k < l}) = i - 1
      <3>1. lineHead + i - 1 \in 0..(2 * n - 1)
        BY <1>0, <2>1, <2>2
      <3>2. /\ At(i) = Wrapped(lineHead + i - 1, n)
            /\ At(i) \in 0..(n - 1)
        BY <1>0, <3>1, OneRound, Zenon DEF At
      <3>3. CASE i = lineCount + 1
        <4>1. At(i) = lineTail
          BY <2>2, <2>3, <3>2, <3>3 DEF Wrapped
        <4>2. line'[At(i)] = lines + 1
          BY <2>1, <2>3, <4>1 DEF LinesInv
        <4>3. {k \in queued' : k < lines + 1} = queued
          BY <2>1, <2>2, <2>6
        <4>4. Cardinality(queued) = i - 1
          BY <2>2, <3>3 DEF LinesInv, LinesInOrder
        <4>5. lines + 1 \in queued'
          BY <2>1
        <4> QED BY <4>2, <4>3, <4>4, <4>5, Zenon
      <3>4. CASE i \in 1..lineCount
        <4>1. At(i) # lineTail
          BY <1>0, <2>2, <2>3, <3>2, <3>4 DEF Wrapped
        <4> DEFINE l == line[At(i)]
        <4>2. line'[At(i)] = l
          BY <2>1, <3>2, <4>1 DEF LinesInv
        <4>3. l \in queued /\ Cardinality({k \in queued : k < l}) = i - 1
          BY <3>4 DEF LinesInv, LinesInOrder, At
        <4> HIDE DEF l
        <4>4. l \in Nat /\ ~(lines + 1 < l)
          BY <2>2, <2>6, <4>3
        <4>5. {k \in queued' : k < l} = {k \in queued : k < l}
          BY <2>1, <4>4
        <4> QED BY <2>1, <4>2, <4>3, <4>5
      <3> QED BY <2>1, <2>2, <3>3, <3>4
    <2>10. LinesInOrder'
      BY <2>1, <2>8, <2>9 DEF LinesInOrder, At
    <2>11. lineCount' \in 0..n /\ lineHead' \in 0..(n - 1) /\ lines' \in Nat
      BY <1>0, <2>1, <2>2
    <2> QED BY <2>4, <2>5, <2>7, <2>8, <2>10, <2>11, Zenon DEF LinesInv
  <1> QED BY <1>1, <1>2

\* console_input_pop_line takes the oldest line and keeps the order of the others.
LEMMA PoppedStep ==
    ASSUME LinesInv, HasLine, Popped
    PROVE  LinesInv'
  <1> DEFINE n == LineCapacity
             m == line[lineHead]
  <1>0. n \in Nat \ {0}
    BY ConsoleAssumption
  <1>1. /\ line' = [line EXCEPT ![lineHead] = 0] /\ queued' = queued \ {m}
        /\ lineHead' = (lineHead + 1) % n /\ lineCount' = lineCount - 1
        /\ lineTail' = lineTail /\ lines' = lines
    BY DEF Popped
  <1>2. lineCount \in 1..n /\ lineHead \in 0..(n - 1)
    BY <1>0 DEF LinesInv, HasLine
  <1>3. lineHead' = Wrapped(lineHead + 1, n) /\ lineHead' \in 0..(n - 1)
    <2>1. lineHead + 1 \in 0..(2 * n - 1)
      BY <1>0, <1>2
    <2> QED BY <1>0, <1>1, <2>1, OneRound, Zenon
  <1>4. lineTail' = (lineHead' + lineCount') % n
    <2>1. lineHead + lineCount \in 0..(2 * n - 1) /\ lineHead' + lineCount' \in 0..(2 * n - 1)
      BY <1>0, <1>1, <1>2, <1>3
    <2>2. /\ (lineHead + lineCount) % n = Wrapped(lineHead + lineCount, n)
          /\ (lineHead' + lineCount') % n = Wrapped(lineHead' + lineCount', n)
      BY <1>0, <2>1, OneRound, Zenon
    <2>3. Wrapped(lineHead + lineCount, n) = Wrapped(lineHead' + lineCount', n)
      BY <1>0, <1>1, <1>2, <1>3 DEF Wrapped
    <2> QED BY <1>1, <2>2, <2>3, Zenon DEF LinesInv
  <1>5. line' \in [0..(n - 1) -> Nat] /\ queued' \subseteq 1..lines' /\ lines' \in Nat
    BY <1>1, <1>2, Zenon DEF LinesInv
  <1>6. \A k \in queued : k \in Nat
    BY DEF LinesInv
  <1>7. m \in queued /\ Cardinality({k \in queued : k < m}) = 0
    <2>1. 1 \in 1..lineCount
      BY <1>2
    <2>2. lineHead + 1 - 1 = lineHead /\ lineHead \in 0..(2 * n - 1) /\ Wrapped(lineHead, n) = lineHead
      BY <1>0, <1>2 DEF Wrapped
    <2>3. (lineHead + 1 - 1) % n = lineHead
      BY <1>0, <2>2, OneRound, Zenon
    <2>4. 1 - 1 = 0
      OBVIOUS
    <2> QED BY <2>1, <2>3, <2>4, Zenon DEF LinesInv, LinesInOrder
  <1> HIDE DEF m
  <1>8. \A k \in queued : ~(k < m)
    <2> DEFINE before == {k \in queued : k < m}
    <2>1. IsFiniteSet(before)
      BY FS_Subset DEF LinesInv
    <2>2. before = {}
      BY <1>7, <2>1, FS_EmptySet, Zenon
    <2> QED BY <2>2, Zenon
  <1>9. IsFiniteSet(queued') /\ Cardinality(queued') = lineCount'
    BY <1>1, <1>2, <1>7, FS_RemoveElement, Zenon DEF LinesInv, LinesInOrder
  <1>10. ASSUME NEW i \in 1..lineCount'
         PROVE  LET l == line'[(lineHead' + i - 1) % n]
                IN  l \in queued' /\ Cardinality({k \in queued' : k < l}) = i - 1
    <2>1. lineHead' + i - 1 \in 0..(2 * n - 1) /\ lineHead + (i + 1) - 1 \in 0..(2 * n - 1)
      BY <1>0, <1>1, <1>2, <1>3
    <2>2. /\ (lineHead' + i - 1) % n = Wrapped(lineHead' + i - 1, n)
          /\ At(i + 1) = Wrapped(lineHead + (i + 1) - 1, n) /\ At(i + 1) \in 0..(n - 1)
      BY <1>0, <2>1, OneRound, Zenon DEF At
    <2>3. (lineHead' + i - 1) % n = At(i + 1) /\ At(i + 1) # lineHead
      BY <1>0, <1>1, <1>2, <1>3, <2>2 DEF Wrapped
    <2> DEFINE l == line[At(i + 1)]
    <2>4. line'[(lineHead' + i - 1) % n] = l
      BY <1>1, <2>2, <2>3 DEF LinesInv
    <2>5. i + 1 \in 1..lineCount /\ (i + 1) - 1 = i /\ i # 0
      BY <1>1, <1>2
    <2>6. l \in queued /\ Cardinality({k \in queued : k < l}) = i
      BY <2>5, Zenon DEF LinesInv, LinesInOrder, At
    <2> HIDE DEF l
    <2>7. l # m
      BY <1>7, <2>5, <2>6, Zenon
    <2>8. m < l
      BY <1>6, <1>7, <1>8, <2>6, <2>7
    <2> DEFINE before == {k \in queued : k < l}
    <2>9. {k \in queued' : k < l} = before \ {m} /\ m \in before
      BY <1>1, <1>7, <2>8, Zenon
    <2>10. IsFiniteSet(before)
      BY FS_Subset DEF LinesInv
    <2>11. Cardinality(before \ {m}) = i - 1
      <3>1. Cardinality(before \ {m}) = Cardinality(before) - 1
        BY <2>9, <2>10, FS_RemoveElement, Zenon
      <3> QED BY <2>6, <3>1, Zenon
    <2>12. l \in queued'
      BY <1>1, <2>6, <2>7, Zenon
    <2> QED BY <2>4, <2>9, <2>11, <2>12, Zenon
  <1>11. LinesInOrder'
    BY <1>9, <1>10, Zenon DEF LinesInOrder
  <1>12. lineCount' \in 0..n
    BY <1>0, <1>1, <1>2
  <1> QED BY <1>3, <1>4, <1>5, <1>9, <1>11, <1>12, Zenon DEF LinesInv

\* The queue is a ring of exactly the lines that were committed and not taken, oldest
\* first, whatever its capacity and however many CPUs take from it.
THEOREM LinesCorrect == Spec => []LinesInOrder
  <1>1. Init => LinesInv
    <2> SUFFICES ASSUME Init PROVE LinesInv
      OBVIOUS
    <2>1. /\ lineHead = 0 /\ lineTail = 0 /\ lineCount = 0 /\ lines = 0 /\ queued = {}
          /\ line = [i \in 0..(LineCapacity - 1) |-> 0] /\ LineCapacity \in Nat \ {0}
      BY ConsoleAssumption DEF Init
    <2>2. IsFiniteSet(queued) /\ Cardinality(queued) = 0
      BY <2>1, FS_EmptySet
    <2>3. LinesInOrder
      BY <2>1, <2>2 DEF LinesInOrder
    <2>4. (lineHead + lineCount) % LineCapacity = 0
      BY <2>1
    <2> QED BY <2>1, <2>2, <2>3, <2>4 DEF LinesInv
  <1>2. LinesInv /\ [Next]_vars => LinesInv'
    <2> SUFFICES ASSUME LinesInv, [Next]_vars PROVE LinesInv'
      OBVIOUS
    <2>1. CASE UNCHANGED lineVars
      BY <2>1 DEF lineVars, LinesInv, LinesInOrder
    <2> QED BY <2>1, LineEffects, CommitStep, PoppedStep
  <1>3. LinesInv => LinesInOrder
    BY DEF LinesInv
  <1> QED BY <1>1, <1>2, <1>3, PTL DEF Spec

-----------------------------------------------------------------------------
(* The event ring *)

\* The position of the j-th newest record, from 1.
Newest(j) == (ringHead + RingCapacity - j) % RingCapacity

\* Going back from the head, the ring holds the last sequence numbers.
RingInv ==
    /\ ringHead \in 0..(RingCapacity - 1) /\ ringCount \in 0..RingCapacity
    /\ nextSequence \in Nat /\ records \in [0..(RingCapacity - 1) -> Nat]
    /\ \A j \in 1..ringCount : records[Newest(j)] = nextSequence - j

Reading == {"header", "record"}
Op == {"none", "read", "block", "write", "next byte", "byte", "observe"} \cup Reading
Call == [op : Op, t : Thread \cup {None}, left : Nat, got : Seq(Int), upto : Int]

\* While a call reads the static array, the array holds the records up to the one that
\* was the newest, and the call has copied a prefix of them.
ReadingSound(c) ==
    /\ call[c].left + Len(call[c].got) = Len(snapshot)
    /\ \A i \in 1..Len(snapshot) : snapshot[i] = call[c].upto - Len(snapshot) + i
    /\ \A i \in 1..Len(call[c].got) : call[c].got[i] = snapshot[i]

\* Even when another call has replaced the array, what is left to copy is in it, since
\* the ring never shrinks.
CallInv ==
    /\ call \in [CPU -> Call] /\ snapshot \in Seq(Int) /\ Len(snapshot) <= ringCount
    /\ \A c \in CPU :
          IF call[c].op \in Reading
          THEN call[c].left + Len(call[c].got) <= Len(snapshot) /\ (shared \/ ReadingSound(c))
          ELSE call[c].got = <<>>

EventInv == RingInv /\ CallInv

\* KernelEventRing::append keeps the ring's order, also where it overwrites.
LEMMA AppendStep ==
    ASSUME RingInv, Append1
    PROVE  RingInv'
  <1> DEFINE n == RingCapacity
  <1>0. n \in Nat \ {0}
    BY EventRingAssumption
  <1>1. /\ records' = [records EXCEPT ![ringHead] = nextSequence]
        /\ nextSequence' = nextSequence + 1 /\ ringHead' = (ringHead + 1) % n
        /\ ringCount' = IF ringCount < n THEN ringCount + 1 ELSE ringCount
    BY DEF Append1
  <1>2. /\ ringHead \in 0..(n - 1) /\ ringCount \in 0..n /\ nextSequence \in Nat
        /\ records \in [0..(n - 1) -> Nat]
    BY DEF RingInv
  <1>3. ringHead' = Wrapped(ringHead + 1, n) /\ ringHead' \in 0..(n - 1)
    <2>1. ringHead + 1 \in 0..(2 * n - 1)
      BY <1>0, <1>2
    <2> QED BY <1>0, <1>1, <2>1, OneRound, Zenon
  <1>4. ringCount' \in 0..n /\ nextSequence' \in Nat /\ records' \in [0..(n - 1) -> Nat]
    BY <1>0, <1>1, <1>2
  <1>5. ASSUME NEW j \in 1..ringCount'
        PROVE  records'[(ringHead' + n - j) % n] = nextSequence' - j
    <2>1. ringHead' + n - j \in 0..(2 * n - 1) /\ ringHead + n - (j - 1) \in Nat /\ j \in 1..n
      BY <1>0, <1>2, <1>3, <1>4, SMTT(30)
    <2>2. (ringHead' + n - j) % n = Wrapped(ringHead' + n - j, n)
      BY <1>0, <2>1, OneRound, Zenon
    <2>3. CASE j = 1
      <3>1. Wrapped(ringHead' + n - j, n) = ringHead
        BY <1>0, <1>2, <1>3, <2>3 DEF Wrapped
      <3> QED BY <1>1, <1>2, <2>2, <2>3, <3>1
    <2>4. CASE j # 1
      <3>1. ringHead + n - (j - 1) \in 0..(2 * n - 1) /\ j - 1 \in 1..ringCount
        BY <1>0, <1>1, <1>2, <2>1, <2>4
      <3>2. Newest(j - 1) = Wrapped(ringHead + n - (j - 1), n) /\ Newest(j - 1) \in 0..(n - 1)
        BY <1>0, <3>1, OneRound, Zenon DEF Newest
      <3>3. Wrapped(ringHead' + n - j, n) = Newest(j - 1) /\ Newest(j - 1) # ringHead
        BY <1>0, <1>2, <1>3, <2>1, <2>4, <3>2 DEF Wrapped
      <3>4. records'[Newest(j - 1)] = records[Newest(j - 1)]
        BY <1>1, <1>2, <3>2, <3>3
      <3>5. records[Newest(j - 1)] = nextSequence - (j - 1)
        BY <3>1, Zenon DEF RingInv
      <3>6. nextSequence - (j - 1) = nextSequence' - j
        BY <1>1, <1>2, <2>1
      <3> QED BY <2>2, <3>3, <3>4, <3>5, <3>6
    <2> QED BY <2>3, <2>4
  <1> QED BY <1>3, <1>4, <1>5, Zenon DEF RingInv, Newest

\* The snapshot is the ring's records, oldest first and without a gap.
LEMMA CopiedOrder ==
    ASSUME RingInv
    PROVE  /\ Copied \in Seq(Int) /\ Len(Copied) = ringCount
           /\ \A i \in 1..ringCount : Copied[i] = nextSequence - 1 - ringCount + i
  <1> DEFINE n == RingCapacity
  <1>0. n \in Nat \ {0}
    BY EventRingAssumption
  <1>1. /\ ringHead \in 0..(n - 1) /\ ringCount \in 0..n /\ nextSequence \in Nat
        /\ records \in [0..(n - 1) -> Nat]
    BY DEF RingInv
  <1>2. Start = Wrapped(ringHead + n - ringCount, n) /\ Start \in 0..(n - 1)
    <2>1. ringHead + n - ringCount \in 0..(2 * n - 1)
      BY <1>0, <1>1
    <2> QED BY <1>0, <2>1, OneRound, Zenon DEF Start
  <1>3. ASSUME NEW i \in 1..ringCount
        PROVE  records[(Start + i - 1) % n] = nextSequence - 1 - ringCount + i
    <2> DEFINE j == ringCount - i + 1
    <2>1. /\ Start + i - 1 \in 0..(2 * n - 1) /\ j \in 1..ringCount
          /\ ringHead + n - j \in 0..(2 * n - 1)
      BY <1>0, <1>1, <1>2
    <2> HIDE DEF j
    <2>2. /\ (Start + i - 1) % n = Wrapped(Start + i - 1, n)
          /\ Newest(j) = Wrapped(ringHead + n - j, n)
      BY <1>0, <2>1, OneRound, Zenon DEF Newest
    <2>3. Wrapped(Start + i - 1, n) = Wrapped(ringHead + n - j, n)
      BY <1>0, <1>1, <1>2 DEF Wrapped, j
    <2>4. records[Newest(j)] = nextSequence - j
      BY <2>1, Zenon DEF RingInv
    <2>5. nextSequence - j = nextSequence - 1 - ringCount + i
      BY <1>1 DEF j
    <2> QED BY <2>2, <2>3, <2>4, <2>5, Zenon
  <1>4. ringCount \in Nat /\ \A i \in 1..ringCount : nextSequence - 1 - ringCount + i \in Int
    BY <1>1
  <1>5. Copied = [i \in 1..ringCount |-> nextSequence - 1 - ringCount + i]
    BY <1>3, Zenon DEF Copied
  <1> QED BY <1>4, <1>5

\* What one call does when no snapshot is taken: nothing, or something that has no
\* records (before and after reading), or it goes on reading.
CallStep(c) ==
    \/ call'[c] = call[c]
    \/ call'[c].op \notin Reading /\ call'[c].got = <<>>
    \/ call[c].op = "header" /\ call'[c] = [call[c] EXCEPT !.op = "record"]
    \/ call[c].op = "record" /\ call[c].left > 0 /\ call'[c] = WriteRecord(call[c])

\* The fields of a call after one of the assignments to them.
LEMMA OpAssigned ==
    ASSUME NEW x \in Call, NEW o \in Op
    PROVE  /\ [x EXCEPT !.op = o] \in Call /\ [x EXCEPT !.op = o].op = o
           /\ [x EXCEPT !.op = o].left = x.left /\ [x EXCEPT !.op = o].got = x.got
           /\ [x EXCEPT !.op = o].upto = x.upto
  BY DEF Call

LEMMA LeftAssigned ==
    ASSUME NEW x \in Call, NEW o \in Op, NEW n \in Nat
    PROVE  /\ [x EXCEPT !.op = o, !.left = n] \in Call
           /\ [x EXCEPT !.op = o, !.left = n].op = o /\ [x EXCEPT !.op = o, !.left = n].got = x.got
  BY Zenon DEF Call

LEMMA ThreadAssigned ==
    ASSUME NEW x \in Call, NEW o \in Op, NEW t \in Thread
    PROVE  /\ [x EXCEPT !.op = o, !.t = t] \in Call
           /\ [x EXCEPT !.op = o, !.t = t].op = o /\ [x EXCEPT !.op = o, !.t = t].got = x.got
  BY ZenonT(30) DEF Call

LEMMA NoCallFields ==
    NoCall \in Call /\ NoCall.op = "none" /\ NoCall.got = <<>>
  BY DEF NoCall, Call, Op

\* write_observe_record on a call that is reading: the record it copies is in the array.
LEMMA WriteRecordFields ==
    ASSUME CallInv, NEW c \in CPU, call[c].op = "record", call[c].left > 0
    PROVE  LET x == call[c]
               y == WriteRecord(x)
           IN  /\ y \in Call /\ y.op = "record" /\ y.upto = x.upto /\ y.left = x.left - 1
               /\ Len(y.got) = Len(x.got) + 1 /\ Len(y.got) <= Len(snapshot)
               /\ \A i \in 1..Len(x.got) : y.got[i] = x.got[i]
               /\ y.got[Len(x.got) + 1] = snapshot[Len(x.got) + 1]
  <1> DEFINE x == call[c]
             e == snapshot[Len(x.got) + 1]
             y == WriteRecord(x)
  <1>1. x \in Call /\ snapshot \in Seq(Int) /\ x.left + Len(x.got) <= Len(snapshot)
    BY DEF CallInv, Reading
  <1>2. x.left \in Nat /\ x.got \in Seq(Int) /\ Len(x.got) \in Nat /\ x.left - 1 \in Nat
    BY <1>1 DEF Call
  <1>3. Len(x.got) + 1 \in 1..Len(snapshot)
    BY <1>1, <1>2
  <1>4. e \in Int
    BY <1>1, <1>3
  <1> HIDE DEF e
  <1>5. /\ Append(x.got, e) \in Seq(Int) /\ Len(Append(x.got, e)) = Len(x.got) + 1
        /\ \A i \in 1..Len(x.got) : Append(x.got, e)[i] = x.got[i]
        /\ Append(x.got, e)[Len(x.got) + 1] = e
    BY <1>2, <1>4
  <1>6. y = [x EXCEPT !.left = x.left - 1, !.got = Append(x.got, e)]
    BY DEF WriteRecord, e
  <1>7. /\ y \in Call /\ y.op = "record" /\ y.upto = x.upto /\ y.left = x.left - 1
        /\ y.got = Append(x.got, e)
    BY <1>1, <1>2, <1>5, <1>6, ZenonT(30) DEF Call
  <1> QED BY <1>3, <1>5, <1>7 DEF e

\* All that a step may do to the ring.
LEMMA RingEffects ==
    ASSUME [Next]_vars
    PROVE  UNCHANGED <<records, ringHead, ringCount, nextSequence>> \/ Append1
  <1>1. CASE UNCHANGED vars \/ Stopped
    BY <1>1 DEF vars, Stopped, ringVars
  <1>2. CASE Arrive
    BY <1>2 DEF Arrive, Tick, KeyboardIrq, ReportIrq, Record, ringVars
  <1>3. CASE Handle
    BY <1>3, ZenonT(40) DEF Handle, Character, Echoed, InputEnds, WakeNone, WakeDequeue, WakeServe, ringVars
  <1>4. CASE BeginCall
    BY <1>4, Zenon DEF BeginCall, BeginRead, BeginWrite, BeginObserve, ringVars
  <1>5. CASE \E c \in CPU : Step(c)
    BY <1>5 DEF Step, ReadTry, ReadBlock, WriteLock, WriteByte, WriteByteEnds, WriteReturn,
                ObserveSnapshot, ObserveHeader, ObserveRecord, TakeSnapshot, ringVars
  <1> QED BY <1>1, <1>2, <1>3, <1>4, <1>5 DEF Next

\* What a CPU's call becomes, for the other CPUs and for itself.
LEMMA CallAssigned ==
    ASSUME CallInv, NEW c \in CPU, NEW y \in Call, call' = [call EXCEPT ![c] = y],
           \/ y.op \notin Reading /\ y.got = <<>>
           \/ call[c].op = "header" /\ y = [call[c] EXCEPT !.op = "record"]
           \/ call[c].op = "record" /\ call[c].left > 0 /\ y = WriteRecord(call[c])
    PROVE  call' \in [CPU -> Call] /\ \A d \in CPU : CallStep(d)
  <1>1. call \in [CPU -> Call]
    BY DEF CallInv
  <1>2. call' \in [CPU -> Call] /\ call'[c] = y /\ \A d \in CPU \ {c} : call'[d] = call[d]
    BY <1>1
  <1> QED BY <1>2, Zenon DEF CallStep

\* All that a step may do to the calls: each goes on by itself, or one takes a snapshot.
LEMMA CallEffects ==
    ASSUME CallInv, [Next]_vars
    PROVE  \/ UNCHANGED <<snapshot, shared>> /\ call' \in [CPU -> Call] /\ \A d \in CPU : CallStep(d)
           \/ \E c \in CPU : ObserveSnapshot(c)
  <1>0. call \in [CPU -> Call]
    BY DEF CallInv
  <1>1. CASE UNCHANGED <<snapshot, shared, call>>
    BY <1>0, <1>1 DEF CallStep
  <1>2. ASSUME UNCHANGED vars \/ Stopped \/ Arrive \/ Handle
        PROVE  UNCHANGED <<snapshot, shared, call>>
    <2>1. CASE UNCHANGED vars \/ Stopped
      BY <2>1 DEF vars, Stopped, ringVars, callVars
    <2>2. CASE Arrive
      BY <2>2 DEF Arrive, Tick, KeyboardIrq, ReportIrq, Record, Append1, ringVars, callVars
    <2>3. CASE Handle
      BY <2>3 DEF Handle, Character, Echoed, InputEnds, WakeNone, WakeDequeue, WakeServe, ringVars, callVars
    <2> QED BY <1>2, <2>1, <2>2, <2>3
  <1>3. ASSUME NEW c \in CPU, Return(c), UNCHANGED <<snapshot, shared>>
        PROVE  call' \in [CPU -> Call] /\ \A d \in CPU : CallStep(d)
    BY <1>3, NoCallFields, CallAssigned, Zenon DEF Return, Reading
  <1>4. ASSUME NEW c \in CPU, NEW o \in Op \ Reading, call[c].op \notin Reading,
               call' = [call EXCEPT ![c].op = o]
        PROVE  call' \in [CPU -> Call] /\ \A d \in CPU : CallStep(d)
    <2> DEFINE y == [call[c] EXCEPT !.op = o]
    <2>1. call' = [call EXCEPT ![c] = y]
      BY <1>0, <1>4
    <2>2. call[c] \in Call /\ call[c].got = <<>>
      BY <1>0, <1>4 DEF CallInv
    <2>3. y \in Call /\ y.op = o /\ y.got = <<>>
      BY <2>2, OpAssigned, ZenonT(40)
    <2> HIDE DEF y
    <2> QED BY <2>1, <2>3, CallAssigned, Zenon
  <1>5. CASE BeginCall
    <2> DEFINE Begun(x) == \/ \E t \in Thread : x = [NoCall EXCEPT !.op = "read", !.t = t]
                           \/ \E n \in 1..MaxBytes : x = [NoCall EXCEPT !.op = "write", !.left = n]
                           \/ x = [NoCall EXCEPT !.op = "observe"]
    <2>0. PICK c \in CPU : \E x : call' = [call EXCEPT ![c] = x] /\ Begun(x)
      BY <1>5, ZenonT(40) DEF BeginCall, BeginRead, BeginWrite, BeginObserve, Begin
    <2>1. PICK x : call' = [call EXCEPT ![c] = x] /\ Begun(x)
      BY <2>0, Zenon
    <2>2. \A n \in 1..MaxBytes : n \in Nat
      BY ConsoleAssumption
    <2>3. "read" \in Op \ Reading /\ "write" \in Op \ Reading /\ "observe" \in Op \ Reading
      BY DEF Op, Reading
    <2>4. x \in Call /\ x.op \notin Reading /\ x.got = <<>>
      <3>1. CASE \E t \in Thread : x = [NoCall EXCEPT !.op = "read", !.t = t]
        <4>1. PICK t \in Thread : x = [NoCall EXCEPT !.op = "read", !.t = t]
          BY <3>1, Zenon
        <4>2. x \in Call /\ x.op = "read" /\ x.got = NoCall.got
          BY <2>3, <4>1, NoCallFields, ThreadAssigned, ZenonT(40)
        <4> QED BY <2>3, <4>2, NoCallFields, ZenonT(40)
      <3>2. CASE \E n \in 1..MaxBytes : x = [NoCall EXCEPT !.op = "write", !.left = n]
        <4>1. PICK n \in 1..MaxBytes : x = [NoCall EXCEPT !.op = "write", !.left = n]
          BY <3>2, Zenon
        <4>2. x \in Call /\ x.op = "write" /\ x.got = NoCall.got
          BY <2>2, <2>3, <4>1, NoCallFields, LeftAssigned, ZenonT(40)
        <4> QED BY <2>3, <4>2, NoCallFields, Zenon
      <3>3. CASE x = [NoCall EXCEPT !.op = "observe"]
        BY <2>3, <3>3, NoCallFields, OpAssigned, Zenon
      <3> QED BY <2>1, <3>1, <3>2, <3>3, Zenon
    <2>5. UNCHANGED <<snapshot, shared>>
      BY <1>5, Zenon DEF BeginCall, BeginRead, BeginWrite, BeginObserve, ringVars
    <2> QED BY <2>1, <2>4, <2>5, CallAssigned, Zenon
  <1>6. ASSUME NEW c \in CPU, ReadTry(c) \/ ReadBlock(c) \/ WriteLock(c) \/ WriteByteEnds(c) \/ WriteReturn(c)
        PROVE  UNCHANGED <<snapshot, shared>> /\ call' \in [CPU -> Call] /\ \A d \in CPU : CallStep(d)
    <2>1. UNCHANGED <<snapshot, shared>>
      BY <1>6 DEF ReadTry, ReadBlock, WriteLock, WriteByteEnds, WriteReturn, ringVars
    <2>2. \/ Return(c)
          \/ /\ call[c].op \in {"read", "write", "byte"}
             /\ \E o \in {"block", "next byte"} : call' = [call EXCEPT ![c].op = o]
      BY <1>6, Zenon DEF ReadTry, ReadBlock, WriteLock, WriteByteEnds, WriteReturn
    <2>3. {"read", "write", "byte", "block", "next byte"} \subseteq Op \ Reading
      BY DEF Op, Reading
    <2> QED BY <1>3, <1>4, <2>1, <2>2, <2>3, Zenon
  <1>7. ASSUME NEW c \in CPU, WriteByte(c)
        PROVE  UNCHANGED <<snapshot, shared>> /\ call' \in [CPU -> Call] /\ \A d \in CPU : CallStep(d)
    <2> DEFINE x == call[c]
               n == x.left - 1
               y == [x EXCEPT !.op = "byte", !.left = n]
    <2>1. UNCHANGED <<snapshot, shared>> /\ call[c].op = "next byte" /\ call[c].left > 0
      BY <1>7 DEF WriteByte, ringVars
    <2>2. call[c] \in Call /\ call[c].got = <<>>
      BY <1>0, <2>1 DEF CallInv, Reading
    <2>3. call[c].left - 1 \in Nat
      <3>1. call[c] \in Call /\ call[c].left > 0
        BY <2>1, <2>2
      <3> QED BY <3>1 DEF Call
    <2>0. "byte" \in Op \ Reading
      BY DEF Op, Reading
    <2>4. call' = [call EXCEPT ![c] = y]
      BY <1>0, <1>7, <2>2 DEF WriteByte, Call
    <2>5. y \in Call /\ y.op \notin Reading /\ y.got = <<>>
      <3>1. x \in Call /\ n \in Nat /\ x.got = <<>> /\ "byte" \in Op
        BY <2>0, <2>2, <2>3, SMTT(30)
      <3> HIDE DEF x, n
      <3>2. y \in Call /\ y.op = "byte" /\ y.got = x.got
        BY <3>1, LeftAssigned, ZenonT(40)
      <3> QED BY <2>0, <3>1, <3>2, Zenon
    <2> HIDE DEF y
    <2> QED BY <2>1, <2>4, <2>5, CallAssigned
  <1>8. ASSUME NEW c \in CPU, ObserveHeader(c) \/ ObserveRecord(c)
        PROVE  UNCHANGED <<snapshot, shared>> /\ call' \in [CPU -> Call] /\ \A d \in CPU : CallStep(d)
    <2>1. UNCHANGED <<snapshot, shared>>
      BY <1>8 DEF ObserveHeader, ObserveRecord, ringVars
    <2>2. CASE Return(c)
      BY <1>3, <2>1, <2>2
    <2>3. CASE call[c].op = "header" /\ call' = [call EXCEPT ![c].op = "record"]
      <3> DEFINE y == [call[c] EXCEPT !.op = "record"]
      <3>1. call' = [call EXCEPT ![c] = y]
        BY <1>0, <2>3
      <3>2. y \in Call
        BY <1>0, OpAssigned DEF Op, Reading
      <3> HIDE DEF y
      <3>3. y = [call[c] EXCEPT !.op = "record"]
        BY DEF y
      <3> QED BY <2>1, <2>3, <3>1, <3>2, <3>3, CallAssigned, Zenon
    <2>4. CASE /\ call[c].op = "record" /\ call[c].left > 0
               /\ call' = [call EXCEPT ![c] = WriteRecord(call[c])]
      BY <2>1, <2>4, WriteRecordFields, CallAssigned, Zenon
    <2> QED BY <1>8, <2>2, <2>3, <2>4, Zenon DEF ObserveHeader, ObserveRecord
  <1> QED BY <1>1, <1>2, <1>5, <1>6, <1>7, <1>8, Zenon DEF Next, Step

\* A step without a snapshot keeps what is known of the calls.
LEMMA CallsGoOn ==
    ASSUME CallInv, UNCHANGED <<snapshot, shared>>, call' \in [CPU -> Call],
           \A d \in CPU : CallStep(d), ringCount \in Nat, ringCount' \in Nat, ringCount <= ringCount'
    PROVE  CallInv'
  <1>1. /\ snapshot \in Seq(Int) /\ Len(snapshot) \in Nat /\ Len(snapshot) <= ringCount
        /\ call \in [CPU -> Call]
    BY DEF CallInv
  <1>2. snapshot' \in Seq(Int) /\ Len(snapshot') <= ringCount'
    BY <1>1
  <1>3. ASSUME NEW c \in CPU
        PROVE  IF call'[c].op \in Reading
               THEN /\ call'[c].left + Len(call'[c].got) <= Len(snapshot)
                    /\ shared \/ ReadingSound(c)'
               ELSE call'[c].got = <<>>
    <2>1. CASE call'[c] = call[c]
      BY <2>1, Zenon DEF CallInv, ReadingSound
    <2>2. CASE call'[c].op \notin Reading /\ call'[c].got = <<>>
      BY <2>2, Zenon
    <2>3. CASE call[c].op = "header" /\ call'[c] = [call[c] EXCEPT !.op = "record"]
      <3>1. call[c] \in Call /\ "record" \in Op /\ call[c].op \in Reading /\ "record" \in Reading
        BY <1>1, <2>3 DEF Op, Reading
      <3> DEFINE x == call[c]
                 y == call'[c]
      <3>2. x \in Call /\ y = [x EXCEPT !.op = "record"]
        BY <2>3, <3>1
      <3> HIDE DEF x, y
      <3>3. y.op = "record" /\ y.left = x.left /\ y.got = x.got /\ y.upto = x.upto
        BY <3>1, <3>2, OpAssigned
      <3> QED BY <3>1, <3>3, Zenon DEF CallInv, ReadingSound, x, y
    <2>4. CASE call[c].op = "record" /\ call[c].left > 0 /\ call'[c] = WriteRecord(call[c])
      <3> DEFINE x == call[c]
                 y == call'[c]
      <3>1. /\ y \in Call /\ y.op = "record" /\ y.upto = x.upto /\ y.left = x.left - 1
            /\ Len(y.got) = Len(x.got) + 1 /\ Len(y.got) <= Len(snapshot)
            /\ \A i \in 1..Len(x.got) : y.got[i] = x.got[i]
            /\ y.got[Len(x.got) + 1] = snapshot[Len(x.got) + 1]
        BY <2>4, WriteRecordFields, Zenon
      <3>2. x \in Call /\ "record" \in Reading
        BY <1>1 DEF Reading
      <3>3. x.left \in Nat /\ x.got \in Seq(Int) /\ Len(x.got) \in Nat
        BY <3>2 DEF Call
      <3>4. x.left + Len(x.got) <= Len(snapshot) /\ (shared \/ ReadingSound(c))
        BY <2>4, <3>2, Zenon DEF CallInv
      <3>5. y.left + Len(y.got) = x.left + Len(x.got)
        <4>1. \A a, b \in Nat : (a - 1) + (b + 1) = a + b
          OBVIOUS
        <4> QED BY <3>1, <3>3, <4>1, Zenon
      <3>6. ASSUME ReadingSound(c) PROVE ReadingSound(c)'
        <4>1. /\ x.left + Len(x.got) = Len(snapshot)
              /\ \A i \in 1..Len(snapshot) : snapshot[i] = x.upto - Len(snapshot) + i
              /\ \A i \in 1..Len(x.got) : x.got[i] = snapshot[i]
          BY <3>6, Zenon DEF ReadingSound
        <4>2. \A i \in 1..Len(y.got) : y.got[i] = snapshot[i]
          <5>1. \A i \in 1..(Len(x.got) + 1) : i \in 1..Len(x.got) \/ i = Len(x.got) + 1
            BY <3>3
          <5> QED BY <3>1, <4>1, <5>1, Zenon
        <4> QED BY <3>1, <3>5, <4>1, <4>2, Zenon DEF ReadingSound
      <3> QED BY <3>1, <3>2, <3>4, <3>5, <3>6, Zenon
    <2> QED BY <2>1, <2>2, <2>3, <2>4, Zenon DEF CallStep
  <1> QED BY <1>2, <1>3, Zenon DEF CallInv

\* A snapshot: the caller may read the whole array, and another call that reads it is
\* marked as sharing it.
LEMMA SnapshotStep ==
    ASSUME EventInv, NEW c \in CPU, ObserveSnapshot(c)
    PROVE  CallInv'
  <1> DEFINE x == call[c]
             y == [x EXCEPT !.op = "header", !.left = ringCount, !.upto = nextSequence - 1]
  <1>1. /\ ringCount \in Nat /\ nextSequence - 1 \in Int /\ x \in Call /\ call \in [CPU -> Call]
        /\ "header" \in Op /\ "header" \in Reading
    BY EventRingAssumption DEF EventInv, RingInv, CallInv, Op, Reading
  <1>2. x.op = "observe" /\ x.got = <<>>
    BY DEF ObserveSnapshot, EventInv, CallInv, Reading
  <1>3. y \in Call /\ y.op = "header" /\ y.left = ringCount /\ y.got = x.got /\ y.upto = nextSequence - 1
    <2> DEFINE u == nextSequence - 1
    <2>1. x \in Call /\ u \in Int /\ ringCount \in Nat /\ "header" \in Op
      BY <1>1
    <2>2. y = [x EXCEPT !.op = "header", !.left = ringCount, !.upto = u]
      OBVIOUS
    <2> HIDE DEF x, u, y
    <2>3. y \in Call /\ y.op = "header" /\ y.left = ringCount /\ y.got = x.got /\ y.upto = u
      BY <2>1, <2>2, Zenon DEF Call
    <2> QED BY <2>3 DEF u
  <1>4. call' = [call EXCEPT ![c] = y]
    BY <1>1, Zenon DEF ObserveSnapshot
  <1> HIDE DEF y
  <1>5. call' \in [CPU -> Call] /\ call'[c] = y /\ \A d \in CPU \ {c} : call'[d] = call[d]
    BY <1>1, <1>3, <1>4
  <1>6. snapshot' = Copied /\ ringCount' = ringCount
    BY DEF ObserveSnapshot, TakeSnapshot
  <1>7. /\ snapshot' \in Seq(Int) /\ Len(snapshot') = ringCount
        /\ \A i \in 1..ringCount : snapshot'[i] = nextSequence - 1 - ringCount + i
    BY <1>6, CopiedOrder, Zenon DEF EventInv
  <1>8. Len(y.got) = 0 /\ y.left + Len(y.got) = Len(snapshot')
    BY <1>1, <1>2, <1>3, <1>7
  <1>9. ReadingSound(c)'
    <2>1. \A i \in 1..Len(y.got) : FALSE
      BY <1>8
    <2> QED BY <1>3, <1>5, <1>7, <1>8, <2>1, Zenon DEF ReadingSound
  <1>10. ASSUME NEW d \in CPU \ {c}
         PROVE  IF call'[d].op \in Reading
                THEN call'[d].left + Len(call'[d].got) <= Len(snapshot') /\ shared'
                ELSE call'[d].got = <<>>
    <2>1. CASE call[d].op \in Reading
      <3>1. shared'
        BY <2>1, Zenon DEF ObserveSnapshot, Reading
      <3>2. call[d].left + Len(call[d].got) <= Len(snapshot) /\ Len(snapshot) <= ringCount
        BY <2>1, Zenon DEF EventInv, CallInv
      <3>3. call[d] \in Call /\ snapshot \in Seq(Int)
        BY DEF EventInv, CallInv
      <3>4. call[d].left + Len(call[d].got) \in Nat /\ Len(snapshot) \in Nat
        BY <3>3 DEF Call
      <3>5. call[d].left + Len(call[d].got) <= ringCount
        BY <1>1, <3>2, <3>4
      <3> QED BY <1>5, <1>7, <2>1, <3>1, <3>5, Zenon
    <2>2. CASE call[d].op \notin Reading
      BY <1>5, <2>2, Zenon DEF EventInv, CallInv
    <2> QED BY <2>1, <2>2
  <1>11. Len(snapshot') <= ringCount' /\ y.left + Len(y.got) <= Len(snapshot')
    BY <1>1, <1>6, <1>7, <1>8
  <1> QED BY <1>1, <1>3, <1>5, <1>7, <1>9, <1>10, <1>11, Zenon DEF CallInv

\* Records reach a caller without gap and in order, the newest last, whatever is recorded
\* meanwhile and whatever the ring's capacity, as long as no two calls use the array.
THEOREM EventsCorrect == Spec => []EventsConsecutive
  <1>1. Init => EventInv
    <2> SUFFICES ASSUME Init PROVE EventInv
      OBVIOUS
    <2>1. RingInv
      BY EventRingAssumption DEF Init, RingInit, RingInv
    <2>2. call = [c \in CPU |-> NoCall] /\ snapshot = <<>> /\ ringCount = 0
      BY DEF Init, RingInit
    <2>3. snapshot \in Seq(Int) /\ Len(snapshot) <= ringCount
      BY <2>2
    <2>4. NoCall.op \notin Reading
      BY NoCallFields DEF Reading
    <2> QED BY <2>1, <2>2, <2>3, <2>4, NoCallFields, Zenon DEF EventInv, CallInv
  <1>2. EventInv /\ [Next]_vars => EventInv'
    <2> SUFFICES ASSUME EventInv, [Next]_vars PROVE EventInv'
      OBVIOUS
    <2>1. RingInv'
      <3>1. CASE UNCHANGED <<records, ringHead, ringCount, nextSequence>>
        BY <3>1 DEF EventInv, RingInv, Newest
      <3> QED BY <3>1, RingEffects, AppendStep DEF EventInv
    <2>2. ringCount \in Nat /\ ringCount' \in Nat /\ ringCount <= ringCount'
      <3>1. ringCount \in Nat
        BY EventRingAssumption DEF EventInv, RingInv
      <3> QED BY <3>1, RingEffects DEF Append1
    <2>3. CallInv'
      BY <2>2, CallEffects, CallsGoOn, SnapshotStep, Zenon DEF EventInv
    <2> QED BY <2>1, <2>3 DEF EventInv
  <1>3. EventInv => EventsConsecutive
    <2> SUFFICES ASSUME EventInv, ~shared, NEW c \in CPU, NEW i \in DOMAIN call[c].got
                 PROVE  call[c].got[i] = call[c].upto - call[c].left - Len(call[c].got) + i
      BY DEF EventsConsecutive
    <2> DEFINE x == call[c]
    <2>1. x \in Call /\ snapshot \in Seq(Int)
      BY DEF EventInv, CallInv
    <2>2. /\ x.got \in Seq(Int) /\ x.left \in Nat /\ x.upto \in Int /\ Len(x.got) \in Nat
          /\ i \in 1..Len(x.got) /\ Len(snapshot) \in Nat
      BY <2>1 DEF Call
    <2>3. x.op \in Reading
      BY <2>2 DEF EventInv, CallInv
    <2>4. ReadingSound(c)
      BY <2>3, Zenon DEF EventInv, CallInv
    <2>5. /\ x.left + Len(x.got) = Len(snapshot) /\ i \in 1..Len(snapshot)
          /\ x.got[i] = x.upto - Len(snapshot) + i
      BY <2>2, <2>4, SMTT(30) DEF ReadingSound
    <2> DEFINE l == x.left
               g == Len(x.got)
               n == Len(snapshot)
               u == x.upto
    <2>6. l \in Int /\ g \in Int /\ n \in Int /\ u \in Int /\ i \in Int /\ l + g = n
      BY <2>2, <2>5
    <2>7. x.got[i] = u - n + i
      BY <2>5
    <2> HIDE DEF l, g, n, u
    <2>8. u - n + i = u - l - g + i
      BY <2>6
    <2> QED BY <2>7, <2>8, Zenon DEF l, g, u
  <1> QED BY <1>1, <1>2, <1>3, PTL DEF Spec

=============================================================================
