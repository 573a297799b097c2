----------------------------- MODULE PageBitmap -----------------------------
(***************************************************************************)
(* The bitmap page allocator of mm/page_frame.cpp as it is coded: pages    *)
(* are bits of words, initialize() clips, paints and counts word by word,  *)
(* allocate() looks for a non-zero word and allocate(count) scans for a    *)
(* run.  A word is the set of its 1 bits.  Each call holds                 *)
(* g_page_frames_lock with interrupts masked, so it is one step.           *)
(***************************************************************************)
EXTENDS Integers, Sequences, FiniteSets

CONSTANTS
    PageSize,       \* kPageSize, in address units
    WordBits,       \* 64: bits of a bitmap word
    BitmapLimit,    \* bitmap_limit_, in words
    BootMaps, BootReserved, RunLengths, Addresses, Lengths

Region == [start : Nat, length : Nat, usable : BOOLEAN]

ASSUME PageBitmapAssumption ==
    /\ PageSize \in Nat \ {0}
    /\ WordBits \in Nat \ {0}
    /\ BitmapLimit \in Nat \ {0}
    /\ \A m \in BootMaps : m \in Seq(Region)
    /\ BootReserved \subseteq Nat
    /\ RunLengths \subseteq Nat
    /\ Addresses \subseteq Nat
    /\ Lengths \subseteq Nat

VARIABLES
    initialized, memoryEnd, pageCount, bitmap, bitmapSize, freeCount,
    held, pinned,   \* history: pages callers hold, pages out of circulation
    bootMap,        \* the memory map the boot loader handed over
    refused         \* history: the page count the last call could not find, or 0

vars == <<initialized, memoryEnd, pageCount, bitmap, bitmapSize, freeCount,
          held, pinned, bootMap, refused>>

Bits == 0..(WordBits - 1)

-----------------------------------------------------------------------------
\* is_free, set_free, set_busy
IsFree(b, p) == (p % WordBits) \in b[p \div WordBits]
SetFree(b, p) == [b EXCEPT ![p \div WordBits] = @ \cup {p % WordBits}]
SetBusy(b, p) == [b EXCEPT ![p \div WordBits] = @ \ {p % WordBits}]

FreePages == {p \in 0..(bitmapSize * WordBits - 1) : IsFree(bitmap, p)}

\* Mutation: regions start at the page that holds their first byte.
AlignUpRoundsDown(a) == (a \div PageSize) * PageSize
AlignUpPage(a) == ((a + PageSize - 1) \div PageSize) * PageSize
AlignDownPage(a) == (a \div PageSize) * PageSize

LesserOf(a, b) == IF a < b THEN a ELSE b
GreaterOf(a, b) == IF a > b THEN a ELSE b

\* First pass over the map: total usable bytes and the highest usable address,
\* both of the aligned and trackable part of each region.
SurveyRegion(acc, r) ==
    LET first == AlignUpPage(r.start)
        end == LesserOf(AlignDownPage(r.start + r.length),
                        BitmapLimit * WordBits * PageSize)
    IN  IF ~r.usable \/ end <= first
        THEN acc
        ELSE [size |-> acc.size + (end - first), end |-> GreaterOf(acc.end, end)]

Survey(m) ==
    LET pass[i \in 0..Len(m)] ==
            IF i = 0 THEN [size |-> 0, end |-> 0] ELSE SurveyRegion(pass[i - 1], m[i])
    IN  pass[Len(m)]

\* Set the bits of the pages startPage .. endPage-1: one word, or a first
\* partial word, whole words and a last word.
Paint(b, startPage, endPage) ==
    LET ifirst == startPage \div WordBits
        ilast == (endPage - 1) \div WordBits
        lastBits == endPage % WordBits
    IN  [w \in DOMAIN b |->
          CASE w = ifirst /\ w = ilast ->
                 b[w] \cup (startPage % WordBits)..((endPage - 1) % WordBits)
            [] w = ifirst /\ w # ilast ->
                 b[w] \cup (startPage % WordBits)..(WordBits - 1)
            [] ifirst < w /\ w < ilast -> Bits
            [] w = ilast /\ w # ifirst ->
                 b[w] \cup (IF lastBits = 0 THEN Bits ELSE 0..(lastBits - 1))
            [] OTHER -> b[w]]

\* Second pass: paint every usable region, clipped to the memory end.
PaintRegion(b, r, end) ==
    LET first == AlignUpPage(r.start) \div PageSize
        last == LesserOf(AlignDownPage(r.start + r.length), end) \div PageSize
    IN  IF ~r.usable \/ last <= first THEN b ELSE Paint(b, first, last)

PaintMap(b, m, end) ==
    LET pass[i \in 0..Len(m)] ==
            IF i = 0 THEN b ELSE PaintRegion(pass[i - 1], m[i], end)
    IN  pass[Len(m)]

\* Mutation: `--bit_count' for `bit_count--': the last bit of a word is missed.
CountWordShort(acc, word, pages) ==
    LET taken == LesserOf(WordBits - 1, pages - acc.ipage)
    IN  IF word = {}
        THEN acc
        ELSE [num |-> acc.num + Cardinality({k \in word : k < taken}),
              ipage |-> acc.ipage + taken]

\* Third pass: count bits word by word.  ipage advances only over non-zero
\* words and bounds the bits looked at by page_count_.
CountWord(acc, word, pages) ==
    LET taken == LesserOf(WordBits, pages - acc.ipage)
    IN  IF word = {}
        THEN acc
        ELSE [num |-> acc.num + Cardinality({k \in word : k < taken}),
              ipage |-> acc.ipage + taken]

CountFree(b, size, pages) ==
    LET pass[i \in 0..size] ==
            IF i = 0 THEN [num |-> 0, ipage |-> 0]
                     ELSE CountWord(pass[i - 1], b[i - 1], pages)
    IN  pass[size].num

\* mark_busy_counted over a set of pages: the bitmap and the count after it.
MarkBusyCounted(b, count, pages) ==
    LET hit == {p \in pages : IsFree(b, p)}
    IN  [bitmap |-> [w \in DOMAIN b |->
                        {k \in b[w] : w * WordBits + k \notin hit}],
         count |-> GreaterOf(0, count - Cardinality(hit))]

-----------------------------------------------------------------------------
Init ==
    /\ initialized = FALSE
    /\ memoryEnd = 0
    /\ pageCount = 0
    /\ bitmap = [w \in 0..(BitmapLimit - 1) |-> {}]
    /\ bitmapSize = 0
    /\ freeCount = 0
    /\ held = {}
    /\ pinned = {}
    /\ bootMap \in BootMaps
    /\ refused = 0

Initialize ==
    LET survey == Survey(bootMap)
        pages == survey.end \div PageSize
        size == (pages + WordBits - 1) \div WordBits
        painted == PaintMap([w \in DOMAIN bitmap |->
                                IF w < size THEN {} ELSE bitmap[w]],
                            bootMap, survey.end)
        marked == MarkBusyCounted(painted, CountFree(painted, size, pages),
                                  {p \in BootReserved : p < pages})
    IN
    /\ ~initialized
    /\ memoryEnd' = survey.end
    /\ IF survey.size > 0 /\ survey.end > 0
       THEN /\ pageCount' = pages
            /\ bitmapSize' = size
            /\ IF size <= BitmapLimit
               THEN /\ initialized' = TRUE
                    /\ bitmap' = marked.bitmap
                    /\ freeCount' = marked.count
                    /\ pinned' = BootReserved
               ELSE UNCHANGED <<initialized, bitmap, freeCount, pinned>>
       ELSE UNCHANGED <<initialized, pageCount, bitmap, bitmapSize, freeCount, pinned>>
    /\ refused' = 0
    /\ UNCHANGED <<held, bootMap>>

Allocate ==
    LET words == {w \in 0..(bitmapSize - 1) : bitmap[w] # {}}
        w == CHOOSE x \in words : \A y \in words : x <= y
        k == CHOOSE x \in bitmap[w] : \A y \in bitmap[w] : x <= y
        p == w * WordBits + k
    IN
    /\ initialized
    /\ IF words # {}
       THEN /\ bitmap' = SetBusy(bitmap, p)
            /\ held' = held \cup {p}
            /\ freeCount' = GreaterOf(0, freeCount - 1)
            /\ refused' = 0
       ELSE /\ refused' = 1
            /\ UNCHANGED <<bitmap, held, freeCount>>
    /\ UNCHANGED <<initialized, memoryEnd, pageCount, bitmapSize, pinned, bootMap>>

\* One iteration of the scan of allocate(address, count), at page i.
ScanPage(prev, i, n) ==
    LET start == IF prev.start = pageCount THEN i ELSE prev.start
    IN  IF prev.hit THEN prev
        ELSE IF IsFree(bitmap, i)
             THEN [start |-> start, hit |-> i - start + 1 = n]
             ELSE [start |-> pageCount, hit |-> FALSE]

\* Mutation: the scan ends one page early.
ScanRunShort(n) ==
    LET scan[i \in 0..pageCount] ==
            IF i = 0 THEN [start |-> pageCount, hit |-> FALSE]
                     ELSE ScanPage(scan[i - 1], i - 1, n)
    IN  scan[pageCount - 1]

ScanRun(n) ==
    LET scan[i \in 0..pageCount] ==
            IF i = 0 THEN [start |-> pageCount, hit |-> FALSE]
                     ELSE ScanPage(scan[i - 1], i - 1, n)
    IN  scan[pageCount]

AllocateRun(n) ==
    LET found == ScanRun(n)
        run == found.start..(found.start + n - 1)
    IN
    /\ initialized
    /\ n > 0
    /\ IF found.hit
       THEN /\ bitmap' = [w \in DOMAIN bitmap |->
                            {k \in bitmap[w] : w * WordBits + k \notin run}]
            /\ held' = held \cup run
            /\ freeCount' = IF freeCount >= n THEN freeCount - n ELSE freeCount
            /\ refused' = 0
       ELSE /\ refused' = n
            /\ UNCHANGED <<bitmap, held, freeCount>>
    /\ UNCHANGED <<initialized, memoryEnd, pageCount, bitmapSize, pinned, bootMap>>

\* Mutation: a page that is already free is counted again.
FreeTwice(a) ==
    LET p == a \div PageSize IN
    /\ initialized
    /\ a % PageSize # 0 \/ p >= pageCount \/ p \in held \cup FreePages
    /\ IF a % PageSize = 0 /\ p < pageCount
       THEN /\ bitmap' = SetFree(bitmap, p)
            /\ freeCount' = freeCount + 1
            /\ held' = held \ {p}
       ELSE UNCHANGED <<bitmap, freeCount, held>>
    /\ refused' = 0
    /\ UNCHANGED <<initialized, memoryEnd, pageCount, bitmapSize, pinned, bootMap>>

\* Callers free a page they hold; the other addresses tried here are the ones
\* the function has to refuse.
Free(a) ==
    LET p == a \div PageSize IN
    /\ initialized
    /\ a % PageSize # 0 \/ p >= pageCount \/ p \in held \cup FreePages
    /\ IF a % PageSize = 0 /\ p < pageCount /\ ~IsFree(bitmap, p)
       THEN /\ bitmap' = SetFree(bitmap, p)
            /\ freeCount' = freeCount + 1
            /\ held' = held \ {p}
       ELSE UNCHANGED <<bitmap, freeCount, held>>
    /\ refused' = 0
    /\ UNCHANGED <<initialized, memoryEnd, pageCount, bitmapSize, pinned, bootMap>>

\* reserve_range(), called through reserve_tracked_physical_range() which
\* clamps to the memory end, before kernel_main's first allocation.
ReserveRange(a, len) ==
    LET end == LesserOf(a + len, memoryEnd)
        first == a \div PageSize
        last == (end + PageSize - 1) \div PageSize
        pages == {p \in first..(last - 1) : p < pageCount}
        marked == MarkBusyCounted(bitmap, freeCount, pages)
    IN
    /\ initialized
    /\ held = {}
    /\ len # 0 /\ a < memoryEnd /\ end > a
    /\ bitmap' = marked.bitmap
    /\ freeCount' = marked.count
    /\ pinned' = pinned \cup pages
    /\ refused' = 0
    /\ UNCHANGED <<initialized, memoryEnd, pageCount, bitmapSize, held, bootMap>>

Next ==
    \/ Initialize
    \/ Allocate
    \/ \E n \in RunLengths : AllocateRun(n)
    \/ \E a \in Addresses : Free(a)
    \/ \E a \in Addresses, len \in Lengths : ReserveRange(a, len)

Spec == Init /\ [][Next]_vars

-----------------------------------------------------------------------------
\* The words, counters and page sets have their types.
TypeOK ==
    /\ initialized \in BOOLEAN
    /\ memoryEnd \in Nat /\ pageCount \in Nat /\ freeCount \in Nat
    /\ bitmap \in [0..(BitmapLimit - 1) -> SUBSET Bits]
    /\ bitmapSize \in 0..BitmapLimit
    /\ held \subseteq Nat /\ pinned \subseteq Nat
    /\ refused \in Nat

\* initialize() makes a page available only when every byte of it is in a
\* usable region of the boot map, however the regions are cut; no later call
\* brings in a page of a hole.  (Stated over bytes, not over the alignment
\* arithmetic that initialize() uses.)
PagesAreUsableRam ==
    initialized =>
        \A p \in FreePages \cup held :
            \A a \in (p * PageSize)..((p + 1) * PageSize - 1) :
                \E i \in DOMAIN bootMap :
                    /\ bootMap[i].usable
                    /\ bootMap[i].start <= a
                    /\ a < bootMap[i].start + bootMap[i].length

\* allocate(address, count) gives up only when no run of that many free pages
\* exists, although it looks at each page once and never backs up.
RefusalJustified ==
    refused > 0 =>
        ~\E s \in 0..pageCount : \A p \in s..(s + refused - 1) :
            p < pageCount /\ IsFree(bitmap, p)

Abstract == INSTANCE PageFrames
              WITH MaxPages <- BitmapLimit * WordBits, free <- FreePages

\* The bitmap code implements the page-set contract of PageFrames: painting,
\* counting, first-fit and reserving by words does to the set of free pages
\* and to the advertised count exactly what the contract says.
ImplementsPageFrames == Abstract!Spec
=============================================================================
