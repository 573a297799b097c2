----------------------------- MODULE PageFrames -----------------------------
(***************************************************************************)
(* What the physical page allocator (mm/page_frame.cpp, class              *)
(* PageFrameContainer) promises: the set of free pages, the advertised     *)
(* number of them, and what each call does to both.  The bitmap, its words *)
(* and the scanning loops are in PageBitmap, which implements this module. *)
(*                                                                         *)
(* Every call runs under g_page_frames_lock with interrupts masked, so one *)
(* call is one step.  `held' and `pinned' are history variables: the pages *)
(* some caller got from allocate() and has not freed, and the pages that   *)
(* initialize() and reserve_range() took out of circulation.               *)
(***************************************************************************)
EXTENDS Integers, Sequences, FiniteSets

CONSTANTS
    PageSize,       \* kPageSize, in the model's address units
    MaxPages,       \* bitmap_limit_ * 64: pages the fixed bitmap can track
    BootMaps,       \* the memory maps the boot loader may hand over
    BootReserved,   \* pages of the bitmap, low data and kernel image ranges
    RunLengths,     \* the `count' arguments of allocate(address, count)
    Addresses,      \* the addresses given to free() and reserve_range()
    Lengths         \* the lengths given to reserve_range()

Region == [start : Nat, length : Nat, usable : BOOLEAN]

ASSUME PageFramesAssumption ==
    /\ PageSize \in Nat \ {0}
    /\ MaxPages \in Nat
    /\ \A m \in BootMaps : m \in Seq(Region)
    /\ BootReserved \subseteq Nat
    /\ RunLengths \subseteq Nat
    /\ Addresses \subseteq Nat
    /\ Lengths \subseteq Nat

VARIABLES
    bootMap,        \* the memory map the boot loader handed over
    initialized,    \* initialized_
    pageCount,      \* page_count_
    free,           \* the pages whose bitmap bit is 1
    freeCount,      \* free_page_count_
    held,
    pinned

vars == <<bootMap, initialized, pageCount, free, freeCount, held, pinned>>

-----------------------------------------------------------------------------
AlignUpPage(a) == (a + PageSize - 1) \div PageSize
AlignDownPage(a) == a \div PageSize

\* The whole, trackable pages of a boot region.
RegionPages(r) ==
    {p \in 0..(MaxPages - 1) :
        /\ r.usable
        /\ AlignUpPage(r.start) <= p
        /\ p < AlignDownPage(r.start + r.length)}

UsablePages(m) == UNION {RegionPages(m[i]) : i \in 1..Len(m)}

\* Pages that start a run of n free pages.
RunStarts(n) == {s \in 0..(pageCount - 1) : s..(s + n - 1) \subseteq free}

IsLeast(x, S) == x \in S /\ \A y \in S : x <= y

Init ==
    /\ bootMap \in BootMaps
    /\ initialized = FALSE
    /\ pageCount = 0
    /\ free = {}
    /\ freeCount = 0
    /\ held = {}
    /\ pinned = {}

\* initialize(): fails and changes nothing here when the map has no usable page.
Initialize ==
    /\ ~initialized
    /\ \E last \in UsablePages(bootMap) :
          /\ \A p \in UsablePages(bootMap) : p <= last
          /\ pageCount' = last + 1
    /\ initialized' = TRUE
    /\ free' = UsablePages(bootMap) \ BootReserved
    /\ freeCount' = Cardinality(free')
    /\ pinned' = BootReserved
    /\ UNCHANGED <<bootMap, held>>

\* allocate(address): the lowest free page.
Allocate ==
    /\ initialized
    /\ \E p \in free :
          /\ IsLeast(p, free)
          /\ free' = free \ {p}
          /\ held' = held \cup {p}
    /\ freeCount' = IF freeCount > 0 THEN freeCount - 1 ELSE freeCount
    /\ UNCHANGED <<bootMap, initialized, pageCount, pinned>>

\* allocate(address, count): the lowest run of count free pages.
AllocateRun(n) ==
    /\ initialized
    /\ n > 0
    /\ \E s \in RunStarts(n) :
          /\ IsLeast(s, RunStarts(n))
          /\ free' = free \ (s..(s + n - 1))
          /\ held' = held \cup (s..(s + n - 1))
    /\ freeCount' = IF freeCount >= n THEN freeCount - n ELSE freeCount
    /\ UNCHANGED <<bootMap, initialized, pageCount, pinned>>

\* free(address): an unaligned, untracked or already free address is refused
\* and changes nothing.  A caller frees a page it holds.
Free(a) ==
    LET p == a \div PageSize IN
    /\ initialized
    /\ a % PageSize = 0
    /\ p < pageCount
    /\ p \notin free
    /\ p \in held
    /\ free' = free \cup {p}
    /\ held' = held \ {p}
    /\ freeCount' = freeCount + 1
    /\ UNCHANGED <<bootMap, initialized, pageCount, pinned>>

\* reserve_range(): the tracked pages of the range become busy; a range that
\* leaves the tracked pages is reserved up to there before the call fails.
\* kernel_main reserves the modules and the framebuffer before it allocates.
ReserveRange(a, len) ==
    LET pages == {p \in 0..(pageCount - 1) :
                    /\ a \div PageSize <= p
                    /\ p < AlignUpPage(a + len)}
    IN
    /\ initialized
    /\ len > 0
    /\ held = {}
    /\ free' = free \ pages
    /\ freeCount' = freeCount - Cardinality(free \cap pages)
    /\ pinned' = pinned \cup pages
    /\ UNCHANGED <<bootMap, initialized, pageCount, held>>

Next ==
    \/ Initialize
    \/ Allocate
    \/ \E n \in RunLengths : AllocateRun(n)
    \/ \E a \in Addresses : Free(a)
    \/ \E a \in Addresses, len \in Lengths : ReserveRange(a, len)

Spec == Init /\ [][Next]_vars

-----------------------------------------------------------------------------
\* The allocator's sets and counter have their types.
TypeOK ==
    /\ bootMap \in BootMaps
    /\ initialized \in BOOLEAN
    /\ pageCount \in Nat
    /\ free \subseteq 0..(pageCount - 1)
    /\ freeCount \in Nat
    /\ held \subseteq 0..(pageCount - 1)
    /\ pinned \subseteq Nat

\* free_page_count() is the number of pages that can be allocated, whatever
\* the order of allocations, runs, frees, refused frees and reservations: the
\* guards `if(free_page_count_ > 0)' and `>= count' never hide a drift.
FreeCountExact == freeCount = Cardinality(free)

\* A page is never given to two callers and a reserved page is never given to
\* any: free, held and pinned pages stay apart.
OwnersApart ==
    /\ free \cap held = {}
    /\ pinned \cap (free \cup held) = {}

=============================================================================
