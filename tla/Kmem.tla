-------------------------------- MODULE Kmem --------------------------------
(***************************************************************************)
(* The kernel's small-object allocator (mm/kmem.cpp) on top of the page    *)
(* allocator's contract: kmalloc size classes and named caches carve slab  *)
(* pages into objects, larger requests take a run of pages, empty slabs go *)
(* back.  The build without OS1_KMEM_DEBUG is modelled: no redzones, the   *)
(* slot stride is the slot size.                                           *)
(*                                                                         *)
(* A pointer is an address, a page header lives at the start of its page,  *)
(* and a step is one critical section of a cache lock, one call of the     *)
(* page allocator, or one half of an update of g_kmem_global_stats, which  *)
(* no lock protects: `slabPages' is loaded in one step and stored in the   *)
(* next.  Counters nothing reads back (allocations, frees, failures,       *)
(* peaks, growths) are left out.                                           *)
(***************************************************************************)
EXTENDS PageFrames, SequencesExt, BagsExt

CONSTANTS
    CPU, Boot,      \* the CPUs; Boot runs the large and the named-cache calls
    Builtin,        \* g_builtin_caches: the size classes, a sequence of caches
    Named,          \* g_named_cache_slots
    SizeClass,      \* object size of each member of Builtin
    NamedSizes,     \* object sizes passed to kmem_cache_create
    Align,          \* alignment of every cache
    SlabHeader,     \* sizeof(SlabPageHeader)
    LargeHeader,    \* large_payload_offset()
    SizeMod,        \* 2^64: sizes wrap at this value
    Sizes,          \* the sizes passed to kmalloc
    StatBound,      \* how far lost decrements may let slab_page_count drift
    None            \* nullptr

Cache == Range(Builtin) \cup Named

ASSUME KmemAssumption ==
    /\ Boot \in CPU /\ None \notin CPU \cup Cache
    /\ Range(Builtin) \cap Named = {}
    /\ \A i \in 1..(Len(Builtin) - 1) : SizeClass[Builtin[i]] < SizeClass[Builtin[i + 1]]
    /\ SizeMod > MaxPages * PageSize

VARIABLES
    ready,          \* g_kmem_ready
    magic,          \* the magic of each page's header: "none", "slab", "large"
    owner,          \* SlabPageHeader::cache
    objectSize,     \* SlabPageHeader::object_size
    freeList,       \* SlabPageHeader::free_list, as a sequence of addresses
    runPages,       \* LargeAllocationHeader::page_count
    slabs,          \* KmemCache::empty, partial, full: sequences of pages
    slotSize,       \* KmemCache::slot_size
    active,         \* KmemCache::active, the named caches on the registry
    slabCount, liveObjects,     \* of each cache
    slabPages,      \* g_kmem_global_stats.slab_page_count
    largeCount, largeBytes,     \* live_large_allocation_count and _bytes
    lock,           \* who holds a cache's lock across two steps
    pc, reg,        \* where each CPU is, and its registers
    inUse,          \* history: the bag of objects handed out and not freed,
                    \* each with its address and size
    direct          \* history: pages held by callers of the page allocator

headers == <<magic, owner, objectSize, freeList, runPages>>
caches == <<slabs, slotSize, active, slabCount, liveObjects>>
stats == <<slabPages, largeCount, largeBytes>>
cpus == <<lock, pc, reg>>
heapVars == <<ready, headers, caches, stats, cpus, inUse, direct>>
allVars == <<vars, heapVars>>

Page == 0..(MaxPages - 1)
NoReg == [cache |-> None, page |-> 0, left |-> 0, stat |-> 0, ret |-> "idle"]
NoSlabs == [Empty |-> <<>>, Partial |-> <<>>, Full |-> <<>>]

HeapInit ==
    /\ Init
    /\ ready = FALSE
    /\ magic = [p \in Page |-> "none"]
    /\ owner = [p \in Page |-> None]
    /\ objectSize = [p \in Page |-> 0]
    /\ freeList = [p \in Page |-> <<>>]
    /\ runPages = [p \in Page |-> 0]
    /\ slabs = [k \in Cache |-> NoSlabs]
    /\ slotSize = [k \in Cache |-> IF k \in Named THEN 0 ELSE SizeClass[k]]
    /\ active = [k \in Cache |-> k \notin Named]
    /\ slabCount = [k \in Cache |-> 0]
    /\ liveObjects = [k \in Cache |-> 0]
    /\ slabPages = 0 /\ largeCount = 0 /\ largeBytes = 0
    /\ lock = [k \in Cache |-> None]
    /\ pc = [c \in CPU |-> "idle"]
    /\ reg = [c \in CPU |-> NoReg]
    /\ inUse = EmptyBag
    /\ direct = {}

-----------------------------------------------------------------------------
AlignUp(n) == ((n + Align - 1) \div Align) * Align
FirstObject == AlignUp(SlabHeader)

\* initialize_slab_page: how many objects a slab holds.
ObjectCount(slot) == (PageSize - FirstObject) \div slot

SlotAddress(p, slot, i) == p * PageSize + FirstObject + i * slot

\* slot_index_for_pointer: the address is that of an object of the slab.
IsSlot(p, slot, a) ==
    LET delta == a - (p * PageSize + FirstObject)
    IN  delta >= 0 /\ delta % slot = 0 /\ delta \div slot < ObjectCount(slot)

\* select_cache: the first size class that holds the request.
SelectCache(size) ==
    LET fits == {i \in 1..Len(Builtin) : size <= SizeClass[Builtin[i]]}
    IN  IF fits = {} THEN None
        ELSE Builtin[CHOOSE i \in fits : \A j \in fits : i <= j]

\* large_layout_for_size: 0 when the size wraps around.
LargePages(size) ==
    IF size + LargeHeader >= SizeMod \/ size + LargeHeader + PageSize - 1 >= SizeMod
    THEN 0
    ELSE (size + LargeHeader + PageSize - 1) \div PageSize

\* named_cache_parameters_valid
SlotSizeFor(size) == AlignUp(size)
LayoutValid(size) == size > 0 /\ FirstObject < PageSize /\ ObjectCount(SlotSizeFor(size)) > 0

\* detach_slab, attach_slab, move_slab: a slab goes to the head of its new list.
Detach(l, p) == [kind \in DOMAIN l |-> Remove(l[kind], p)]
Attach(l, p, kind) == [l EXCEPT ![kind] = <<p>> \o @]
MoveSlab(l, p, kind) == IF Contains(l[kind], p) THEN l ELSE Attach(Detach(l, p), p, kind)

\* select_slab
Usable(k) == slabs[k].Partial \o slabs[k].Empty

Goto(c, where) == pc' = [pc EXCEPT ![c] = where]

\* kmem_corruption prints what it has found and stops this CPU.
KmemCorruption(c) == Goto(c, "halt")

Unlocked(k) == lock[k] = None

-----------------------------------------------------------------------------
\* kmem_init, once the page allocator is set up.
KmemInit ==
    /\ initialized /\ ~ready
    /\ ready' = TRUE
    /\ UNCHANGED <<vars, headers, caches, stats, cpus, inUse, direct>>

\* Mutation: the object stays on the free list and is handed out again.
AllocateFromSlabNoPop(k, size) ==
    LET p == Head(Usable(k))
        a == Head(freeList[p])
    IN
    /\ UNCHANGED <<freeList, slabs>>
    /\ liveObjects' = [liveObjects EXCEPT ![k] = @ + 1]
    /\ inUse' = BagAdd(inUse, <<a, size>>)

\* allocate_from_slab_locked: pop the free list, then move the slab.
AllocateFromSlab(k, size) ==
    LET p == Head(Usable(k))
        a == Head(freeList[p])
    IN
    /\ freeList' = [freeList EXCEPT ![p] = Tail(@)]
    /\ liveObjects' = [liveObjects EXCEPT ![k] = @ + 1]
    /\ slabs' = [slabs EXCEPT ![k] =
                    MoveSlab(@, p, IF Tail(freeList[p]) = <<>> THEN "Full" ELSE "Partial")]
    /\ inUse' = BagAdd(inUse, <<a, size>>)

\* allocate_from_cache up to the first miss: take an object, or go and grow.
\* With NoGrow or Atomic the miss fails and nothing changes.
Allocate1(c, k, size) ==
    /\ pc[c] = "idle" /\ ready /\ active[k] /\ Unlocked(k)
    /\ IF Usable(k) # <<>>
       THEN /\ AllocateFromSlab(k, size)
            /\ UNCHANGED <<pc, reg>>
       ELSE /\ Goto(c, "grow")
            /\ reg' = [reg EXCEPT ![c] = [NoReg EXCEPT !.cache = k, !.left = size]]
            /\ UNCHANGED <<freeList, liveObjects, slabs, inUse>>
    /\ UNCHANGED <<vars, ready, magic, owner, objectSize, runPages, slotSize, active, slabCount,
                   stats, lock, direct>>

\* kmalloc with a size class, kmem_cache_alloc with a named cache.
Kmalloc(c) ==
    \E size \in Sizes :
        /\ size > 0 /\ SelectCache(size) # None
        /\ Allocate1(c, SelectCache(size), size)

KmemCacheAlloc(c) ==
    \E k \in Named : Allocate1(c, k, slotSize[k])

\* grow_cache without the lock: a page, and its header and free list ...
GrowPage(c) ==
    /\ pc[c] = "grow"
    /\ LET k == reg[c].cache IN
       /\ Allocate
       /\ \E p \in held' \ held :
             /\ magic' = [magic EXCEPT ![p] = "slab"]
             /\ owner' = [owner EXCEPT ![p] = k]
             /\ objectSize' = [objectSize EXCEPT ![p] = slotSize[k]]
             /\ freeList' = [freeList EXCEPT ![p] =
                   [i \in 1..ObjectCount(slotSize[k]) |-> SlotAddress(p, slotSize[k], i - 1)]]
             /\ reg' = [reg EXCEPT ![c].page = p]
    /\ Goto(c, "attach")
    /\ UNCHANGED <<ready, runPages, caches, stats, lock, inUse, direct>>

\* ... or no page is left and the allocation fails.
GrowFails(c) ==
    /\ pc[c] = "grow" /\ free = {}
    /\ Goto(c, "idle")
    /\ reg' = [reg EXCEPT ![c] = NoReg]
    /\ UNCHANGED <<vars, ready, headers, caches, stats, lock, inUse, direct>>

\* grow_cache retakes the lock, publishes the slab as empty and counts it ...
\* (StatBound is a bound of the model.)
GrowAttach(c) ==
    LET k == reg[c].cache IN
    /\ pc[c] = "attach" /\ Unlocked(k) /\ slabPages < StatBound
    /\ slabs' = [slabs EXCEPT ![k] = Attach(@, reg[c].page, "Empty")]
    /\ slabCount' = [slabCount EXCEPT ![k] = @ + 1]
    /\ lock' = [lock EXCEPT ![k] = c]
    /\ reg' = [reg EXCEPT ![c].stat = slabPages + 1]
    /\ Goto(c, "attached")
    /\ UNCHANGED <<vars, ready, headers, slotSize, active, liveObjects, stats, inUse, direct>>

\* ... ++slab_page_count, unlock.
GrowAttached(c) ==
    /\ pc[c] = "attached"
    /\ slabPages' = reg[c].stat
    /\ lock' = [lock EXCEPT ![reg[c].cache] = None]
    /\ Goto(c, "retry")
    /\ UNCHANGED <<vars, ready, headers, caches, largeCount, largeBytes, reg, inUse, direct>>

\* allocate_from_cache after the growth: another CPU may have taken the new
\* objects, and a second miss fails.
AllocateRetry(c) ==
    LET k == reg[c].cache IN
    /\ pc[c] = "retry" /\ Unlocked(k)
    /\ IF Usable(k) # <<>>
       THEN AllocateFromSlab(k, reg[c].left)
       ELSE UNCHANGED <<freeList, liveObjects, slabs, inUse>>
    /\ Goto(c, "idle")
    /\ reg' = [reg EXCEPT ![c] = NoReg]
    /\ UNCHANGED <<vars, ready, magic, owner, objectSize, runPages, slotSize, active, slabCount,
                   stats, lock, direct>>

-----------------------------------------------------------------------------
\* The pages after a free of a: on the free list, the slab on its new list.
Freed(p, a) == <<a>> \o freeList[p]
FreedKind(p, k) ==
    IF Len(freeList[p]) + 1 = ObjectCount(slotSize[k]) THEN "Empty" ELSE "Partial"

\* Mutation: every empty slab is kept.
ReleasesSlabNever(k, p) == FALSE

\* kKeepEmptySlabsPerCache
KeepEmptySlabs == 1

\* free_object_locked: the slab that has become empty is returned when the cache
\* has another empty one.
ReleasesSlab(k, p) ==
    /\ FreedKind(p, k) = "Empty"
    /\ slabs[k].Empty # <<>>
    /\ slabCount[k] > KeepEmptySlabs

\* The "global slab page underflow" check.
StatUnderflows == slabPages = 0

\* The corruption checks of free_object and free_object_locked.
FreeRefused(p, k, a) ==
    \/ magic[p] # "slab" \/ owner[p] = None
    \/ objectSize[p] # slotSize[k]
    \/ ~IsSlot(p, slotSize[k], a)
    \/ Contains(freeList[p], a)
    \/ liveObjects[k] = 0

\* kfree or kmem_cache_free of a slab object.  A page without a slab header is
\* refused before the lock is taken, any other corruption with the lock held.
FreeObject(c, o) ==
    LET a == o[1]
        p == a \div PageSize
        k == owner[p]
    IN
    /\ pc[c] = "idle" /\ magic[p] # "large" /\ (k = None \/ Unlocked(k))
    /\ inUse' = BagRemove(inUse, o)
    /\ IF FreeRefused(p, k, a)
       THEN /\ KmemCorruption(c)
            /\ lock' = [lock EXCEPT ![k] = c]
            /\ UNCHANGED <<freeList, slabs, slabCount, liveObjects, reg>>
       ELSE /\ freeList' = [freeList EXCEPT ![p] = Freed(p, a)]
            /\ liveObjects' = [liveObjects EXCEPT ![k] = @ - 1]
            /\ IF ReleasesSlab(k, p)
               THEN /\ slabs' = [slabs EXCEPT ![k] = Detach(@, p)]
                    /\ slabCount' = [slabCount EXCEPT ![k] = @ - 1]
                    /\ lock' = [lock EXCEPT ![k] = c]
                    /\ reg' = [reg EXCEPT ![c] = [NoReg EXCEPT !.cache = k, !.page = p,
                                                              !.stat = slabPages - 1]]
                    /\ IF StatUnderflows THEN KmemCorruption(c) ELSE Goto(c, "detached")
               ELSE /\ slabs' = [slabs EXCEPT ![k] = MoveSlab(@, p, FreedKind(p, k))]
                    /\ UNCHANGED <<slabCount, lock, reg, pc>>
    /\ UNCHANGED <<vars, ready, magic, owner, objectSize, runPages, slotSize, active, stats, direct>>

\* --slab_page_count, unlock; the page is returned without a lock.
FreeDetached(c) ==
    /\ pc[c] = "detached"
    /\ slabPages' = reg[c].stat
    /\ lock' = [lock EXCEPT ![reg[c].cache] = None]
    /\ Goto(c, "return")
    /\ UNCHANGED <<vars, ready, headers, caches, largeCount, largeBytes, reg, inUse, direct>>

\* What a free page holds is of no interest: its next owner overwrites it.
Forget(p) ==
    /\ magic' = [magic EXCEPT ![p] = "none"]
    /\ owner' = [owner EXCEPT ![p] = None]
    /\ objectSize' = [objectSize EXCEPT ![p] = 0]
    /\ freeList' = [freeList EXCEPT ![p] = <<>>]

ReturnPage(c) ==
    /\ pc[c] = "return"
    /\ Free(reg[c].page * PageSize)
    /\ Forget(reg[c].page)
    /\ Goto(c, reg[c].ret)
    /\ reg' = [reg EXCEPT ![c] =
                  IF @.ret = "idle" THEN NoReg ELSE [@ EXCEPT !.page = 0, !.stat = 0]]
    /\ UNCHANGED <<ready, runPages, caches, stats, lock, inUse, direct>>

\* kmalloc above the largest class: allocate_large.
KmallocLarge(size) ==
    /\ pc[Boot] = "idle" /\ ready
    /\ SelectCache(size) = None /\ LargePages(size) > 0
    /\ AllocateRun(LargePages(size))
    /\ \E p \in held' \ held :
          /\ IsLeast(p, held' \ held)
          /\ magic' = [magic EXCEPT ![p] = "large"]
          /\ runPages' = [runPages EXCEPT ![p] = LargePages(size)]
          /\ inUse' = BagAdd(inUse, <<p * PageSize + LargeHeader, size>>)
    /\ largeCount' = largeCount + 1
    /\ largeBytes' = largeBytes + size
    /\ UNCHANGED <<ready, owner, objectSize, freeList, caches, slabPages, cpus, direct>>

\* kfree of a large allocation: release_large_allocation clears the header ...
KfreeLarge(o) ==
    LET p == o[1] \div PageSize IN
    /\ pc[Boot] = "idle" /\ magic[p] = "large" /\ o[1] = p * PageSize + LargeHeader
    /\ inUse' = BagRemove(inUse, o)
    /\ IF largeCount = 0 \/ largeBytes < o[2]
       THEN /\ KmemCorruption(Boot)
            /\ UNCHANGED <<magic, runPages, largeCount, largeBytes, reg>>
       ELSE /\ largeCount' = largeCount - 1
            /\ largeBytes' = largeBytes - o[2]
            /\ magic' = [magic EXCEPT ![p] = "none"]
            /\ runPages' = [runPages EXCEPT ![p] = 0]
            /\ Goto(Boot, "pages")
            /\ reg' = [reg EXCEPT ![Boot] = [NoReg EXCEPT !.page = p, !.left = runPages[p]]]
    /\ UNCHANGED <<vars, ready, owner, objectSize, freeList, caches, slabPages, lock, direct>>

\* Mutation: the last page of a run is not freed.
KfreeLargePageShort ==
    LET r == reg[Boot] IN
    /\ pc[Boot] = "pages"
    /\ Free(r.page * PageSize)
    /\ IF r.left <= 2
       THEN /\ Goto(Boot, "idle")
            /\ reg' = [reg EXCEPT ![Boot] = NoReg]
       ELSE /\ reg' = [reg EXCEPT ![Boot].page = @ + 1, ![Boot].left = @ - 1]
            /\ UNCHANGED pc
    /\ UNCHANGED <<ready, headers, caches, stats, lock, inUse, direct>>

\* ... and frees its pages one call at a time.
KfreeLargePage ==
    LET r == reg[Boot] IN
    /\ pc[Boot] = "pages"
    /\ Free(r.page * PageSize)
    /\ IF r.left = 1
       THEN /\ Goto(Boot, "idle")
            /\ reg' = [reg EXCEPT ![Boot] = NoReg]
       ELSE /\ reg' = [reg EXCEPT ![Boot].page = @ + 1, ![Boot].left = @ - 1]
            /\ UNCHANGED pc
    /\ UNCHANGED <<ready, headers, caches, stats, lock, inUse, direct>>

-----------------------------------------------------------------------------
\* kmem_cache_create: the first slot that is not active.
CacheCreate(size) ==
    /\ pc[Boot] = "idle" /\ ready /\ LayoutValid(size)
    /\ \E k \in Named :
          /\ ~active[k]
          /\ active' = [active EXCEPT ![k] = TRUE]
          /\ slotSize' = [slotSize EXCEPT ![k] = SlotSizeFor(size)]
          /\ slabs' = [slabs EXCEPT ![k] = NoSlabs]
          /\ slabCount' = [slabCount EXCEPT ![k] = 0]
          /\ liveObjects' = [liveObjects EXCEPT ![k] = 0]
    /\ UNCHANGED <<vars, ready, headers, stats, cpus, inUse, direct>>

\* kmem_cache_destroy: refused while objects are live.  Its callers, the
\* registries and the ARP cache, make no other call on the cache meanwhile.
CacheDestroy(k) ==
    /\ pc[Boot] = "idle" /\ active[k] /\ Unlocked(k)
    /\ \A c \in CPU : reg[c].cache # k
    /\ liveObjects[k] = 0
    /\ active' = [active EXCEPT ![k] = FALSE]
    /\ Goto(Boot, "destroy")
    /\ reg' = [reg EXCEPT ![Boot] = [NoReg EXCEPT !.cache = k, !.ret = "destroy"]]
    /\ UNCHANGED <<vars, ready, headers, slabs, slotSize, slabCount, liveObjects, stats, lock,
                   inUse, direct>>

AllSlabs(k) == slabs[k].Empty \o slabs[k].Partial \o slabs[k].Full

\* release_cache_slabs, one slab: check it, count it down (the lists serve as
\* the loop's cursor) ...
DestroySlab ==
    LET k == reg[Boot].cache
        p == Head(AllSlabs(k))
    IN
    /\ pc[Boot] = "destroy" /\ AllSlabs(k) # <<>>
    /\ IF Len(freeList[p]) # ObjectCount(slotSize[k]) \/ StatUnderflows
       THEN KmemCorruption(Boot) /\ UNCHANGED <<slabs, reg>>
       ELSE /\ slabs' = [slabs EXCEPT ![k] = Detach(@, p)]
            /\ reg' = [reg EXCEPT ![Boot].page = p, ![Boot].stat = slabPages - 1]
            /\ Goto(Boot, "destroyed")
    /\ UNCHANGED <<vars, ready, headers, slotSize, active, slabCount, liveObjects, stats, lock,
                   inUse, direct>>

\* ... and return its page; after the last one the slot is reset.
DestroyStore ==
    /\ pc[Boot] = "destroyed"
    /\ slabPages' = reg[Boot].stat
    /\ Goto(Boot, "return")
    /\ UNCHANGED <<vars, ready, headers, caches, largeCount, largeBytes, lock, reg, inUse, direct>>

DestroyDone ==
    LET k == reg[Boot].cache IN
    /\ pc[Boot] = "destroy" /\ AllSlabs(k) = <<>>
    /\ slabCount' = [slabCount EXCEPT ![k] = 0]
    /\ liveObjects' = [liveObjects EXCEPT ![k] = 0]
    /\ slotSize' = [slotSize EXCEPT ![k] = 0]
    /\ Goto(Boot, "idle")
    /\ reg' = [reg EXCEPT ![Boot] = NoReg]
    /\ UNCHANGED <<vars, ready, headers, slabs, active, stats, lock, inUse, direct>>

\* Page tables, stacks and DMA buffers take pages from the same allocator.
DirectAllocate(n) ==
    /\ \/ n = 1 /\ Allocate
       \/ n > 1 /\ AllocateRun(n)
    /\ direct' = direct \cup (held' \ held)
    /\ UNCHANGED <<ready, headers, caches, stats, cpus, inUse>>

DirectFree(a) ==
    /\ a \div PageSize \in direct
    /\ Free(a)
    /\ direct' = direct \ {a \div PageSize}
    /\ UNCHANGED <<ready, headers, caches, stats, cpus, inUse>>

PageSetup ==
    /\ ~ready /\ pinned \subseteq BootReserved
    /\ Initialize \/ \E a \in Addresses, len \in Lengths : ReserveRange(a, len)
    /\ UNCHANGED heapVars

HeapCall(c) ==
    \/ Kmalloc(c) \/ KmemCacheAlloc(c) \/ GrowPage(c) \/ GrowFails(c)
    \/ GrowAttach(c) \/ GrowAttached(c) \/ AllocateRetry(c)
    \/ \E o \in BagToSet(inUse) : FreeObject(c, o)
    \/ FreeDetached(c) \/ ReturnPage(c)

BootCall ==
    \/ \E size \in Sizes : KmallocLarge(size)
    \/ \E o \in BagToSet(inUse) : KfreeLarge(o)
    \/ KfreeLargePage
    \/ \E size \in NamedSizes : CacheCreate(size)
    \/ \E k \in Named : CacheDestroy(k)
    \/ DestroySlab \/ DestroyStore \/ DestroyDone

HeapNext ==
    \/ PageSetup \/ KmemInit
    \/ \E n \in RunLengths : DirectAllocate(n)
    \/ \E a \in Addresses : DirectFree(a)
    \/ BootCall
    \/ \E c \in CPU : HeapCall(c)

HeapSpec == HeapInit /\ [][HeapNext]_allVars

-----------------------------------------------------------------------------
SlabPages(k) == ToSet(AllSlabs(k))

\* The heap's headers, lists, counters and registers have their types.
HeapTypeOK ==
    /\ magic \in [Page -> {"none", "slab", "large"}]
    /\ owner \in [Page -> Cache \cup {None}]
    /\ \A k \in Cache : SlabPages(k) \subseteq Page
    /\ slabCount \in [Cache -> Nat] /\ liveObjects \in [Cache -> Nat]
    /\ slabPages \in Nat /\ largeCount \in Nat /\ largeBytes \in Nat
    /\ lock \in [Cache -> CPU \cup {None}]
    /\ direct \subseteq Page

Bytes(o) == o[1]..(o[1] + o[2] - 1)

\* No byte is given out twice: no object is in two callers' hands, and the
\* objects in callers' hands are disjoint from each other, from the slab and large
\* headers in front of them, from pages the page allocator considers free and from
\* pages others hold, whatever the interleaving of growth, allocation, free and
\* page return.
ObjectsApart ==
    LET objects == BagToSet(inUse) IN
    /\ \A o \in objects : CopiesIn(o, inUse) = 1
    /\ \A o, u \in objects : o # u => Bytes(o) \cap Bytes(u) = {}
    /\ \A o \in objects : \A b \in Bytes(o) : b \div PageSize \in held \ direct
    /\ \A o \in objects :
          LET p == o[1] \div PageSize IN
          \/ magic[p] = "large" /\ o[1] - p * PageSize >= LargeHeader
          \/ magic[p] = "slab" /\ o[1] - p * PageSize >= SlabHeader

\* No page leaks: every page the heap took is in a slab, in a large run, or in
\* the hands of a CPU that is about to publish or return it.
InFlight ==
    ({reg[c].page : c \in {d \in CPU :
          pc[d] \in {"attach", "detached", "destroyed", "return", "halt"}}} \ {NoReg.page})
        \cup IF pc[Boot] = "pages"
             THEN reg[Boot].page..(reg[Boot].page + reg[Boot].left - 1) ELSE {}
LargeRuns ==
    UNION {p..(p + runPages[p] - 1) : p \in {q \in Page : magic[q] = "large"}}
PagesAccounted ==
    held = direct \cup InFlight \cup LargeRuns \cup UNION {SlabPages(k) : k \in Cache}

\* The CPUs that have missed in cache k and not yet had their second try.
Growing(k) ==
    {c \in CPU : reg[c].cache = k /\ pc[c] \in {"grow", "attach", "attached", "retry"}}

\* Spare slabs do not pile up: however growths and frees of the CPUs interleave, a
\* cache never has more empty slabs than there are CPUs.  One may come from each
\* growth in a race, and a free returns at most the slab it has emptied itself
\* (free_object_locked), so what a race has left over stays: see OneSpareSlab.
SpareSlabsBounded ==
    \A k \in Cache : Len(slabs[k].Empty) <= Max({KeepEmptySlabs, Cardinality(CPU)})

\* What the page return policy asks for (keep_empty_slabs_per_cache = 1, return
\* excess empty slabs): a cache nobody is growing has one spare slab.  It does not
\* hold on two CPUs.
OneSpareSlab ==
    \A k \in Cache : Growing(k) = {} => Len(slabs[k].Empty) <= KeepEmptySlabs

\* kmem_corruption stops the machine only for a caller's error: callers that
\* free exactly what they were given never meet it.
NoFalseCorruption == \A c \in CPU : pc[c] # "halt"
=============================================================================
