-------------------------- MODULE PageFramesProofs --------------------------
(***************************************************************************)
(* Proofs about the page allocator's contract (PageFrames) for every page  *)
(* size, memory map, reservation and sequence of calls.                    *)
(***************************************************************************)
EXTENDS PageFrames, FiniteSetTheorems, TLAPS

\* The inductive invariant: exact counting needs the free set finite (it is
\* a set of tracked pages), Free(a) needs held and free pages apart, and
\* Initialize that nobody holds a page before it.
Inv ==
    /\ TypeOK
    /\ FreeCountExact
    /\ OwnersApart
    /\ ~initialized => held = {}

\* Tracked pages are finitely many, so counting them makes sense.
LEMMA TrackedFinite ==
    ASSUME NEW n \in Nat, NEW S \in SUBSET (0..(n - 1))
    PROVE  IsFiniteSet(S) /\ Cardinality(S) \in Nat
<1>1. IsFiniteSet(0..(n - 1))
  BY FS_Interval
<1>2. IsFiniteSet(S)
  BY Zenon, <1>1, FS_Subset
<1> QED
  BY <1>2, FS_CardinalityType

\* Only whole pages below the bitmap's limit are usable.
LEMMA UsableTracked ==
    ASSUME NEW m, m \in Seq(Region)
    PROVE  UsablePages(m) \subseteq 0..(MaxPages - 1)
  BY DEF UsablePages, RegionPages

\* Init establishes the invariant: nothing is free, held or pinned.
LEMMA InitInv == Init => Inv
<1> SUFFICES ASSUME Init PROVE Inv
  OBVIOUS
<1>1. Cardinality({}) = 0
  BY FS_EmptySet
<1> QED
  BY Zenon, <1>1 DEF Init, Inv, TypeOK, FreeCountExact, OwnersApart

\* Every call of the allocator preserves the invariant.
LEMMA NextInv == Inv /\ [Next]_vars => Inv'
<1> SUFFICES ASSUME Inv, [Next]_vars PROVE Inv'
  OBVIOUS
<1> USE PageFramesAssumption
<1>0. IsFiniteSet(free) /\ Cardinality(free) \in Nat
  BY Zenon, TrackedFinite DEF Inv, TypeOK
<1>1. CASE Initialize
  <2>1. PICK last \in UsablePages(bootMap) :
          /\ \A p \in UsablePages(bootMap) : p <= last
          /\ pageCount' = last + 1
    BY <1>1 DEF Initialize
  <2>2. UsablePages(bootMap) \subseteq 0..(MaxPages - 1)
    BY UsableTracked DEF Inv, TypeOK
  <2>3. pageCount' \in Nat /\ UsablePages(bootMap) \subseteq 0..(pageCount' - 1)
    BY <2>1, <2>2
  <2>4. free' \subseteq 0..(pageCount' - 1)
    BY <1>1, <2>3 DEF Initialize
  <2>5. freeCount' \in Nat
    BY Zenon, <1>1, <2>3, <2>4, TrackedFinite DEF Initialize
  <2>6. held = {} /\ held' = held
    BY <1>1 DEF Initialize, Inv
  <2> QED
    BY <1>1, <2>3, <2>4, <2>5, <2>6
    DEF Initialize, Inv, TypeOK, FreeCountExact, OwnersApart
<1>2. CASE Allocate
  <2>1. PICK p \in free : /\ free' = free \ {p}
                          /\ held' = held \cup {p}
    BY <1>2 DEF Allocate
  <2>2. Cardinality(free \ {p}) = Cardinality(free) - 1
    BY Zenon, <1>0, FS_RemoveElement
  <2>3. Cardinality(free) # 0
    BY <1>0, FS_EmptySet
  <2>4. freeCount' = freeCount - 1 /\ freeCount' \in Nat
    BY <1>0, <1>2, <2>3 DEF Allocate, Inv, FreeCountExact
  <2>5. TypeOK'
    BY <1>2, <2>1, <2>4 DEF Allocate, Inv, TypeOK
  <2>6. FreeCountExact'
    BY <2>1, <2>2, <2>4 DEF Inv, FreeCountExact
  <2>7. OwnersApart'
    BY <1>2, <2>1 DEF Allocate, Inv, OwnersApart
  <2> QED
    BY <1>2, <2>5, <2>6, <2>7 DEF Allocate, Inv
<1>3. ASSUME NEW n \in RunLengths, AllocateRun(n) PROVE Inv'
  <2>1. PICK s \in RunStarts(n) :
          /\ free' = free \ (s..(s + n - 1))
          /\ held' = held \cup (s..(s + n - 1))
    BY <1>3 DEF AllocateRun
  <2> DEFINE run == s..(s + n - 1)
  <2>2. s \in Nat /\ n \in Nat /\ n > 0 /\ run \subseteq free
    BY <1>3, <2>1 DEF AllocateRun, RunStarts, Inv, TypeOK
  <2>3. IsFiniteSet(run) /\ Cardinality(run) = n
    BY <2>2, FS_Interval
  <2>4. Cardinality(free \ run) = Cardinality(free) - n
    <3>1. free \cap run = run
      BY <2>2
    <3> HIDE DEF run
    <3> QED
      BY Zenon, <1>0, <2>3, <3>1, FS_Difference
  <2>5. n <= Cardinality(free)
    <3> HIDE DEF run
    <3> QED
      BY <1>0, <2>2, <2>3, FS_Subset
  <2>6. freeCount' = freeCount - n /\ freeCount' \in Nat
    BY <1>0, <1>3, <2>2, <2>5 DEF AllocateRun, Inv, FreeCountExact
  <2>7. TypeOK'
    <3> HIDE DEF run
    <3> QED
      BY <1>3, <2>1, <2>2, <2>6 DEF AllocateRun, Inv, TypeOK, run
  <2>8. FreeCountExact'
    BY <2>1, <2>4, <2>6 DEF Inv, FreeCountExact
  <2>9. OwnersApart'
    BY <1>3, <2>1, <2>2 DEF AllocateRun, Inv, OwnersApart
  <2> QED
    BY <1>3, <2>7, <2>8, <2>9 DEF AllocateRun, Inv
<1>4. ASSUME NEW a \in Addresses, Free(a) PROVE Inv'
  <2> DEFINE p == a \div PageSize
  <2>1. /\ p < pageCount /\ p \notin free /\ p \in held
        /\ free' = free \cup {p}
        /\ held' = held \ {p}
        /\ freeCount' = freeCount + 1
        /\ UNCHANGED <<bootMap, initialized, pageCount, pinned>>
    BY <1>4 DEF Free
  <2> HIDE DEF p
  <2>2. Cardinality(free \cup {p}) = Cardinality(free) + 1
    BY Zenon, <1>0, <2>1, FS_AddElement
  <2>3. TypeOK'
    BY <2>1 DEF Inv, TypeOK
  <2>4. FreeCountExact'
    BY <2>1, <2>2 DEF Inv, FreeCountExact
  <2>5. OwnersApart'
    BY <2>1 DEF Inv, OwnersApart
  <2> QED
    BY <2>1, <2>3, <2>4, <2>5 DEF Inv
<1>5. ASSUME NEW a \in Addresses, NEW len \in Lengths, ReserveRange(a, len)
      PROVE Inv'
  <2> DEFINE pages == {p \in 0..(pageCount - 1) :
                         /\ a \div PageSize <= p
                         /\ p < AlignUpPage(a + len)}
  <2>1. /\ free' = free \ pages
        /\ freeCount' = freeCount - Cardinality(free \cap pages)
        /\ pinned' = pinned \cup pages
        /\ held = {}
        /\ UNCHANGED <<bootMap, initialized, pageCount, held>>
    BY <1>5 DEF ReserveRange
  <2>2. pages \subseteq Nat
    OBVIOUS
  <2> HIDE DEF pages
  <2>3. /\ IsFiniteSet(free \ pages)
        /\ Cardinality(free \ pages) = Cardinality(free) - Cardinality(free \cap pages)
    BY Zenon, <1>0, FS_Difference
  <2>4. Cardinality(free \ pages) \in Nat
    BY <2>3, FS_CardinalityType
  <2>5. FreeCountExact'
    BY <2>1, <2>3 DEF Inv, FreeCountExact
  <2>6. TypeOK'
    BY <2>1, <2>2, <2>4, <2>5 DEF Inv, TypeOK, FreeCountExact
  <2>7. OwnersApart'
    BY <2>1 DEF Inv, OwnersApart
  <2> QED
    BY <2>1, <2>5, <2>6, <2>7 DEF Inv
<1>6. CASE UNCHANGED vars
  BY <1>6 DEF vars, Inv, TypeOK, FreeCountExact, OwnersApart
<1> QED
  BY <1>1, <1>2, <1>3, <1>4, <1>5, <1>6 DEF Next

\* The allocator's variables keep their types: in particular every free and
\* every held page is a tracked one, so allocate(), which never compares with
\* page_count_, cannot return an untracked address.
THEOREM TypeCorrect == Spec => []TypeOK
<1>1. Inv => TypeOK
  BY DEF Inv
<1> QED
  BY <1>1, InitInv, NextInv, PTL DEF Spec

\* free_page_count() is exact after any sequence of calls.
THEOREM FreeCountIsExact == Spec => []FreeCountExact
<1>1. Inv => FreeCountExact
  BY DEF Inv
<1> QED
  BY <1>1, InitInv, NextInv, PTL DEF Spec

\* No page is handed out twice, and no pinned page is handed out at all.
THEOREM NoPageSharedOrUnpinned == Spec => []OwnersApart
<1>1. Inv => OwnersApart
  BY DEF Inv
<1> QED
  BY <1>1, InitInv, NextInv, PTL DEF Spec
=============================================================================
