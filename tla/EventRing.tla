------------------------------ MODULE EventRing ------------------------------
(***************************************************************************)
(* The kernel event ring (debug/event_ring.cpp) and the observe calls that *)
(* read it (syscall/observe.cpp, sys_observe_events): the ring is copied   *)
(* under its lock into one static array, and from there, record by record, *)
(* to the caller.                                                          *)
(***************************************************************************)
EXTENDS Integers, Sequences

CONSTANTS
    RingCapacity,   \* kEventRingCapacity
    MaxEvents       \* bound: events recorded

ASSUME EventRingAssumption == RingCapacity \in Nat \ {0} /\ MaxEvents \in Nat

VARIABLES
    records, ringHead, ringCount, nextSequence,     \* KernelEventRing
    snapshot                                        \* g_event_observe_snapshot

ringVars == <<records, ringHead, ringCount, nextSequence, snapshot>>

\* KernelEventRing::reset
RingInit ==
    /\ records = [i \in 0..(RingCapacity - 1) |-> 0]
    /\ ringHead = 0 /\ ringCount = 0 /\ nextSequence = 1 /\ snapshot = <<>>

\* append: the oldest record is overwritten once the ring is full.
Append1 ==
    /\ records' = [records EXCEPT ![ringHead] = nextSequence]
    /\ nextSequence' = nextSequence + 1
    /\ ringHead' = (ringHead + 1) % RingCapacity
    /\ ringCount' = IF ringCount < RingCapacity THEN ringCount + 1 ELSE ringCount
    /\ UNCHANGED snapshot

\* record, record_subject
Record == nextSequence <= MaxEvents /\ Append1

\* Mutant: the copy starts at the head.
Start_AtHead == ringHead

\* KernelEventRing::snapshot: where the oldest record is.
Start == (ringHead + RingCapacity - ringCount) % RingCapacity

Copied == [i \in 1..ringCount |-> records[(Start + i - 1) % RingCapacity]]

\* kernel_event::snapshot, into the static array.
TakeSnapshot == snapshot' = Copied /\ UNCHANGED <<records, ringHead, ringCount, nextSequence>>

=============================================================================
