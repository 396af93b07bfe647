----------------------------- MODULE SpscQueue -----------------------------
(***************************************************************************)
(* Common::LFQueue, the single-producer single-consumer ring that carries  *)
(* every message between two threads of the process: client requests,      *)
(* client responses, market updates, evaluations and decisions.            *)
(*                                                                         *)
(* The ring is a vector of slots, two indices owned by one thread each and *)
(* one shared counter.  Each access to the counter or to a slot is a step  *)
(* of its own, so the two threads interleave between a check and the use   *)
(* of what it found.  The counter is updated with release and read with    *)
(* acquire ordering, and each index is read by its owner only, so the      *)
(* interleavings of these steps are the executions of the code.            *)
(***************************************************************************)
EXTENDS Integers, Sequences

CONSTANTS Values,    \* what the producer may write
          Empty,     \* the default-constructed slot
          Capacity   \* num_elems

ASSUME CapacityAssumption == Capacity \in Nat \ {0}

VARIABLES store,         \* the slots (store_)
          writeIndex,    \* next_write_index_, owned by the producer
          readIndex,     \* next_read_index_, owned by the consumer
          count,         \* num_elements_, shared
          producer,      \* where the producer is in write-then-publish
          consumer,      \* where the consumer is in read-then-release
          pending,       \* the element the producer is writing
          handled,       \* the element the consumer handled last
          aborted        \* std::terminate was called inside an index update

ringVars == <<store, writeIndex, readIndex, count, producer, consumer, pending,
          handled, aborted>>

Slots == 0 .. Capacity - 1
Elements == Values \cup {Empty}

\* The index after i in the ring.
NextIndex(i) == (i + 1) % Capacity

RingInit ==
    /\ store = [i \in Slots |-> Empty]
    /\ writeIndex = 0
    /\ readIndex = 0
    /\ count = 0
    /\ producer = "idle"
    /\ consumer = "idle"
    /\ pending = Empty
    /\ handled = Empty
    /\ aborted = FALSE
-----------------------------------------------------------------------------
(***************************************************************************)
(* The producer.  A full queue gives it no slot: what it does then is the  *)
(* business of each caller and changes nothing here.                       *)
(***************************************************************************)

\* Wrong on purpose: one element more than the ring has slots.
ClaimSlot_OffByOne(v) ==
    /\ producer = "idle"
    /\ count <= Capacity
    /\ producer' = "write"
    /\ pending' = v
    /\ UNCHANGED <<store, writeIndex, readIndex, count, consumer, handled, aborted>>

\* tryGetNextToWriteTo() returns the slot at the write index.
ClaimSlot(v) ==
    /\ producer = "idle"
    /\ count # Capacity
    /\ producer' = "write"
    /\ pending' = v
    /\ UNCHANGED <<store, writeIndex, readIndex, count, consumer, handled, aborted>>

\* *slot = value
WriteSlot ==
    /\ producer = "write"
    /\ store' = [store EXCEPT ![writeIndex] = pending]
    /\ producer' = "advance"
    /\ UNCHANGED <<writeIndex, readIndex, count, consumer, pending, handled, aborted>>

\* updateWriteIndex(), up to the store of the index: terminates when full.
AdvanceWriteIndex ==
    /\ producer = "advance"
    /\ IF count = Capacity
       THEN aborted' = TRUE /\ UNCHANGED <<writeIndex, producer>>
       ELSE /\ writeIndex' = NextIndex(writeIndex)
            /\ producer' = "publish"
            /\ UNCHANGED aborted
    /\ UNCHANGED <<store, readIndex, count, consumer, pending, handled>>

\* num_elements_.fetch_add(1): the consumer can see the element from here on.
Publish ==
    /\ producer = "publish"
    /\ count' = count + 1
    /\ producer' = "idle"
    /\ UNCHANGED <<store, writeIndex, readIndex, consumer, pending, handled, aborted>>
-----------------------------------------------------------------------------
(***************************************************************************)
(* The consumer.  It works on the slot in place, through the pointer       *)
(* getNextToRead() gave it, and releases the slot when it is done.         *)
(***************************************************************************)

\* Wrong on purpose: the slot is given back to the producer before it is read.
TakeSlot_ReleaseFirst ==
    /\ consumer = "idle"
    /\ count # 0
    /\ consumer' = "read"
    /\ count' = count - 1
    /\ UNCHANGED <<store, writeIndex, readIndex, producer, pending, handled, aborted>>

\* Wrong on purpose: the emptiness check is left out.
TakeSlot_Unchecked ==
    /\ consumer = "idle"
    /\ consumer' = "read"
    /\ UNCHANGED <<store, writeIndex, readIndex, count, producer, pending, handled, aborted>>

\* getNextToRead() returns the slot at the read index.
TakeSlot ==
    /\ consumer = "idle"
    /\ count # 0
    /\ consumer' = "read"
    /\ UNCHANGED <<store, writeIndex, readIndex, count, producer, pending, handled, aborted>>

\* The caller's handler runs on the slot.
HandleSlot ==
    /\ consumer = "read"
    /\ handled' = store[readIndex]
    /\ consumer' = "advance"
    /\ UNCHANGED <<store, writeIndex, readIndex, count, producer, pending, aborted>>

\* updateReadIndex(), up to the store of the index: terminates when empty.
AdvanceReadIndex ==
    /\ consumer = "advance"
    /\ IF count = 0
       THEN aborted' = TRUE /\ UNCHANGED <<readIndex, consumer>>
       ELSE /\ readIndex' = NextIndex(readIndex)
            /\ consumer' = "release"
            /\ UNCHANGED aborted
    /\ UNCHANGED <<store, writeIndex, count, producer, pending, handled>>

\* num_elements_.fetch_sub(1): the producer can reuse the slot from here on.
Release ==
    /\ consumer = "release"
    /\ count' = count - 1
    /\ consumer' = "idle"
    /\ UNCHANGED <<store, writeIndex, readIndex, producer, pending, handled, aborted>>
-----------------------------------------------------------------------------
Produce == (\E v \in Values : ClaimSlot(v)) \/ WriteSlot \/ AdvanceWriteIndex \/ Publish
Consume == TakeSlot \/ HandleSlot \/ AdvanceReadIndex \/ Release

RingNext == Produce \/ Consume

RingSpec == RingInit /\ [][RingNext]_ringVars
-----------------------------------------------------------------------------
(***************************************************************************)
(* Properties.                                                             *)
(***************************************************************************)

\* The types of the variables.
RingTypeOK ==
    /\ store \in [Slots -> Elements]
    /\ writeIndex \in Slots
    /\ readIndex \in Slots
    /\ count \in 0 .. Capacity
    /\ producer \in {"idle", "write", "advance", "publish"}
    /\ consumer \in {"idle", "read", "advance", "release"}
    /\ pending \in Elements
    /\ handled \in Elements
    /\ aborted \in BOOLEAN

\* The slot k places after slot i, k \in 0 .. Capacity.
Ahead(i, k) == IF i + k < Capacity THEN i + k ELSE i + k - Capacity

\* Elements in the ring from the producer's and the consumer's own indices:
\* written but not counted yet, and released but still counted.
Uncounted == IF producer = "publish" THEN 1 ELSE 0
StillCounted == IF consumer = "release" THEN 1 ELSE 0

\* The indices are as far apart as the counter says, whatever step each thread
\* is at; each thread's check stays true until it moves its index; the element
\* being published is in the slot just behind the write index.
RingInv ==
    /\ RingTypeOK
    /\ ~ aborted
    /\ consumer # "idle" => count > 0
    /\ producer # "idle" => count < Capacity
    /\ writeIndex = Ahead(readIndex, count - StillCounted + Uncounted)
    /\ producer = "advance" => store[writeIndex] = pending
    /\ producer = "publish" => store[Ahead(readIndex, count - StillCounted)] = pending
    /\ producer # "idle" => pending \in Values

\* The producer never writes the slot the consumer is working on in place: the
\* counter, tested before the slot is claimed, keeps the two threads apart even
\* though neither reads the other's index.
NoSlotRace ==
    ~ (producer = "write" /\ consumer = "read" /\ writeIndex = readIndex)

\* The second check in updateWriteIndex() and updateReadIndex() never ends the
\* process: what was found when the slot was claimed still holds when the index
\* moves, whatever the other thread did in between.
NeverAborts == ~ aborted

(***************************************************************************)
(* The refinement.  An element enters the abstract queue when it is        *)
(* counted and leaves it when it is handled, which is before its slot is   *)
(* given back.                                                             *)
(***************************************************************************)
IsHandled == consumer \in {"advance", "release"}

FirstUnread == IF consumer = "advance" THEN Ahead(readIndex, 1) ELSE readIndex
Unread == IF IsHandled THEN count - 1 ELSE count

\* The n elements that slots f hold from slot b on.
Window(f, b, n) == [k \in 1 .. n |-> f[Ahead(b, k - 1)]]

Contents == Window(store, FirstUnread, Unread)

Fifo == INSTANCE BoundedFifo WITH queue <- Contents

\* The ring is a bounded FIFO channel: nothing is lost, duplicated, reordered or
\* handled before it was completely written.
ImplementsFifo == Fifo!Spec
=============================================================================
