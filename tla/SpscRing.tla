------------------------------ MODULE SpscRing ------------------------------
(***************************************************************************)
(* The ring buffer of src/boost/spsc_queue_logger.hpp (boost's spsc_queue, *)
(* changed so that slots are assigned and never destroyed), as the buffer  *)
(* of a logged variable uses it: one thread calls push and                 *)
(* write_available, the other calls pop (one element) or consume_all.      *)
(*                                                                         *)
(* The two indices are C++ atomics stored with release and loaded with     *)
(* acquire or relaxed order, so a thread may load an old value of the      *)
(* other thread's index, but never one older than it has loaded before.    *)
(* seen_read and seen_write are the newest values loaded so far; a load    *)
(* returns any value between that and the current one.                     *)
(***************************************************************************)
EXTENDS Integers, Sequences

CONSTANTS MaxSize,    \* slots: capacity + 1, one slot always stays empty
          WordSize,   \* 2^(bits of size_t)
          Elems,      \* what can be queued
          Empty       \* the element all slots are constructed with

ASSUME MaxSizeAssumption == MaxSize \in Nat /\ MaxSize >= 2
ASSUME WordSizeAssumption == WordSize \in Nat /\ MaxSize < WordSize

VARIABLES
    buffer,       \* the slots
    write_index,  \* next slot to fill; stored by the pushing thread only
    read_index,   \* next slot to empty; stored by the popping thread only
    seen_read,    \* newest read_index the pushing thread has loaded
    seen_write,   \* newest write_index the popping thread has loaded
    pushPc,       \* where the pushing thread is
    arg,          \* the element it is pushing
    free,         \* the result of write_available since its last push, or 0
    popPc,        \* where the popping thread is
    todo,         \* how many elements it still has to copy
    got,          \* those it has copied but not yet released
    popped        \* the elements its last successful call returned

pushVars == <<buffer, write_index, seen_read, pushPc, arg, free>>
popVars  == <<read_index, seen_write, popPc, todo, got, popped>>
vars == <<buffer, write_index, seen_read, pushPc, arg, free,
          read_index, seen_write, popPc, todo, got, popped>>

Index == 0 .. MaxSize - 1

-----------------------------------------------------------------------------
(* Index arithmetic.                                                        *)

\* [A bug the checks must find: the wrap-around is forgotten.]
next_index_NoWrap(i) == i + 1

next_index(i) == IF i + 1 >= MaxSize THEN i + 1 - MaxSize ELSE i + 1

read_available(w, r) == IF w >= r THEN w - r ELSE w + MaxSize - r

\* [Bug: the slot that always stays empty is counted as free.]
write_available_OffByOne(w, r) ==
    LET ret == (r - w) % WordSize
    IN  IF w >= r THEN (ret + MaxSize) % WordSize ELSE ret

\* In size_t: the subtraction wraps when w >= r and the addition wraps back.
write_available(w, r) ==
    LET ret == (r - w - 1) % WordSize
    IN  IF w >= r THEN (ret + MaxSize) % WordSize ELSE ret

\* new_read_index of consume_all, both branches; the slot of the k-th element
\* from index i is the same expression.
advance(i, n) == IF i + n >= MaxSize THEN i + n - MaxSize ELSE i + n

\* The indices a thread may load: not older than seen, not newer than now.
Loadable(seen, now) ==
    {i \in Index : read_available(i, seen) <= read_available(now, seen)}

-----------------------------------------------------------------------------
\* reset(Empty): every slot but one is pushed and popped once, which leaves
\* both indices at the last slot.
Init ==
    /\ buffer = [i \in Index |-> Empty]
    /\ write_index = MaxSize - 1 /\ read_index = MaxSize - 1
    /\ seen_read = MaxSize - 1 /\ seen_write = MaxSize - 1
    /\ pushPc = "idle" /\ arg = Empty /\ free = 0
    /\ popPc = "idle" /\ todo = 0 /\ got = << >> /\ popped = << >>

-----------------------------------------------------------------------------
(* The pushing thread.                                                      *)

\* [Bug: push does not test for a full ring.]
PushLoad_NoFullTest(t) ==
    /\ pushPc = "idle"
    /\ \E r \in Loadable(seen_read, read_index) : seen_read' = r
    /\ pushPc' = "copy" /\ arg' = t
    /\ UNCHANGED <<buffer, write_index, free, popVars>>

\* push, up to the test for a full ring.
PushLoad(t) ==
    /\ pushPc = "idle"
    /\ \E r \in Loadable(seen_read, read_index) :
         /\ seen_read' = r
         /\ IF next_index(write_index) = r
            THEN UNCHANGED <<pushPc, arg>>                \* return false
            ELSE pushPc' = "copy" /\ arg' = t
    /\ UNCHANGED <<buffer, write_index, free, popVars>>

\* push: *(buffer + write_index) = t
PushCopy ==
    /\ pushPc = "copy"
    /\ buffer' = [buffer EXCEPT ![write_index] = arg]
    /\ pushPc' = "publish"
    /\ UNCHANGED <<write_index, seen_read, arg, free, popVars>>

\* push: write_index_.store(next, release)
PushPublish ==
    /\ pushPc = "publish"
    /\ write_index' = next_index(write_index)
    /\ pushPc' = "idle" /\ free' = 0
    /\ UNCHANGED <<buffer, seen_read, arg, popVars>>

\* write_available, called by the pushing thread.
QueryFree ==
    /\ pushPc = "idle"
    /\ \E r \in Loadable(seen_read, read_index) :
         /\ seen_read' = r
         /\ free' = write_available(write_index, r)
    /\ UNCHANGED <<buffer, write_index, pushPc, arg, popVars>>

-----------------------------------------------------------------------------
(* The popping thread.                                                      *)

\* [Bug: pop does not test for an empty ring.]
ConsumeOneLoad_NoEmptyTest ==
    /\ popPc = "idle"
    /\ \E w \in Loadable(seen_write, write_index) : seen_write' = w
    /\ popPc' = "copy" /\ todo' = 1
    /\ UNCHANGED <<read_index, got, popped, pushVars>>

\* [Bug: consume_all gives back one slot, however many it consumed.]
ConsumeRelease_One ==
    /\ popPc = "release"
    /\ read_index' = next_index(read_index)
    /\ popped' = got
    /\ got' = << >>
    /\ popPc' = "idle"
    /\ UNCHANGED <<seen_write, todo, pushVars>>

\* consume_one (pop): the test for an empty ring.
ConsumeOneLoad ==
    /\ popPc = "idle"
    /\ \E w \in Loadable(seen_write, write_index) :
         /\ seen_write' = w
         /\ IF w = read_index
            THEN UNCHANGED <<popPc, todo>>                \* return false
            ELSE popPc' = "copy" /\ todo' = 1
    /\ UNCHANGED <<read_index, got, popped, pushVars>>

\* consume_all: the test for an empty ring.
ConsumeAllLoad ==
    /\ popPc = "idle"
    /\ \E w \in Loadable(seen_write, write_index) :
         /\ seen_write' = w
         /\ IF read_available(w, read_index) = 0
            THEN UNCHANGED <<popPc, todo>>                \* return 0
            ELSE popPc' = "copy" /\ todo' = read_available(w, read_index)
    /\ UNCHANGED <<read_index, got, popped, pushVars>>

\* Slot the popping thread copies next.
TakeSlot == advance(read_index, Len(got))

\* One call of the functor, on one slot.
ConsumeCopy ==
    /\ popPc = "copy"
    /\ got' = Append(got, buffer[TakeSlot])
    /\ todo' = todo - 1
    /\ popPc' = IF todo = 1 THEN "release" ELSE "copy"
    /\ UNCHANGED <<read_index, seen_write, popped, pushVars>>

\* read_index_.store(new index, release) and return.
ConsumeRelease ==
    /\ popPc = "release"
    /\ read_index' = advance(read_index, Len(got))
    /\ popped' = got
    /\ got' = << >>
    /\ popPc' = "idle"
    /\ UNCHANGED <<seen_write, todo, pushVars>>

-----------------------------------------------------------------------------
Push == (\E t \in Elems : PushLoad(t)) \/ PushCopy \/ PushPublish \/ QueryFree

Pop == ConsumeOneLoad \/ ConsumeAllLoad \/ ConsumeCopy \/ ConsumeRelease

Next == Push \/ Pop

Spec == Init /\ [][Next]_vars

-----------------------------------------------------------------------------
(* Properties.                                                              *)

\* Every variable keeps its type; in particular both indices stay inside the
\* slot array, whatever the wrap-around did.
TypeOK ==
    /\ buffer \in [Index -> Elems \cup {Empty}]
    /\ write_index \in Index /\ read_index \in Index
    /\ seen_read \in Index /\ seen_write \in Index
    /\ pushPc \in {"idle", "copy", "publish"}
    /\ arg \in Elems \cup {Empty}
    /\ free \in 0 .. MaxSize - 1
    /\ popPc \in {"idle", "copy", "release"}
    /\ todo \in Nat
    /\ got \in Seq(Elems \cup {Empty})
    /\ popped \in Seq(Elems \cup {Empty})

\* The two threads never touch the same slot at the same time, although both
\* act on possibly old values of the other's index: while push assigns a slot
\* (line 120) the functor of a pop is not reading it (lines 178-179).
NoSlotRace ==
    pushPc = "copy" /\ popPc = "copy" => write_index # TakeSlot

\* write_available never promises the pushing thread more room than there is,
\* from the query on until the thread pushes, even when its copy of read_index is
\* old: the flush threshold that flush_to_queue derives from it errs on the side of
\* flushing early.
FreeIsConservative ==
    free <= MaxSize - 1 - read_available(write_index, read_index)

\* The elements in the ring, oldest first.
contents ==
    [k \in 1 .. read_available(write_index, read_index) |->
        buffer[advance(read_index, k - 1)]]

(* Why it works, as an inductive invariant in four parts.                   *)

\* Going round from seen_read one meets read_index, then seen_write, then
\* write_index: what a thread has seen of the other is old but never wrong.
IndexOrder ==
    read_available(read_index, seen_read) + read_available(seen_write, read_index)
      + read_available(write_index, seen_write)
    = read_available(write_index, seen_read)

\* Past its test, push owns the slot at write_index and knows there is another.
PushHasRoom ==
    /\ pushPc # "idle" => arg \in Elems /\ next_index(write_index) # seen_read
    /\ pushPc = "publish" => buffer[write_index] = arg

\* A pop never goes beyond what it saw, and what it has copied is what the
\* ring still holds at its head.
PopWithinSeen ==
    /\ popPc = "idle" => got = << >>
    /\ popPc = "copy" => todo >= 1
    /\ popPc = "release" => todo = 0 /\ Len(got) >= 1
    /\ popPc # "idle" =>
         Len(got) + todo <= read_available(seen_write, read_index)
    /\ \A k \in 1 .. Len(got) : got[k] = contents[k]

\* Unread slots hold pushed elements, never the one of the constructor.
UnreadArePushed ==
    /\ contents \in Seq(Elems)
    /\ got \in Seq(Elems)
    /\ popped \in Seq(Elems)

\* The index values that both threads act on stay consistent through every
\* wrap-around and stale load; NoSlotRace and ImplementsFifo rest on it.
RingInv == TypeOK /\ IndexOrder /\ PushHasRoom /\ PopWithinSeen /\ UnreadArePushed

Fifo == INSTANCE BoundedFifo WITH Capacity <- MaxSize - 1, items <- contents

\* The ring is a bounded FIFO: a push takes effect when write_index is stored,
\* a pop or consume_all when read_index is stored; nothing is overwritten
\* before it was read, read twice, or read before it was written.
ImplementsFifo == Fifo!FifoSpec
=============================================================================
