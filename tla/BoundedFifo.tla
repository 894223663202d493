---------------------------- MODULE BoundedFifo ----------------------------
(***************************************************************************)
(* What a lock-free single-producer / single-consumer queue promises to    *)
(* its two threads: a FIFO that never holds more than Capacity elements,   *)
(* loses none, duplicates none and hands them over in the order in which   *)
(* they were pushed.  SpscRing is the ring buffer that implements it.      *)
(***************************************************************************)
EXTENDS Naturals, Sequences

CONSTANTS Capacity,   \* the template argument lf::capacity<N>
          Elems       \* what can be queued

VARIABLES items,   \* pushed and not yet popped, oldest first
          popped   \* the batch the last pop / consume_all handed over

fifoVars == <<items, popped>>

FifoTypeOK ==
    /\ items \in Seq(Elems)
    /\ Len(items) <= Capacity
    /\ popped \in Seq(Elems)

FifoInit ==
    /\ items = << >>
    /\ popped = << >>

Put(e) ==
    /\ Len(items) < Capacity
    /\ items' = Append(items, e)
    /\ UNCHANGED popped

\* pop and consume_one take one element, consume_all takes all it sees.
Take(n) ==
    /\ n <= Len(items)
    /\ popped' = SubSeq(items, 1, n)
    /\ items' = SubSeq(items, n + 1, Len(items))

FifoNext ==
    \/ \E e \in Elems : Put(e)
    \/ \E n \in 1..Capacity : Take(n)

FifoSpec == FifoInit /\ [][FifoNext]_fifoVars
=============================================================================
