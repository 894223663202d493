--------------------------- MODULE SpscRingProofs ---------------------------
(***************************************************************************)
(* Proofs about SpscRing for every ring size and every set of elements:    *)
(* type correctness, freedom from slot races, and that the ring implements *)
(* BoundedFifo.                                                            *)
(***************************************************************************)
EXTENDS SpscRing, SequenceTheorems, TLAPS

USE MaxSizeAssumption

-----------------------------------------------------------------------------
(* Index arithmetic.                                                        *)

\* An index that may be loaded lies between the last one seen and the current.
LEMMA LoadableBetween ==
    ASSUME NEW s \in Index, NEW n \in Index, NEW i \in Loadable(s, n)
    PROVE  /\ i \in Index
           /\ read_available(i, s) + read_available(n, i) = read_available(n, s)
BY DEF Index, Loadable, read_available

\* Distances are at most the capacity, and zero only between equal indices.
LEMMA Distance ==
    ASSUME NEW i \in Index, NEW j \in Index
    PROVE  /\ read_available(j, i) \in 0 .. MaxSize - 1
           /\ read_available(j, i) = 0 <=> i = j
           /\ advance(i, read_available(j, i)) = j
BY DEF Index, read_available, advance

\* Moving an index forward by n stays in the ring and covers a distance of n.
LEMMA Advance ==
    ASSUME NEW i \in Index, NEW n \in 0 .. MaxSize - 1
    PROVE  /\ advance(i, n) \in Index
           /\ read_available(advance(i, n), i) = n
BY DEF Index, read_available, advance

\* Two moves add up.
LEMMA AdvanceTwice ==
    ASSUME NEW i \in Index, NEW n \in 0 .. MaxSize - 1, NEW m \in 0 .. MaxSize - 1,
           n + m <= MaxSize - 1
    PROVE  advance(advance(i, n), m) = advance(i, n + m)
BY DEF Index, advance

\* What is left between two indices after the first moved towards the second.
LEMMA Remaining ==
    ASSUME NEW i \in Index, NEW j \in Index, NEW k \in Index,
           read_available(j, i) <= read_available(k, i)
    PROVE  read_available(k, j) = read_available(k, i) - read_available(j, i)
BY DEF Index, read_available

\* Four indices in cyclic order stay so when the second moves up to the third.
LEMMA MiddleMoves ==
    ASSUME NEW a \in Index, NEW b \in Index, NEW b2 \in Index,
           NEW c \in Index, NEW d \in Index,
           read_available(b, a) + read_available(c, b) + read_available(d, c)
             = read_available(d, a),
           read_available(b2, b) <= read_available(c, b)
    PROVE  read_available(b2, a) + read_available(c, b2) + read_available(d, c)
             = read_available(d, a)
BY DEF Index, read_available

\* Storing the next write index makes the ring longer by one, unless it was
\* full as seen from index i.
LEMMA NextIndex ==
    ASSUME NEW w \in Index
    PROVE  /\ next_index(w) \in Index
           /\ \A i \in Index : next_index(w) # i =>
                 read_available(next_index(w), i) = read_available(w, i) + 1
BY DEF Index, next_index, read_available

\* The unsigned subtraction that wraps is undone by the addition: the result is
\* the number of free slots but one.
LEMMA WriteAvailable ==
    ASSUME NEW w \in Index, NEW r \in Index
    PROVE  write_available(w, r) = MaxSize - 1 - read_available(w, r)
<1>1. CASE w >= r
  <2>1. (r - w - 1) % WordSize = r - w - 1 + WordSize
    BY <1>1, WordSizeAssumption DEF Index
  <2>2. (r - w - 1 + WordSize + MaxSize) % WordSize = r - w - 1 + MaxSize
    BY <1>1, WordSizeAssumption DEF Index
  <2> QED
    BY <1>1, <2>1, <2>2 DEF Index, write_available, read_available
<1>2. CASE w < r
  <2>1. (r - w - 1) % WordSize = r - w - 1
    BY <1>2, WordSizeAssumption DEF Index
  <2> QED
    BY <1>2, <2>1 DEF Index, write_available, read_available
<1> QED
  BY <1>1, <1>2 DEF Index

-----------------------------------------------------------------------------
(* The invariant holds initially.                                           *)

LEMMA InitInv == Init => RingInv
<1> SUFFICES ASSUME Init PROVE RingInv
  OBVIOUS
<1>1. MaxSize - 1 \in Index
  BY DEF Index
<1>2. TypeOK
  BY <1>1 DEF Init, TypeOK
<1>3. read_available(write_index, read_index) = 0
  BY DEF Init, read_available
<1>4. contents = << >>
  BY <1>3 DEF contents
<1>5. IndexOrder
  BY <1>1 DEF Init, IndexOrder, read_available
<1>6. PushHasRoom /\ PopWithinSeen /\ UnreadArePushed
  BY <1>4 DEF Init, PushHasRoom, PopWithinSeen, UnreadArePushed
<1> QED
  BY <1>2, <1>5, <1>6 DEF RingInv

-----------------------------------------------------------------------------
(* Every step preserves it.                                                 *)

\* Facts about the unread part of the ring that several steps need.
LEMMA Contents ==
    ASSUME RingInv
    PROVE  /\ Len(contents) = read_available(write_index, read_index)
           /\ Len(contents) \in 0 .. MaxSize - 1
           /\ \A k \in 1 .. Len(contents) :
                 contents[k] = buffer[advance(read_index, k - 1)]
           /\ read_available(write_index, read_index)
                = read_available(seen_write, read_index)
                    + read_available(write_index, seen_write)
<1> USE DEF RingInv, TypeOK
<1>1. read_available(write_index, read_index) \in 0 .. MaxSize - 1
  BY Distance
<1>2. /\ Len(contents) = read_available(write_index, read_index)
      /\ \A k \in 1 .. Len(contents) :
            contents[k] = buffer[advance(read_index, k - 1)]
  BY <1>1 DEF contents
<1>3. read_available(write_index, read_index)
        = read_available(seen_write, read_index)
            + read_available(write_index, seen_write)
  BY DEF IndexOrder, read_available, Index
<1> QED
  BY <1>1, <1>2, <1>3

\* What a pop has copied so far, and will still copy, is in the ring.
LEMMA GotInRing ==
    ASSUME RingInv
    PROVE  /\ Len(got) \in Nat /\ Len(got) <= Len(contents)
           /\ popPc # "idle" => Len(got) + todo <= Len(contents)
           /\ popPc = "copy" => Len(got) < Len(contents)
<1> USE DEF RingInv, TypeOK
<1>1. /\ read_available(write_index, seen_write) \in 0 .. MaxSize - 1
      /\ read_available(seen_write, read_index) \in 0 .. MaxSize - 1
  BY Distance
<1>2. Len(got) \in Nat /\ todo \in Nat
  OBVIOUS
<1>3. CASE popPc = "idle"
  BY <1>2, <1>3, Contents DEF PopWithinSeen
<1>4. CASE popPc # "idle"
  BY <1>1, <1>2, <1>4, Contents DEF PopWithinSeen
<1> QED
  BY <1>3, <1>4

LEMMA PushLoadInv ==
    ASSUME RingInv, NEW t \in Elems, PushLoad(t) PROVE RingInv'
<1> USE DEF RingInv, PushLoad, popVars
<1>1. PICK r \in Loadable(seen_read, read_index) :
        /\ seen_read' = r
        /\ IF next_index(write_index) = r
           THEN UNCHANGED <<pushPc, arg>>
           ELSE pushPc' = "copy" /\ arg' = t
  OBVIOUS
<1>2. /\ r \in Index
      /\ read_available(r, seen_read) + read_available(read_index, r)
           = read_available(read_index, seen_read)
  BY LoadableBetween DEF TypeOK
<1>3. TypeOK'
  BY <1>1, <1>2 DEF TypeOK
<1>4. IndexOrder'
  BY <1>1, <1>2 DEF IndexOrder, TypeOK, read_available, Index
<1>5. PushHasRoom'
  BY <1>1, <1>2 DEF PushHasRoom
<1>6. contents' = contents
  BY DEF contents
<1>7. PopWithinSeen' /\ UnreadArePushed'
  BY <1>6 DEF PopWithinSeen, UnreadArePushed
<1> QED
  BY <1>3, <1>4, <1>5, <1>7

\* The slot push assigns is outside the unread part.
LEMMA PushCopyKeeps ==
    ASSUME RingInv, PushCopy PROVE contents' = contents
<1> USE DEF RingInv, PushCopy, popVars
<1>1. \A k \in 1 .. Len(contents) :
         /\ advance(read_index, k - 1) \in Index
         /\ advance(read_index, k - 1) # write_index
  <2> TAKE k \in 1 .. Len(contents)
  <2>1. k - 1 \in 0 .. MaxSize - 1 /\ k - 1 < read_available(write_index, read_index)
    BY Contents
  <2> QED
    BY <2>1, Advance DEF TypeOK
<1>2. \A k \in 1 .. Len(contents) :
         buffer'[advance(read_index, k - 1)] = buffer[advance(read_index, k - 1)]
  BY <1>1 DEF TypeOK
<1>3. Len(contents) = read_available(write_index, read_index)
  BY Contents
<1> QED
  BY <1>2, <1>3 DEF contents

LEMMA PushCopyInv ==
    ASSUME RingInv, PushCopy PROVE RingInv'
<1> USE DEF RingInv, PushCopy, popVars
<1>1. TypeOK'
  BY DEF TypeOK
<1>2. IndexOrder'
  BY DEF IndexOrder
<1>3. PushHasRoom'
  BY DEF PushHasRoom, TypeOK
<1>4. contents' = contents
  BY PushCopyKeeps
<1>5. PopWithinSeen' /\ UnreadArePushed'
  BY <1>4 DEF PopWithinSeen, UnreadArePushed
<1> QED
  BY <1>1, <1>2, <1>3, <1>5

\* Publishing appends the new element to the unread part.
LEMMA PublishAppends ==
    ASSUME RingInv, PushPublish
    PROVE  /\ contents' = Append(contents, arg)
           /\ Len(contents) < MaxSize - 1
           /\ arg \in Elems
<1> USE DEF RingInv, PushPublish, popVars
<1>1. /\ write_index' = next_index(write_index)
      /\ next_index(write_index) # seen_read
      /\ buffer[write_index] = arg /\ arg \in Elems
  BY DEF PushHasRoom
<1>2. next_index(write_index) # read_index
  BY <1>1 DEF IndexOrder, TypeOK, Index, read_available, next_index
<1>3. read_available(write_index', read_index)
        = read_available(write_index, read_index) + 1
  BY <1>1, <1>2, NextIndex DEF TypeOK
<1>4. Len(contents) = read_available(write_index, read_index)
  BY Contents
<1>5. Len(contents) < MaxSize - 1
  BY <1>1, <1>3, <1>4, NextIndex, Distance DEF TypeOK
<1>6. advance(read_index, Len(contents)) = write_index
  BY <1>4, Distance DEF TypeOK
<1>7. contents' = Append(contents, arg)
  <2>1. contents' = [k \in 1 .. Len(contents) + 1 |->
                       buffer[advance(read_index, k - 1)]]
    BY <1>3, <1>4 DEF contents
  <2>2. contents \in Seq(Elems)
    BY DEF UnreadArePushed
  <2>3. /\ Append(contents, arg) \in Seq(Elems)
        /\ Len(Append(contents, arg)) = Len(contents) + 1
        /\ \A k \in 1 .. Len(contents) + 1 :
             Append(contents, arg)[k] = buffer[advance(read_index, k - 1)]
    BY <1>1, <1>6, <2>2, Contents
  <2>4. contents' \in Seq(Elems) /\ Len(contents') = Len(contents) + 1
    <3>1. Len(contents) + 1 \in Nat
      BY Contents
    <3> QED
      BY <2>1, <2>3, <3>1, ElementOfSeq
  <2> QED
    BY <2>1, <2>3, <2>4, SeqEqual
<1> QED
  BY <1>1, <1>5, <1>7

LEMMA PushPublishInv ==
    ASSUME RingInv, PushPublish PROVE RingInv'
<1> USE DEF RingInv, PushPublish, popVars
<1>1. TypeOK'
  BY NextIndex DEF TypeOK
<1>2. IndexOrder'
  BY DEF IndexOrder, PushHasRoom, TypeOK, Index, read_available, next_index
<1>3. PushHasRoom'
  BY DEF PushHasRoom
<1>4. /\ contents' = Append(contents, arg) /\ arg \in Elems
      /\ contents \in Seq(Elems)
  BY PublishAppends DEF UnreadArePushed
<1>5. UnreadArePushed'
  BY <1>4 DEF UnreadArePushed
<1>6. Len(got) <= Len(contents)
  BY GotInRing
<1>7. PopWithinSeen'
  BY <1>4, <1>6 DEF PopWithinSeen, TypeOK
<1> QED
  BY <1>1, <1>2, <1>3, <1>5, <1>7

LEMMA QueryFreeInv ==
    ASSUME RingInv, QueryFree PROVE RingInv'
<1> USE DEF RingInv, QueryFree, popVars
<1>1. PICK r \in Loadable(seen_read, read_index) :
        seen_read' = r /\ free' = write_available(write_index, r)
  OBVIOUS
<1>2. /\ r \in Index
      /\ read_available(r, seen_read) + read_available(read_index, r)
           = read_available(read_index, seen_read)
  BY LoadableBetween DEF TypeOK
<1>3. free' \in 0 .. MaxSize - 1
  <2>1. read_available(write_index, r) \in 0 .. MaxSize - 1
    BY <1>2, Distance DEF TypeOK
  <2>2. free' = MaxSize - 1 - read_available(write_index, r)
    BY <1>1, <1>2, WriteAvailable DEF TypeOK
  <2> QED
    BY <2>1, <2>2
<1>4. TypeOK'
  BY <1>1, <1>2, <1>3 DEF TypeOK
<1>5. IndexOrder'
  BY <1>1, <1>2 DEF IndexOrder, TypeOK, read_available, Index
<1>6. PushHasRoom'
  BY DEF PushHasRoom
<1>7. contents' = contents
  BY DEF contents
<1>8. PopWithinSeen' /\ UnreadArePushed'
  BY <1>7 DEF PopWithinSeen, UnreadArePushed
<1> QED
  BY <1>4, <1>5, <1>6, <1>8

\* Both kinds of pop begin alike: load write_index and decide how many
\* elements to take, at most as many as that shows.
LEMMA ConsumeLoadInv ==
    ASSUME RingInv, NEW w \in Loadable(seen_write, write_index),
           popPc = "idle", seen_write' = w,
           \/ UNCHANGED <<popPc, todo>>
           \/ popPc' = "copy" /\ todo' \in 1 .. read_available(w, read_index),
           UNCHANGED <<read_index, got, popped, pushVars>>
    PROVE  RingInv'
<1> USE DEF RingInv, pushVars
<1>1. /\ w \in Index
      /\ read_available(w, seen_write) + read_available(write_index, w)
           = read_available(write_index, seen_write)
  BY LoadableBetween DEF TypeOK
<1>2. read_available(w, read_index) \in Nat
  BY <1>1, Distance DEF TypeOK
<1>3. TypeOK'
  BY <1>1, <1>2 DEF TypeOK
<1>4. IndexOrder'
  BY <1>1 DEF IndexOrder, TypeOK, read_available, Index
<1>5. PushHasRoom'
  BY DEF PushHasRoom
<1>6. contents' = contents
  BY DEF contents
<1>7. got = << >>
  BY DEF PopWithinSeen
<1>8. PopWithinSeen'
  BY <1>2, <1>6, <1>7 DEF PopWithinSeen, TypeOK
<1>9. UnreadArePushed'
  BY <1>6 DEF UnreadArePushed
<1> QED
  BY <1>3, <1>4, <1>5, <1>8, <1>9

LEMMA ConsumeOneLoadInv ==
    ASSUME RingInv, ConsumeOneLoad PROVE RingInv'
<1>1. PICK w \in Loadable(seen_write, write_index) :
        /\ seen_write' = w
        /\ IF w = read_index
           THEN UNCHANGED <<popPc, todo>>
           ELSE popPc' = "copy" /\ todo' = 1
  BY DEF ConsumeOneLoad
<1>2. read_index \in Index /\ w \in Index
  BY <1>1, LoadableBetween DEF RingInv, TypeOK
<1>3. w # read_index => 1 \in 1 .. read_available(w, read_index)
  BY <1>2, Distance
<1> QED
  BY <1>1, <1>3, ConsumeLoadInv DEF ConsumeOneLoad

LEMMA ConsumeAllLoadInv ==
    ASSUME RingInv, ConsumeAllLoad PROVE RingInv'
<1>1. PICK w \in Loadable(seen_write, write_index) :
        /\ seen_write' = w
        /\ IF read_available(w, read_index) = 0
           THEN UNCHANGED <<popPc, todo>>
           ELSE popPc' = "copy" /\ todo' = read_available(w, read_index)
  BY DEF ConsumeAllLoad
<1>2. read_index \in Index /\ w \in Index
  BY <1>1, LoadableBetween DEF RingInv, TypeOK
<1>3. read_available(w, read_index) # 0 =>
        read_available(w, read_index) \in 1 .. read_available(w, read_index)
  BY <1>2, Distance
<1> QED
  BY <1>1, <1>3, ConsumeLoadInv DEF ConsumeAllLoad

LEMMA ConsumeCopyInv ==
    ASSUME RingInv, ConsumeCopy PROVE RingInv'
<1> USE DEF RingInv, ConsumeCopy, pushVars
<1>1. Len(got) \in Nat /\ Len(got) < Len(contents)
  BY GotInRing
<1>2. buffer[TakeSlot] = contents[Len(got) + 1]
  <2>1. Len(got) + 1 \in 1 .. Len(contents)
    BY <1>1, Contents
  <2>2. contents[Len(got) + 1] = buffer[advance(read_index, Len(got) + 1 - 1)]
    BY <2>1, Contents
  <2> QED
    BY <1>1, <2>2 DEF TakeSlot
<1>3. contents[Len(got) + 1] \in Elems
  BY <1>1 DEF UnreadArePushed
<1>4. /\ got' = Append(got, contents[Len(got) + 1])
      /\ got' \in Seq(Elems)
      /\ Len(got') = Len(got) + 1
      /\ \A k \in 1 .. Len(got') : got'[k] = contents[k]
  BY <1>1, <1>2, <1>3 DEF UnreadArePushed, PopWithinSeen
<1>5. contents' = contents
  BY DEF contents
<1>6. TypeOK'
  BY <1>4 DEF TypeOK, PopWithinSeen
<1>7. IndexOrder' /\ PushHasRoom'
  BY DEF IndexOrder, PushHasRoom
<1>8. PopWithinSeen'
  <2>1. todo \in Nat /\ todo >= 1
    BY DEF TypeOK, PopWithinSeen
  <2>2. read_available(seen_write, read_index) \in Nat
    BY Distance DEF TypeOK
  <2> QED
    BY <1>1, <1>4, <1>5, <2>1, <2>2 DEF PopWithinSeen
<1>9. UnreadArePushed'
  BY <1>4, <1>5 DEF UnreadArePushed
<1> QED
  BY <1>6, <1>7, <1>8, <1>9

\* Storing read_index drops exactly what was copied from the unread part.
LEMMA ReleaseTakes ==
    ASSUME RingInv, ConsumeRelease
    PROVE  /\ Len(got) \in 1 .. Len(contents)
           /\ got = SubSeq(contents, 1, Len(got))
           /\ contents' = SubSeq(contents, Len(got) + 1, Len(contents))
           /\ read_index' \in Index
           /\ read_available(read_index', read_index) = Len(got)
           /\ Len(got) <= read_available(seen_write, read_index)
<1> USE DEF RingInv, ConsumeRelease, pushVars
<1> DEFINE n == Len(got)
<1>1. n \in 1 .. Len(contents) /\ n <= read_available(seen_write, read_index)
  <2>1. n \in Nat /\ n <= Len(contents)
    BY GotInRing
  <2>2. read_available(seen_write, read_index) \in Nat
    BY Distance DEF TypeOK
  <2> QED
    BY <2>1, <2>2, Contents DEF PopWithinSeen
<1>2. n \in 0 .. MaxSize - 1
  BY <1>1, Contents
<1>3. read_index' \in Index /\ read_available(read_index', read_index) = n
  BY <1>2, Advance DEF TypeOK
<1>4. contents \in Seq(Elems) /\ got \in Seq(Elems)
  BY DEF UnreadArePushed
<1>5. got = SubSeq(contents, 1, n)
  <2>1. /\ SubSeq(contents, 1, n) \in Seq(Elems)
        /\ Len(SubSeq(contents, 1, n)) = n
        /\ \A k \in 1 .. n : SubSeq(contents, 1, n)[k] = contents[k]
    BY <1>1, <1>4
  <2> QED
    BY <1>1, <1>4, <2>1, SeqEqual DEF PopWithinSeen
<1>6. read_available(write_index, read_index') = Len(contents) - n
  <2>1. read_available(read_index', read_index) = n
    BY <1>3
  <2>2. n <= read_available(write_index, read_index)
    BY <1>1, Contents
  <2> QED
    BY <1>3, <2>1, <2>2, Contents, Remaining DEF TypeOK
<1>7. contents' = SubSeq(contents, n + 1, Len(contents))
  <2> DEFINE m == Len(contents) - n
             rest == SubSeq(contents, n + 1, Len(contents))
  <2>1. m \in Nat /\ n + m = Len(contents)
    BY <1>1, Contents
  <2>2. contents' = [k \in 1 .. m |-> buffer[advance(read_index', k - 1)]]
    BY <1>6 DEF contents
  <2>3. rest \in Seq(Elems) /\ Len(rest) = m
        /\ \A k \in 1 .. m : rest[k] = contents[n + k]
    BY <1>1, <1>4, <2>1
  <2>4. \A k \in 1 .. m : contents[n + k] = buffer[advance(read_index', k - 1)]
    <3> TAKE k \in 1 .. m
    <3>1. n + k \in 1 .. Len(contents)
      BY <1>1, <2>1
    <3>2. contents[n + k] = buffer[advance(read_index, n + k - 1)]
      BY <3>1, Contents
    <3>3. k - 1 \in 0 .. MaxSize - 1 /\ n + (k - 1) <= MaxSize - 1
      BY <1>1, <2>1, Contents
    <3>4. advance(read_index', k - 1) = advance(read_index, n + (k - 1))
      BY <1>2, <3>3, AdvanceTwice DEF TypeOK
    <3> QED
      BY <1>1, <3>2, <3>4
  <2>5. contents' \in Seq(Elems) /\ Len(contents') = m
    <3>1. \A k \in 1 .. m : buffer[advance(read_index', k - 1)] \in Elems
      <4> TAKE k \in 1 .. m
      <4>1. rest[k] \in Elems
        BY <2>3
      <4> QED
        BY <2>3, <2>4, <4>1
    <3> QED
      BY <2>1, <2>2, <3>1, ElementOfSeq
  <2> HIDE DEF m, rest
  <2>6. \A k \in 1 .. m : contents'[k] = rest[k]
    BY <2>2, <2>3, <2>4
  <2>7. contents' = rest
    BY <2>3, <2>5, <2>6, SeqEqual
  <2> QED
    BY <2>7 DEF rest
<1> QED
  BY <1>1, <1>3, <1>5, <1>7

LEMMA ConsumeReleaseInv ==
    ASSUME RingInv, ConsumeRelease PROVE RingInv'
<1> USE DEF RingInv, ConsumeRelease, pushVars
<1>1. /\ Len(got) \in 1 .. Len(contents)
      /\ contents' = SubSeq(contents, Len(got) + 1, Len(contents))
      /\ read_index' \in Index
      /\ read_available(read_index', read_index) = Len(got)
      /\ Len(got) <= read_available(seen_write, read_index)
  BY ReleaseTakes
<1>2. contents' \in Seq(Elems)
  BY <1>1 DEF UnreadArePushed
<1>3. TypeOK'
  BY <1>1 DEF TypeOK
<1>4. IndexOrder'
  BY <1>1, MiddleMoves DEF IndexOrder, TypeOK
<1>5. PushHasRoom' /\ PopWithinSeen'
  BY DEF PushHasRoom, PopWithinSeen
<1>6. UnreadArePushed'
  BY <1>2 DEF UnreadArePushed
<1> QED
  BY <1>3, <1>4, <1>5, <1>6

-----------------------------------------------------------------------------
(* The theorems.                                                            *)

LEMMA StepInv == RingInv /\ [Next]_vars => RingInv'
<1> SUFFICES ASSUME RingInv, [Next]_vars PROVE RingInv'
  OBVIOUS
<1>1. CASE \E t \in Elems : PushLoad(t)
  BY <1>1, PushLoadInv
<1>2. CASE PushCopy
  BY <1>2, PushCopyInv
<1>3. CASE PushPublish
  BY <1>3, PushPublishInv
<1>4. CASE QueryFree
  BY <1>4, QueryFreeInv
<1>5. CASE ConsumeOneLoad
  BY <1>5, ConsumeOneLoadInv
<1>6. CASE ConsumeAllLoad
  BY <1>6, ConsumeAllLoadInv
<1>7. CASE ConsumeCopy
  BY <1>7, ConsumeCopyInv
<1>8. CASE ConsumeRelease
  BY <1>8, ConsumeReleaseInv
<1>9. CASE UNCHANGED vars
  BY <1>9 DEF vars, RingInv, TypeOK, IndexOrder, PushHasRoom, PopWithinSeen,
              UnreadArePushed, contents
<1> QED
  BY <1>1, <1>2, <1>3, <1>4, <1>5, <1>6, <1>7, <1>8, <1>9 DEF Next, Push, Pop

\* The ring's invariant holds in every reachable state, for every ring size.
THEOREM RingInvariant == Spec => []RingInv
<1>1. Init => RingInv
  BY InitInv
<1>2. RingInv /\ [Next]_vars => RingInv'
  BY StepInv
<1> QED
  BY <1>1, <1>2, PTL DEF Spec

\* The indices stay inside the slot array and every variable keeps its type.
THEOREM TypeCorrect == Spec => []TypeOK
<1>1. RingInv => TypeOK
  BY DEF RingInv
<1> QED
  BY <1>1, RingInvariant, PTL

\* No slot is ever assigned by push while a pop is reading it.
THEOREM NoRace == Spec => []NoSlotRace
<1>1. RingInv => NoSlotRace
  <2> SUFFICES ASSUME RingInv, pushPc = "copy", popPc = "copy"
               PROVE  write_index # TakeSlot
    BY DEF NoSlotRace
  <2>1. Len(got) \in 0 .. MaxSize - 1
        /\ Len(got) < read_available(write_index, read_index)
    BY GotInRing, Contents
  <2> QED
    BY <2>1, Advance DEF RingInv, TypeOK, TakeSlot
<1> QED
  BY <1>1, RingInvariant, PTL

\* A query of write_available, with an index that may be old, is right for now.
LEMMA QueryIsConservative ==
    ASSUME RingInv, QueryFree PROVE FreeIsConservative'
<1>1. PICK r \in Loadable(seen_read, read_index) :
        free' = write_available(write_index, r)
  BY DEF QueryFree
<1>2. /\ r \in Index
      /\ read_available(r, seen_read) + read_available(read_index, r)
           = read_available(read_index, seen_read)
  BY LoadableBetween DEF RingInv, TypeOK
<1>3. free' = MaxSize - 1 - read_available(write_index, r)
  BY <1>1, <1>2, WriteAvailable DEF RingInv, TypeOK
<1>4. read_available(write_index, read_index) <= read_available(write_index, r)
  BY <1>2 DEF RingInv, TypeOK, IndexOrder, Index, read_available
<1>5. UNCHANGED <<write_index, read_index>>
  BY DEF QueryFree, popVars
<1>6. /\ read_available(write_index, read_index) \in Int
      /\ read_available(write_index, r) \in Int
  BY <1>2, Distance DEF RingInv, TypeOK
<1> QED
  BY <1>3, <1>4, <1>5, <1>6 DEF FreeIsConservative, read_available

\* write_available never overstates the room in the ring: what it told the
\* pushing thread stays true while the other one pops, until the next push.
THEOREM FreeConservative == Spec => []FreeIsConservative
<1>1. Init => FreeIsConservative
  BY DEF Init, FreeIsConservative, read_available
<1>2. RingInv /\ RingInv' /\ FreeIsConservative /\ [Next]_vars => FreeIsConservative'
  <2> SUFFICES ASSUME RingInv, RingInv', FreeIsConservative, [Next]_vars
               PROVE  FreeIsConservative'
    OBVIOUS
  <2>1. CASE QueryFree
    BY <2>1, QueryIsConservative
  <2>2. CASE PushPublish
    <3>1. read_available(write_index', read_index') \in 0 .. MaxSize - 1
      BY Distance DEF RingInv, TypeOK
    <3> QED
      BY <2>2, <3>1 DEF PushPublish, FreeIsConservative, read_available
  <2>3. CASE ConsumeRelease
    <3>1. /\ Len(got) \in 1 .. Len(contents)
          /\ contents' = SubSeq(contents, Len(got) + 1, Len(contents))
      BY <2>3, ReleaseTakes
    <3>2. /\ Len(contents) = read_available(write_index, read_index)
          /\ Len(contents) \in 0 .. MaxSize - 1
      BY Contents
    <3>3. Len(contents') = read_available(write_index', read_index')
      <4>1. \A w, r \in Index : read_available(w, r) \in Nat
        BY Distance
      <4> QED
        BY <4>1 DEF RingInv, TypeOK, contents, read_available
    <3>4. Len(contents') <= Len(contents)
      BY <3>1, <3>2
    <3>5. free' = free /\ free \in Int
      BY <2>3 DEF ConsumeRelease, pushVars, RingInv, TypeOK
    <3> QED
      BY <3>2, <3>3, <3>4, <3>5 DEF FreeIsConservative, read_available
  <2>4. CASE ~ QueryFree /\ ~ PushPublish /\ ~ ConsumeRelease
    <3>1. UNCHANGED <<free, write_index, read_index>>
      BY <2>4 DEF Next, Push, Pop, PushLoad, PushCopy, ConsumeOneLoad,
                  ConsumeAllLoad, ConsumeCopy, pushVars, popVars, vars
    <3> QED
      BY <3>1 DEF FreeIsConservative, read_available
  <2> QED
    BY <2>1, <2>2, <2>3, <2>4
<1> QED
  BY <1>1, <1>2, RingInvariant, PTL DEF Spec

\* The ring implements the bounded FIFO.
THEOREM Refinement == Spec => ImplementsFifo
<1>1. Init => Fifo!FifoInit
  <2> SUFFICES ASSUME Init PROVE Fifo!FifoInit
    OBVIOUS
  <2>1. read_available(write_index, read_index) = 0
    BY DEF Init, read_available
  <2>2. contents = << >>
    BY <2>1 DEF contents
  <2> QED
    BY <2>2 DEF Init, Fifo!FifoInit
<1>2. RingInv /\ [Next]_vars => [Fifo!FifoNext]_(Fifo!fifoVars)
  <2> SUFFICES ASSUME RingInv, [Next]_vars
               PROVE  Fifo!FifoNext \/ UNCHANGED <<contents, popped>>
    BY DEF Fifo!fifoVars
  <2>1. CASE PushPublish
    <3>1. /\ contents' = Append(contents, arg)
          /\ Len(contents) < MaxSize - 1 /\ arg \in Elems
      BY <2>1, PublishAppends
    <3>2. Fifo!Put(arg)
      BY <2>1, <3>1 DEF Fifo!Put, PushPublish, popVars
    <3> QED
      BY <3>1, <3>2 DEF Fifo!FifoNext
  <2>2. CASE ConsumeRelease
    <3>1. /\ Len(got) \in 1 .. Len(contents)
          /\ got = SubSeq(contents, 1, Len(got))
          /\ contents' = SubSeq(contents, Len(got) + 1, Len(contents))
      BY <2>2, ReleaseTakes
    <3>2. Len(got) \in 1 .. MaxSize - 1 /\ Len(got) <= Len(contents)
      BY <3>1, Contents
    <3>3. Fifo!Take(Len(got))
      BY <2>2, <3>1, <3>2 DEF Fifo!Take, ConsumeRelease
    <3> QED
      BY <3>2, <3>3 DEF Fifo!FifoNext
  <2>3. CASE PushCopy
    <3>1. RingInv'
      BY <2>3, PushCopyInv
    <3>2. contents' = contents
      BY <2>3, PushCopyKeeps
    <3> QED
      BY <2>3, <3>2 DEF PushCopy, popVars
  <2>4. CASE ~ PushPublish /\ ~ ConsumeRelease /\ ~ PushCopy
    <3>1. UNCHANGED <<buffer, write_index, read_index, popped>>
      BY <2>4 DEF Next, Push, Pop, PushLoad, QueryFree, ConsumeOneLoad,
                  ConsumeAllLoad, ConsumeCopy, pushVars, popVars, vars
    <3> QED
      BY <3>1 DEF contents
  <2> QED
    BY <2>1, <2>2, <2>3, <2>4
<1> QED
  BY <1>1, <1>2, RingInvariant, PTL DEF Spec, ImplementsFifo, Fifo!FifoSpec
=============================================================================
