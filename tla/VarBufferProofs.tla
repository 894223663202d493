-------------------------- MODULE VarBufferProofs --------------------------
(***************************************************************************)
(* Proofs about VarBuffer for every number of blocks, block size, mode,    *)
(* use of flush_to_queue and staleness of the ring indices.                *)
(***************************************************************************)
EXTENDS VarBuffer, SequenceTheorems, TLAPS

USE SizesAssumption, ModeAssumption

-----------------------------------------------------------------------------
(* Ranges of sequences.                                                     *)

LEMMA RangeOfUnit ==
    ASSUME NEW S, NEW e \in S PROVE Range(<<e>>) = {e} /\ <<e>> \in Seq(S)
BY DEF Range

LEMMA RangeOfEmpty ==
    ASSUME NEW S, NEW s \in Seq(S), Len(s) = 0
    PROVE  s = << >> /\ Range(s) = {}
BY DEF Range

LEMMA UnitOfLength ==
    ASSUME NEW S, NEW s \in Seq(S), Len(s) = 1
    PROVE  s[1] \in S /\ Range(s) = {s[1]} /\ s = <<s[1]>>
<1>1. s[1] \in S /\ Range(s) = {s[1]}
  BY DEF Range
<1>2. s = <<s[1]>>
  OBVIOUS
<1> QED
  BY <1>1, <1>2

LEMMA RangeOfAppend ==
    ASSUME NEW S, NEW s \in Seq(S), NEW e \in S
    PROVE  Range(Append(s, e)) = Range(s) \cup {e}
<1>1. Append(s, e) = s \o <<e>>
  BY AppendIsConcat
<1>2. <<e>> \in Seq(S) /\ Range(<<e>>) = {e}
  BY RangeOfUnit
<1>3. Range(s \o <<e>>) = Range(s) \cup Range(<<e>>)
  <2> DEFINE unit == <<e>>
  <2>1. unit \in Seq(S)
    BY <1>2
  <2> HIDE DEF unit
  <2>2. Range(s \o unit) = Range(s) \cup Range(unit)
    BY <2>1, RangeConcatenation
  <2> QED
    BY <2>2 DEF unit
<1> QED
  BY <1>1, <1>2, <1>3

\* Splitting a sequence in two neither adds nor loses elements.
LEMMA RangeOfSplit ==
    ASSUME NEW S, NEW s \in Seq(S), NEW n \in 0 .. Len(s)
    PROVE  /\ SubSeq(s, 1, n) \in Seq(S) /\ Len(SubSeq(s, 1, n)) = n
           /\ SubSeq(s, n + 1, Len(s)) \in Seq(S)
           /\ Len(SubSeq(s, n + 1, Len(s))) = Len(s) - n
           /\ Range(s) = Range(SubSeq(s, 1, n)) \cup Range(SubSeq(s, n + 1, Len(s)))
<1>1. /\ SubSeq(s, 1, n) \in Seq(S) /\ Len(SubSeq(s, 1, n)) = n
      /\ SubSeq(s, n + 1, Len(s)) \in Seq(S)
      /\ Len(SubSeq(s, n + 1, Len(s))) = Len(s) - n
  OBVIOUS
<1>2. s = SubSeq(s, 1, n) \o SubSeq(s, n + 1, Len(s))
  <2>1. /\ 1 \in 1 .. Len(s) + 1 /\ n \in 1 - 1 .. Len(s) /\ Len(s) \in n .. Len(s)
    OBVIOUS
  <2>2. SubSeq(s, 1, n) \o SubSeq(s, n + 1, Len(s)) = SubSeq(s, 1, Len(s))
    BY <2>1, ConcatAdjacentSubSeq
  <2> QED
    BY <2>2, SubSeqFull
<1>3. Range(SubSeq(s, 1, n) \o SubSeq(s, n + 1, Len(s)))
        = Range(SubSeq(s, 1, n)) \cup Range(SubSeq(s, n + 1, Len(s)))
  <2> DEFINE front == SubSeq(s, 1, n)
             back == SubSeq(s, n + 1, Len(s))
  <2>1. front \in Seq(S) /\ back \in Seq(S)
    BY <1>1
  <2> HIDE DEF front, back
  <2>2. Range(front \o back) = Range(front) \cup Range(back)
    BY <2>1, RangeConcatenation
  <2> QED
    BY <2>2 DEF front, back
<1> QED
  BY <1>1, <1>2, <1>3

LEMMA RangeOfHeadTail ==
    ASSUME NEW S, NEW s \in Seq(S), s # << >>
    PROVE  /\ Head(s) \in S /\ Tail(s) \in Seq(S) /\ Len(Tail(s)) = Len(s) - 1
           /\ Range(s) = {Head(s)} \cup Range(Tail(s))
<1>1. /\ Head(s) \in S /\ Tail(s) \in Seq(S) /\ Len(Tail(s)) = Len(s) - 1
      /\ \A i \in 1 .. Len(s) - 1 : Tail(s)[i] = s[i + 1]
      /\ Head(s) = s[1]
  OBVIOUS
<1>2. /\ Range(s) = {s[i] : i \in 1 .. Len(s)}
      /\ Range(Tail(s)) = {Tail(s)[i] : i \in 1 .. Len(s) - 1}
  <2>1. DOMAIN s = 1 .. Len(s) /\ DOMAIN Tail(s) = 1 .. Len(s) - 1
    BY <1>1
  <2> QED
    BY <2>1 DEF Range
<1>3. \A i \in 1 .. Len(s) : i = 1 \/ (i - 1 \in 1 .. Len(s) - 1 /\ s[i] = Tail(s)[i - 1])
  <2> TAKE i \in 1 .. Len(s)
  <2>1. CASE i # 1
    <3>1. i - 1 \in 1 .. Len(s) - 1 /\ (i - 1) + 1 = i
      BY <2>1
    <3> QED
      BY <1>1, <3>1
  <2> QED
    BY <2>1
<1>4. 1 \in 1 .. Len(s) /\ \A i \in 1 .. Len(s) - 1 : i + 1 \in 1 .. Len(s)
  OBVIOUS
<1>5. \A x \in Range(s) : x = Head(s) \/ x \in Range(Tail(s))
  BY <1>1, <1>2, <1>3
<1>6. \A x \in Range(Tail(s)) : x \in Range(s)
  BY <1>1, <1>2, <1>4
<1> QED
  BY <1>1, <1>2, <1>4, <1>5, <1>6

LEMMA RangeOfFrontLast ==
    ASSUME NEW S, NEW s \in Seq(S), s # << >>
    PROVE  /\ Last(s) \in S /\ Front(s) \in Seq(S) /\ Len(Front(s)) = Len(s) - 1
           /\ Range(s) = Range(Front(s)) \cup {Last(s)}
<1> DEFINE n == Len(s) - 1
<1>1. n \in 0 .. Len(s) /\ n + 1 = Len(s)
  OBVIOUS
<1>2. /\ Last(s) \in S
      /\ SubSeq(s, Len(s), Len(s)) \in Seq(S)
      /\ Len(SubSeq(s, Len(s), Len(s))) = 1
      /\ SubSeq(s, Len(s), Len(s))[1] = Last(s)
  BY DEF Last
<1>3. Range(SubSeq(s, Len(s), Len(s))) = {Last(s)}
  BY <1>2, UnitOfLength
<1> QED
  BY <1>1, <1>2, <1>3, RangeOfSplit DEF Front

-----------------------------------------------------------------------------
(* The invariant holds initially.                                           *)

LEMMA InitInv == Init => BlockInv
<1> SUFFICES ASSUME Init PROVE BlockInv
  OBVIOUS
<1> USE DEF Init
<1>1. /\ pool \in Seq(Blocks) /\ Len(pool) = NumBlocks - 1
      /\ current \in Blocks
  BY DEF Blocks
<1>2. TypeOK
  BY <1>1 DEF TypeOK, QueueCapacity
<1>3. BlockCount
  BY <1>1 DEF BlockCount
<1>4. BlocksCovered
  <2>1. \A b \in Blocks : b = current \/ b \in Range(pool)
    BY DEF Blocks, Range
  <2> QED
    BY <2>1 DEF BlocksCovered
<1>5. ControlInv /\ NeverThrows /\ ReportedSpace
  BY DEF ControlInv, NeverThrows, ReportedSpace, QueueCapacity
<1> QED
  BY <1>2, <1>3, <1>4, <1>5 DEF BlockInv, OneOwner

-----------------------------------------------------------------------------
(* Every step preserves it.                                                 *)

\* The lengths of all sequences are naturals, and what is in the read queue,
\* the write queue and the hands of both threads fits beside the current block.
LEMMA Lengths ==
    ASSUME BlockInv
    PROVE  /\ Len(newBlock) \in Nat /\ Len(pool) \in Nat /\ Len(readQ) \in Nat
           /\ Len(block) \in Nat /\ Len(writeQ) \in Nat
           /\ Len(newBlock) + Len(readQ) + Len(block) + Len(writeQ) <= NumBlocks - 1
BY DEF BlockInv, TypeOK, OneOwner, BlockCount

\* A stale index hides at most the blocks the producer has not got back.
LEMMA Unseen ==
    ASSUME BlockInv, NEW u \in UnseenPops
    PROVE  u \in Nat /\ u <= Len(writeQ) + Len(block)
BY Lengths DEF UnseenPops

LEMMA AddElemInv ==
    ASSUME BlockInv, AddElem PROVE BlockInv'
<1> USE DEF BlockInv, AddElem, consVars
<1>1. next \in 1 .. MaxSamples /\ content[current] \in Seq(1 .. MaxSamples)
  BY DEF TypeOK
<1>2. /\ Append(content[current], next) \in Seq(1 .. MaxSamples)
      /\ Len(Append(content[current], next)) = Len(content[current]) + 1
  BY <1>1
<1>3. TypeOK'
  <2>1. content' \in [Blocks -> Seq(1 .. MaxSamples)]
    BY <1>2 DEF TypeOK
  <2>2. \A b \in Blocks : Len(content'[b]) <= BlockSize
    BY <1>1, <1>2 DEF TypeOK
  <2> QED
    BY <1>1, <2>1, <2>2 DEF TypeOK
<1>4. OneOwner'
  BY DEF OneOwner, BlockCount, BlocksCovered
<1>5. ControlInv' /\ NeverThrows' /\ ReportedSpace'
  BY DEF ControlInv, NeverThrows, ReportedSpace
<1> QED
  BY <1>3, <1>4, <1>5

LEMMA FlushBeginInv ==
    ASSUME BlockInv, NEW who \in {"add_elem", "owner"}, FlushBegin(who),
           who = "add_elem" => next <= MaxSamples
    PROVE  BlockInv'
<1> USE DEF BlockInv, FlushBegin, consVars
<1>1. PICK u \in UnseenPops : freeSpace' = QueueCapacity - (Len(readQ) + u)
  OBVIOUS
<1>2. freeSpace' \in 0 .. QueueCapacity /\ freeSpace' <= QueueCapacity - Len(readQ)
  <2>1. u \in Nat /\ u <= Len(writeQ) + Len(block)
    BY Unseen
  <2>2. /\ Len(newBlock) \in Nat /\ Len(readQ) \in Nat
        /\ Len(block) \in Nat /\ Len(writeQ) \in Nat /\ NumBlocks \in Nat
        /\ Len(newBlock) + Len(readQ) + Len(block) + Len(writeQ) <= NumBlocks - 1
    BY Lengths, SizesAssumption
  <2> HIDE DEF BlockInv, FlushBegin
  <2> QED
    BY <1>1, <2>1, <2>2 DEF QueueCapacity
<1>3. TypeOK'
  BY <1>2 DEF TypeOK
<1>4. OneOwner'
  BY DEF OneOwner, BlockCount, BlocksCovered
<1>5. ControlInv' /\ NeverThrows' /\ ReportedSpace'
  BY <1>2 DEF ControlInv, NeverThrows, ReportedSpace
<1> QED
  BY <1>3, <1>4, <1>5

\* Moving the first n blocks of the write queue to the pool loses none.
LEMMA Refill ==
    ASSUME BlockInv, NEW n \in 0 .. Len(writeQ)
    PROVE  LET all == pool \o SubSeq(writeQ, 1, n)
               left == SubSeq(writeQ, n + 1, Len(writeQ))
           IN  /\ all \in Seq(Blocks) /\ Len(all) = Len(pool) + n
               /\ left \in Seq(Blocks) /\ Len(left) = Len(writeQ) - n
               /\ Range(all) \cup Range(left) = Range(pool) \cup Range(writeQ)
<1> DEFINE back == SubSeq(writeQ, 1, n)
           left == SubSeq(writeQ, n + 1, Len(writeQ))
<1>1. pool \in Seq(Blocks) /\ writeQ \in Seq(Blocks)
  BY DEF BlockInv, TypeOK
<1>2. /\ back \in Seq(Blocks) /\ Len(back) = n
      /\ left \in Seq(Blocks) /\ Len(left) = Len(writeQ) - n
      /\ Range(writeQ) = Range(back) \cup Range(left)
  BY <1>1, RangeOfSplit
<1> HIDE DEF back
<1>3. /\ pool \o back \in Seq(Blocks) /\ Len(pool \o back) = Len(pool) + Len(back)
      /\ Range(pool \o back) = Range(pool) \cup Range(back)
  BY <1>1, <1>2, RangeConcatenation, ConcatProperties
<1> HIDE DEF left
<1>4. /\ pool \o back \in Seq(Blocks) /\ Len(pool \o back) = Len(pool) + n
      /\ left \in Seq(Blocks) /\ Len(left) = Len(writeQ) - n
      /\ Range(pool \o back) \cup Range(left) = Range(pool) \cup Range(writeQ)
  BY <1>2, <1>3
<1> QED
  BY <1>4 DEF back, left

LEMMA GetNewBlockInv ==
    ASSUME BlockInv, GetNewBlock PROVE BlockInv'
<1> USE DEF BlockInv, GetNewBlock, consVars
<1>1. PICK n \in Seen(Len(writeQ)) :
        LET all == pool \o SubSeq(writeQ, 1, n)
        IN  /\ writeQ' = SubSeq(writeQ, n + 1, Len(writeQ))
            /\ IF all = << >>
               THEN /\ prodPc' = IF Circular THEN "steal" ELSE ReturnPc
                    /\ UNCHANGED <<content, pool, newBlock>>
               ELSE /\ newBlock' = <<Last(all)>>
                    /\ content' = [content EXCEPT ![Last(all)] = << >>]
                    /\ pool' = Front(all)
                    /\ prodPc' = "push"
  OBVIOUS
<1> DEFINE all == pool \o SubSeq(writeQ, 1, n)
<1>2. n \in 0 .. Len(writeQ)
  BY Lengths DEF Seen
<1>3. /\ all \in Seq(Blocks) /\ Len(all) = Len(pool) + n
      /\ writeQ' \in Seq(Blocks) /\ Len(writeQ') = Len(writeQ) - n
      /\ Range(all) \cup Range(writeQ') = Range(pool) \cup Range(writeQ)
  BY <1>1, <1>2, Refill
<1>4. newBlock = << >>
  BY DEF ControlInv, TypeOK
<1>5. /\ prodPc = "get"
      /\ UNCHANGED <<current, readQ, next, caller, freeSpace, consPc, block, delivered>>
  OBVIOUS
<1>6. CASE all = << >>
  <2>1. UNCHANGED <<content, pool, newBlock>>
        /\ prodPc' = IF Circular THEN "steal" ELSE ReturnPc
    BY <1>1, <1>6
  <2>2. Len(pool) = 0 /\ n = 0 /\ pool = << >>
    <3>1. Len(pool) + n = 0
      BY <1>3, <1>6
    <3>2. Len(pool) = 0 /\ n = 0
      BY <1>2, <3>1, Lengths
    <3>3. pool \in Seq(Blocks)
      BY DEF TypeOK
    <3> HIDE DEF BlockInv, GetNewBlock
    <3> QED
      BY <3>2, <3>3, EmptySeq
  <2>3. writeQ' = writeQ
    <3>1. writeQ' = SubSeq(writeQ, n + 1, Len(writeQ)) /\ n + 1 = 1
      BY <1>1, <2>2
    <3>2. writeQ \in Seq(Blocks)
      BY DEF TypeOK
    <3> HIDE DEF BlockInv, GetNewBlock
    <3> QED
      BY <3>1, <3>2, SubSeqFull
  <2>4. TypeOK'
    BY <2>1, <2>3 DEF TypeOK, ReturnPc
  <2>5. OneOwner'
    BY <2>1, <2>3 DEF OneOwner, BlockCount, BlocksCovered
  <2>6. ControlInv' /\ NeverThrows' /\ ReportedSpace'
    BY <2>1, <2>2, <2>3 DEF ControlInv, NeverThrows, ReportedSpace, ReturnPc, TypeOK
  <2> QED
    BY <2>4, <2>5, <2>6
<1>7. CASE all # << >>
  <2> DEFINE b == Last(all)
  <2>1. /\ newBlock' = <<b>> /\ pool' = Front(all) /\ prodPc' = "push"
        /\ content' = [content EXCEPT ![b] = << >>]
    BY <1>1, <1>7
  <2>2. /\ b \in Blocks /\ pool' \in Seq(Blocks) /\ Len(pool') = Len(all) - 1
        /\ Range(all) = Range(pool') \cup {b}
    BY <1>3, <1>7, <2>1, RangeOfFrontLast
  <2>3. newBlock' \in Seq(Blocks) /\ Len(newBlock') = 1 /\ Range(newBlock') = {b}
    BY <2>1, <2>2, RangeOfUnit
  <2> HIDE DEF b, all, GetNewBlock
  <2>4. TypeOK'
    <3>1. /\ content' \in [Blocks -> Seq(1 .. MaxSamples)]
          /\ \A c \in Blocks : Len(content'[c]) <= BlockSize
      <4>1. \A c \in Blocks : content'[c] = IF c = b THEN << >> ELSE content[c]
        BY <2>1, <2>2 DEF TypeOK
      <4>2. content' \in [Blocks -> Seq(1 .. MaxSamples)]
        BY <2>1, <2>2 DEF TypeOK
      <4> QED
        BY <4>1, <4>2 DEF TypeOK
    <3> QED
      BY <1>3, <1>5, <2>1, <2>2, <2>3, <3>1 DEF TypeOK
  <2>5. BlockCount'
    <3>1. Len(newBlock) = 0
      BY <1>4
    <3>2. Len(pool') + Len(writeQ') = Len(pool) + Len(writeQ) - 1
      BY <1>2, <1>3, <2>2, Lengths
    <3>3. Len(pool') \in Nat /\ Len(writeQ') \in Nat
      BY <1>3, <2>2
    <3> QED
      BY <1>5, <2>3, <3>1, <3>2, <3>3, Lengths DEF OneOwner, BlockCount
  <2>6. BlocksCovered'
    <3>1. Range(newBlock) = {}
      BY <1>4 DEF Range
    <3> QED
      BY <1>3, <1>5, <2>2, <2>3, <3>1 DEF OneOwner, BlocksCovered
  <2>7. Circular => writeQ' = << >>
    BY <1>1, <1>3, Lengths DEF ControlInv
  <2>8. ControlInv' /\ ReportedSpace'
    BY <1>5, <2>1, <2>3, <2>7 DEF ControlInv, ReportedSpace
  <2>9. NeverThrows'
    BY <1>2, <1>3, <1>5, <2>1, Lengths DEF NeverThrows, QueueCapacity
  <2> QED
    BY <2>4, <2>5, <2>6, <2>8, <2>9 DEF OneOwner
<1> QED
  BY <1>6, <1>7

LEMMA StealOldestInv ==
    ASSUME BlockInv, StealOldest PROVE BlockInv'
<1> USE DEF BlockInv, StealOldest, consVars
<1>1. /\ newBlock = << >> /\ pool = << >> /\ writeQ = << >> /\ block = << >>
      /\ consPc = "idle"
  BY DEF ControlInv, TypeOK
<1>2. Len(readQ) = NumBlocks - 1
  BY <1>1, Lengths DEF OneOwner, BlockCount
<1>3. readQ # << >>
  BY <1>2
<1>4. /\ newBlock' = <<Head(readQ)>> /\ readQ' = Tail(readQ) /\ prodPc' = "push"
  BY <1>3
<1>5. /\ Head(readQ) \in Blocks /\ readQ' \in Seq(Blocks)
      /\ Len(readQ') = Len(readQ) - 1
      /\ Range(readQ) = {Head(readQ)} \cup Range(readQ')
  BY <1>3, <1>4, RangeOfHeadTail DEF TypeOK
<1>6. /\ newBlock' \in Seq(Blocks) /\ Len(newBlock') = 1
      /\ Range(newBlock') = {Head(readQ)}
  BY <1>4, <1>5, RangeOfUnit
<1>7. TypeOK'
  BY <1>4, <1>5, <1>6 DEF TypeOK
<1>8. BlockCount'
  BY <1>1, <1>5, <1>6, Lengths DEF OneOwner, BlockCount
<1>9. BlocksCovered'
  <2>1. Range(newBlock) = {}
    BY <1>1 DEF Range
  <2> QED
    BY <1>5, <1>6, <2>1 DEF OneOwner, BlocksCovered
<1>10. ControlInv' /\ NeverThrows' /\ ReportedSpace'
  BY <1>1, <1>4, <1>5, <1>6, Lengths
     DEF ControlInv, NeverThrows, ReportedSpace, TypeOK, QueueCapacity
<1> QED
  BY <1>7, <1>8, <1>9, <1>10 DEF OneOwner

LEMMA PushCurrentInv ==
    ASSUME BlockInv, PushCurrent PROVE BlockInv'
<1> USE DEF BlockInv, PushCurrent, consVars
<1>1. PICK u \in UnseenPops :
        IF Len(readQ) + u >= QueueCapacity
        THEN prodPc' = "threw" /\ UNCHANGED <<readQ, current, newBlock>>
        ELSE /\ readQ' = Append(readQ, current)
             /\ current' = newBlock[1]
             /\ newBlock' = << >>
             /\ prodPc' = "callback"
  OBVIOUS
<1>2. Len(newBlock) = 1
  BY DEF ControlInv
<1>3. Len(readQ) + u < QueueCapacity
  BY <1>2, Unseen, Lengths DEF QueueCapacity
<1>4. /\ readQ' = Append(readQ, current) /\ current' = newBlock[1]
      /\ newBlock' = << >> /\ prodPc' = "callback"
  <2>1. ~ (Len(readQ) + u >= QueueCapacity)
    BY <1>3, Unseen, Lengths DEF QueueCapacity
  <2> QED
    BY <1>1, <2>1
<1>5. /\ readQ' \in Seq(Blocks) /\ Len(readQ') = Len(readQ) + 1
      /\ Range(readQ') = Range(readQ) \cup {current}
  BY <1>4, RangeOfAppend, AppendProperties DEF TypeOK
<1>6. current' \in Blocks /\ Range(newBlock) = {current'}
  BY <1>2, <1>4, UnitOfLength DEF TypeOK
<1>7. TypeOK'
  BY <1>4, <1>5, <1>6 DEF TypeOK
<1>8. BlockCount'
  BY <1>2, <1>4, <1>5, Lengths DEF OneOwner, BlockCount
<1>9. BlocksCovered'
  BY <1>5, <1>6 DEF OneOwner, BlocksCovered
<1>10. ControlInv' /\ NeverThrows' /\ ReportedSpace'
  BY <1>4, <1>5, Lengths DEF ControlInv, NeverThrows, ReportedSpace, TypeOK, QueueCapacity
<1> QED
  BY <1>7, <1>8, <1>9, <1>10 DEF OneOwner

LEMMA OnBlockAvailableInv ==
    ASSUME BlockInv, OnBlockAvailable PROVE BlockInv'
<1> USE DEF BlockInv, OnBlockAvailable, consVars
<1>1. TypeOK'
  BY DEF TypeOK, ReturnPc, QueueCapacity
<1>2. OneOwner'
  BY DEF OneOwner, BlockCount, BlocksCovered
<1>3. ControlInv' /\ NeverThrows' /\ ReportedSpace'
  BY DEF ControlInv, NeverThrows, ReportedSpace, ReturnPc
<1> QED
  BY <1>1, <1>2, <1>3

LEMMA ResetAndAddInv ==
    ASSUME BlockInv, ResetAndAdd PROVE BlockInv'
<1> USE DEF BlockInv, ResetAndAdd, consVars
<1>1. next \in 1 .. MaxSamples
  BY DEF ControlInv, TypeOK
<1>2. <<next>> \in Seq(1 .. MaxSamples) /\ Len(<<next>>) = 1
  BY <1>1
<1>3. TypeOK'
  BY <1>1, <1>2 DEF TypeOK, QueueCapacity
<1>4. OneOwner'
  BY DEF OneOwner, BlockCount, BlocksCovered
<1>5. ControlInv' /\ NeverThrows' /\ ReportedSpace'
  BY DEF ControlInv, NeverThrows, ReportedSpace
<1> QED
  BY <1>3, <1>4, <1>5

LEMMA PopBlockInv ==
    ASSUME BlockInv, PopBlock PROVE BlockInv'
<1> USE DEF BlockInv, PopBlock, prodVars
<1>1. block = << >>
  BY DEF ControlInv, TypeOK
<1>2. /\ Head(readQ) \in Blocks /\ readQ' \in Seq(Blocks)
      /\ Len(readQ') = Len(readQ) - 1
      /\ Range(readQ) = {Head(readQ)} \cup Range(readQ')
  BY RangeOfHeadTail DEF TypeOK
<1>3. block' \in Seq(Blocks) /\ Len(block') = 1 /\ Range(block') = {Head(readQ)}
  BY <1>2, RangeOfUnit
<1>4. TypeOK'
  BY <1>2, <1>3 DEF TypeOK
<1>5. BlockCount'
  BY <1>1, <1>2, <1>3, Lengths DEF OneOwner, BlockCount
<1>6. BlocksCovered'
  <2>1. Range(block) = {}
    BY <1>1 DEF Range
  <2>2. Blocks \subseteq {current} \cup Range(newBlock) \cup Range(pool)
                            \cup Range(readQ) \cup Range(writeQ)
    BY <2>1 DEF OneOwner, BlocksCovered
  <2>3. UNCHANGED <<current, newBlock, pool, writeQ>>
    OBVIOUS
  <2> HIDE DEF BlockInv, PopBlock
  <2>4. Blocks \subseteq {current} \cup Range(newBlock) \cup Range(pool)
                            \cup Range(readQ') \cup Range(block') \cup Range(writeQ)
    BY <1>2, <1>3, <2>2
  <2> QED
    BY <2>3, <2>4 DEF BlocksCovered
<1>7. ControlInv' /\ NeverThrows' /\ ReportedSpace'
  <2>1. /\ Len(readQ) \in Nat /\ Len(readQ') = Len(readQ) - 1 /\ QueueCapacity \in Nat
        /\ freeSpace' = freeSpace /\ freeSpace \in Nat
    BY <1>2, Lengths, SizesAssumption DEF TypeOK, QueueCapacity
  <2>2. ControlInv'
    BY <1>3, <2>1 DEF ControlInv
  <2>3. NeverThrows'
    BY DEF NeverThrows
  <2>4. ReportedSpace'
    BY <2>1 DEF ReportedSpace
  <2> QED
    BY <2>2, <2>3, <2>4
<1> QED
  BY <1>4, <1>5, <1>6, <1>7 DEF OneOwner

LEMMA CopyBlockInv ==
    ASSUME BlockInv, CopyBlock PROVE BlockInv'
<1> USE DEF BlockInv, CopyBlock, prodVars
<1>1. Len(block) = 1
  BY DEF ControlInv
<1>2. block[1] \in Blocks
  BY <1>1, UnitOfLength DEF TypeOK
<1>3. delivered' \in Seq(1 .. MaxSamples)
  BY <1>2, ConcatProperties DEF TypeOK
<1>4. TypeOK'
  BY <1>2, <1>3 DEF TypeOK
<1>5. OneOwner'
  BY DEF OneOwner, BlockCount, BlocksCovered
<1>6. ControlInv' /\ NeverThrows' /\ ReportedSpace'
  BY <1>1, Lengths DEF ControlInv, NeverThrows, ReportedSpace, QueueCapacity
<1> QED
  BY <1>4, <1>5, <1>6

LEMMA ReturnBlockInv ==
    ASSUME BlockInv, ReturnBlock PROVE BlockInv'
<1> USE DEF BlockInv, ReturnBlock, prodVars
<1>1. writeQ' = writeQ \o block
  BY DEF NeverThrows
<1>2. /\ writeQ' \in Seq(Blocks) /\ Len(writeQ') = Len(writeQ) + Len(block)
      /\ Range(writeQ') = Range(writeQ) \cup Range(block)
  <2>1. writeQ \in Seq(Blocks) /\ block \in Seq(Blocks)
    BY DEF TypeOK
  <2>2. /\ writeQ \o block \in Seq(Blocks)
        /\ Len(writeQ \o block) = Len(writeQ) + Len(block)
    BY <2>1, ConcatProperties
  <2>3. Range(writeQ \o block) = Range(writeQ) \cup Range(block)
    BY <2>1, RangeConcatenation
  <2> QED
    BY <1>1, <2>2, <2>3
<1>3. TypeOK'
  BY <1>2 DEF TypeOK
<1>4. BlockCount'
  <2>1. Len(block') = 0 /\ UNCHANGED <<newBlock, pool, readQ>>
    OBVIOUS
  <2> HIDE DEF ReturnBlock
  <2> QED
    BY <1>2, <2>1, Lengths DEF OneOwner, BlockCount
<1>5. BlocksCovered'
  BY <1>2 DEF OneOwner, BlocksCovered
<1>6. ControlInv' /\ NeverThrows' /\ ReportedSpace'
  BY DEF ControlInv, NeverThrows, ReportedSpace
<1> QED
  BY <1>3, <1>4, <1>5, <1>6 DEF OneOwner

-----------------------------------------------------------------------------
(* The theorems.                                                            *)

LEMMA StepInv == BlockInv /\ [Next]_vars => BlockInv'
<1> SUFFICES ASSUME BlockInv, [Next]_vars PROVE BlockInv'
  OBVIOUS
<1>1. CASE AddElem
  BY <1>1, AddElemInv
<1>2. CASE AddElemFull
  BY <1>2, FlushBeginInv DEF AddElemFull
<1>3. CASE Flush
  BY <1>3, FlushBeginInv DEF Flush
<1>4. CASE GetNewBlock
  BY <1>4, GetNewBlockInv
<1>5. CASE StealOldest
  BY <1>5, StealOldestInv
<1>6. CASE PushCurrent
  BY <1>6, PushCurrentInv
<1>7. CASE OnBlockAvailable
  BY <1>7, OnBlockAvailableInv
<1>8. CASE ResetAndAdd
  BY <1>8, ResetAndAddInv
<1>9. CASE PopBlock
  BY <1>9, PopBlockInv
<1>10. CASE CopyBlock
  BY <1>10, CopyBlockInv
<1>11. CASE ReturnBlock
  BY <1>11, ReturnBlockInv
<1>12. CASE UNCHANGED vars
  BY <1>12 DEF vars, BlockInv, TypeOK, OneOwner, BlockCount, BlocksCovered,
               ControlInv, NeverThrows, ReportedSpace
<1> QED
  BY <1>1, <1>2, <1>3, <1>4, <1>5, <1>6, <1>7, <1>8, <1>9, <1>10, <1>11, <1>12
     DEF Next, Producer, ProducerStep, Consumer

\* The invariant that counts the blocks at each point of the code.
THEOREM BlockInvariant == Spec => []BlockInv
<1>1. Init => BlockInv
  BY InitInv
<1>2. BlockInv /\ [Next]_vars => BlockInv'
  BY StepInv
<1> QED
  BY <1>1, <1>2, PTL DEF Spec

\* Every variable keeps its type and no block overflows.
THEOREM TypeCorrect == Spec => []TypeOK
<1>1. BlockInv => TypeOK
  BY DEF BlockInv
<1> QED
  BY <1>1, BlockInvariant, PTL

\* No block leaks and none is in two places, whatever the two threads do.
THEOREM Ownership == Spec => []OneOwner
<1>1. BlockInv => OneOwner
  BY DEF BlockInv
<1> QED
  BY <1>1, BlockInvariant, PTL

\* flush_to_queue never throws, in either mode and with stale ring indices.
THEOREM NoException == Spec => []NeverThrows
<1>1. BlockInv => NeverThrows
  BY DEF BlockInv
<1> QED
  BY <1>1, BlockInvariant, PTL

\* The callback's free space is right but for the block just pushed.
THEOREM SpaceReport == Spec => []ReportedSpace
<1>1. BlockInv => ReportedSpace
  BY DEF BlockInv
<1> QED
  BY <1>1, BlockInvariant, PTL
=============================================================================
