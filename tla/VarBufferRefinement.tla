------------------------ MODULE VarBufferRefinement ------------------------
(***************************************************************************)
(* Proofs about the data in the blocks: that the exchange of blocks        *)
(* implements the lossy buffer, and what follows for the order and the     *)
(* completeness of the samples, for every number and size of blocks.       *)
(***************************************************************************)
EXTENDS VarBufferProofs, FiniteSetTheorems

USE SizesAssumption, ModeAssumption

-----------------------------------------------------------------------------
(* No block is in two places: OneOwner counts, this is what the count means. *)

\* A sequence whose parts have no repetition has disjoint parts.
LEMMA PartsOfDistinct ==
    ASSUME NEW S, NEW s \in Seq(S), NEW t \in Seq(S), IsInjective(s \o t)
    PROVE  /\ IsInjective(s) /\ IsInjective(t)
           /\ Range(s) \cap Range(t) = {}
<1> DEFINE st == s \o t
<1>1. /\ st \in Seq(S) /\ Len(st) = Len(s) + Len(t)
      /\ \A i \in 1 .. Len(s) + Len(t) :
            st[i] = IF i <= Len(s) THEN s[i] ELSE t[i - Len(s)]
  BY ConcatProperties
<1>2. \A i, j \in 1 .. Len(s) + Len(t) : st[i] = st[j] => i = j
  BY <1>1 DEF IsInjective
<1>3. /\ Len(s) \in Nat /\ Len(t) \in Nat
      /\ DOMAIN s = 1 .. Len(s) /\ DOMAIN t = 1 .. Len(t)
  OBVIOUS
<1> HIDE DEF st
<1>4. \A i \in 1 .. Len(s) : i \in 1 .. Len(s) + Len(t) /\ st[i] = s[i]
  BY <1>1, <1>3
<1>5. \A i \in 1 .. Len(t) : /\ i + Len(s) \in 1 .. Len(s) + Len(t)
                             /\ st[i + Len(s)] = t[i]
  <2> TAKE i \in 1 .. Len(t)
  <2>1. /\ i + Len(s) \in 1 .. Len(s) + Len(t) /\ ~ (i + Len(s) <= Len(s))
        /\ (i + Len(s)) - Len(s) = i
    BY <1>3
  <2> QED
    BY <1>1, <2>1
<1>6. IsInjective(s)
  BY <1>2, <1>3, <1>4 DEF IsInjective
<1>7. IsInjective(t)
  <2> SUFFICES ASSUME NEW i \in 1 .. Len(t), NEW j \in 1 .. Len(t), t[i] = t[j]
               PROVE  i = j
    BY <1>3 DEF IsInjective
  <2>1. i + Len(s) = j + Len(s)
    BY <1>2, <1>5
  <2> QED
    BY <1>3, <2>1
<1>8. Range(s) \cap Range(t) = {}
  <2> SUFFICES ASSUME NEW i \in 1 .. Len(s), NEW j \in 1 .. Len(t), s[i] = t[j]
               PROVE  FALSE
    BY <1>3 DEF Range
  <2>1. i = j + Len(s)
    BY <1>2, <1>4, <1>5
  <2> QED
    BY <1>3, <2>1
<1> QED
  BY <1>6, <1>7, <1>8

LEMMA Concatenated ==
    ASSUME NEW S, NEW s \in Seq(S), NEW t \in Seq(S)
    PROVE  /\ s \o t \in Seq(S) /\ Len(s \o t) = Len(s) + Len(t)
           /\ Range(s \o t) = Range(s) \cup Range(t)
BY ConcatProperties, RangeConcatenation

NoSharing ==
    /\ current \notin Range(newBlock) \cup Range(pool) \cup Range(readQ)
                        \cup Range(block) \cup Range(writeQ)
    /\ Range(newBlock) \cap (Range(pool) \cup Range(readQ) \cup Range(block)
                               \cup Range(writeQ)) = {}
    /\ Range(pool) \cap (Range(readQ) \cup Range(block) \cup Range(writeQ)) = {}
    /\ Range(readQ) \cap (Range(block) \cup Range(writeQ)) = {}
    /\ Range(block) \cap Range(writeQ) = {}
    /\ IsInjective(readQ)

\* Every block is in exactly one place and there once: as many entries as
\* blocks, and every block among them, leaves no room for a repetition.
LEMMA NoneShared ==
    ASSUME BlockInv PROVE NoSharing
<1> DEFINE tail1 == block \o writeQ
           tail2 == readQ \o tail1
           tail3 == pool \o tail2
           tail4 == newBlock \o tail3
           unit == <<current>>
           places == unit \o tail4
<1>1. /\ unit \in Seq(Blocks) /\ Len(unit) = 1 /\ Range(unit) = {current}
      /\ newBlock \in Seq(Blocks) /\ pool \in Seq(Blocks) /\ readQ \in Seq(Blocks)
      /\ block \in Seq(Blocks) /\ writeQ \in Seq(Blocks)
  BY RangeOfUnit DEF BlockInv, TypeOK
<1> HIDE DEF unit
<1>2. /\ tail1 \in Seq(Blocks) /\ Len(tail1) = Len(block) + Len(writeQ)
      /\ Range(tail1) = Range(block) \cup Range(writeQ)
  BY <1>1, Concatenated
<1> HIDE DEF tail1
<1>3. /\ tail2 \in Seq(Blocks) /\ Len(tail2) = Len(readQ) + Len(tail1)
      /\ Range(tail2) = Range(readQ) \cup Range(tail1)
  <2>1. readQ \in Seq(Blocks) /\ tail1 \in Seq(Blocks)
    BY <1>1, <1>2
  <2> QED
    BY <2>1, Concatenated
<1> HIDE DEF tail2
<1>4. /\ tail3 \in Seq(Blocks) /\ Len(tail3) = Len(pool) + Len(tail2)
      /\ Range(tail3) = Range(pool) \cup Range(tail2)
  <2>1. pool \in Seq(Blocks) /\ tail2 \in Seq(Blocks)
    BY <1>1, <1>3
  <2> QED
    BY <2>1, Concatenated
<1> HIDE DEF tail3
<1>5. /\ tail4 \in Seq(Blocks) /\ Len(tail4) = Len(newBlock) + Len(tail3)
      /\ Range(tail4) = Range(newBlock) \cup Range(tail3)
  <2>1. newBlock \in Seq(Blocks) /\ tail3 \in Seq(Blocks)
    BY <1>1, <1>4
  <2> QED
    BY <2>1, Concatenated
<1> HIDE DEF tail4
<1>6. /\ places \in Seq(Blocks) /\ Len(places) = Len(unit) + Len(tail4)
      /\ Range(places) = Range(unit) \cup Range(tail4)
  <2>1. unit \in Seq(Blocks) /\ tail4 \in Seq(Blocks)
    BY <1>1, <1>5
  <2> QED
    BY <2>1, Concatenated
<1> HIDE DEF places
<1>7. Len(places) = NumBlocks
  BY <1>1, <1>2, <1>3, <1>4, <1>5, <1>6, Lengths DEF BlockInv, OneOwner, BlockCount
<1>8. Blocks \subseteq Range(places)
  BY <1>1, <1>2, <1>3, <1>4, <1>5, <1>6 DEF BlockInv, OneOwner, BlocksCovered
<1>9. places \in Surjection(Blocks, Blocks)
  <2>1. places \in [Blocks -> Blocks] /\ DOMAIN places = Blocks
    BY <1>6, <1>7 DEF Blocks
  <2>2. \A b \in Blocks : \E i \in Blocks : places[i] = b
    BY <1>8, <2>1 DEF Range
  <2> QED
    BY <2>1, <2>2 DEF Surjection
<1>10. IsInjective(places)
  <2>1. IsFiniteSet(Blocks)
    BY FS_Interval DEF Blocks
  <2>2. places \in Injection(Blocks, Blocks)
    BY <1>9, <2>1, FS_SurjSameCardinalityImpliesInj
  <2> QED
    BY <2>2 DEF Injection
<1>11. IsInjective(tail4) /\ Range(unit) \cap Range(tail4) = {}
  BY <1>1, <1>5, <1>10, PartsOfDistinct DEF places
<1>12. IsInjective(tail3) /\ Range(newBlock) \cap Range(tail3) = {}
  BY <1>1, <1>4, <1>11, PartsOfDistinct DEF tail4
<1>13. IsInjective(tail2) /\ Range(pool) \cap Range(tail2) = {}
  BY <1>1, <1>3, <1>12, PartsOfDistinct DEF tail3
<1>14. /\ IsInjective(readQ) /\ IsInjective(tail1)
       /\ Range(readQ) \cap Range(tail1) = {}
  BY <1>1, <1>2, <1>13, PartsOfDistinct DEF tail2
<1>15. Range(block) \cap Range(writeQ) = {}
  BY <1>1, <1>14, PartsOfDistinct DEF tail1
<1> QED
  BY <1>1, <1>2, <1>3, <1>4, <1>5, <1>11, <1>12, <1>13, <1>14, <1>15 DEF NoSharing

\* The block the producer fills, the blocks queued and the block the consumer
\* copies are different blocks.
LEMMA Elsewhere ==
    ASSUME BlockInv
    PROVE  /\ \A i \in 1 .. Len(readQ) : readQ[i] \in Blocks /\ readQ[i] # current
           /\ \A i, j \in 1 .. Len(readQ) : readQ[i] = readQ[j] => i = j
           /\ consPc # "idle" =>
                /\ block[1] \in Blocks /\ block = <<block[1]>>
                /\ block[1] # current
                /\ \A i \in 1 .. Len(readQ) : readQ[i] # block[1]
           /\ \A b \in Range(pool) \cup Range(writeQ) :
                /\ b # current
                /\ \A i \in 1 .. Len(readQ) : readQ[i] # b
                /\ consPc # "idle" => block[1] # b
           /\ prodPc = "push" => newBlock[1] \in Blocks /\ newBlock[1] # current
<1>1. NoSharing
  BY NoneShared
<1>2. /\ readQ \in Seq(Blocks) /\ DOMAIN readQ = 1 .. Len(readQ)
      /\ \A i \in 1 .. Len(readQ) : readQ[i] \in Blocks /\ readQ[i] \in Range(readQ)
  BY DEF BlockInv, TypeOK, Range
<1>3. consPc # "idle" =>
        /\ block[1] \in Blocks /\ block = <<block[1]>> /\ Range(block) = {block[1]}
  BY UnitOfLength DEF BlockInv, TypeOK, ControlInv
<1>4. prodPc = "push" => newBlock[1] \in Blocks /\ Range(newBlock) = {newBlock[1]}
  BY UnitOfLength DEF BlockInv, TypeOK, ControlInv
<1> QED
  BY <1>1, <1>2, <1>3, <1>4 DEF NoSharing, IsInjective

-----------------------------------------------------------------------------
(* What the blocks hold.                                                    *)

LEMMA InitContent == Init => ContentInv
BY DEF Init, ContentInv, NoEmptyBlockQueued

\* get_new_block either finds nothing anywhere and changes nothing, or resets
\* a block that was free.
LEMMA GetNewBlockCases ==
    ASSUME BlockInv, GetNewBlock
    PROVE  \/ /\ Len(pool) = 0 /\ UNCHANGED <<content, newBlock, pool>>
              /\ writeQ' = writeQ /\ (~ StaleLoads => Len(writeQ) = 0)
              /\ prodPc' = IF Circular THEN "steal" ELSE ReturnPc
           \/ \E b \in Range(pool) \cup Range(writeQ) :
                /\ b \in Blocks
                /\ newBlock' = <<b>> /\ content' = [content EXCEPT ![b] = << >>]
                /\ prodPc' = "push"
                /\ Len(writeQ') \in 0 .. Len(writeQ)
<1>1. PICK n \in Seen(Len(writeQ)) :
        LET all == pool \o SubSeq(writeQ, 1, n)
        IN  /\ writeQ' = SubSeq(writeQ, n + 1, Len(writeQ))
            /\ IF all = << >>
               THEN /\ prodPc' = IF Circular THEN "steal" ELSE ReturnPc
                    /\ UNCHANGED <<content, pool, newBlock>>
               ELSE /\ newBlock' = <<Last(all)>>
                    /\ content' = [content EXCEPT ![Last(all)] = << >>]
                    /\ pool' = Front(all)
                    /\ prodPc' = "push"
  BY DEF GetNewBlock
<1> DEFINE all == pool \o SubSeq(writeQ, 1, n)
<1>2. n \in 0 .. Len(writeQ) /\ (~ StaleLoads => n = Len(writeQ))
  BY Lengths DEF Seen
<1>3. /\ all \in Seq(Blocks) /\ Len(all) = Len(pool) + n
      /\ writeQ' \in Seq(Blocks) /\ Len(writeQ') = Len(writeQ) - n
      /\ Range(all) \cup Range(writeQ') = Range(pool) \cup Range(writeQ)
  BY <1>1, <1>2, Refill
<1>4. writeQ \in Seq(Blocks) /\ Len(pool) \in Nat
  BY Lengths DEF BlockInv, TypeOK
<1>5. CASE all = << >>
  <2>1. Len(pool) = 0 /\ n = 0
    <3>1. Len(pool) + n = 0
      BY <1>3, <1>5
    <3> QED
      BY <1>2, <1>4, <3>1
  <2>2. writeQ' = writeQ
    BY <1>1, <1>4, <2>1, SubSeqFull
  <2> QED
    BY <1>1, <1>2, <1>5, <2>1, <2>2
<1>6. CASE all # << >>
  <2> DEFINE b == Last(all)
  <2>1. b \in Blocks /\ b \in Range(all)
    <3> HIDE DEF all
    <3>1. all \in Seq(Blocks)
      BY <1>3
    <3> QED
      BY <1>6, <3>1, RangeOfFrontLast
  <2>2. /\ newBlock' = <<b>> /\ content' = [content EXCEPT ![b] = << >>]
        /\ prodPc' = "push"
    BY <1>1, <1>6
  <2>3. Len(writeQ') \in 0 .. Len(writeQ)
    BY <1>2, <1>3, <1>4
  <2> HIDE DEF b, all
  <2> QED
    BY <1>3, <2>1, <2>2, <2>3
<1> QED
  BY <1>5, <1>6

LEMMA ContentStep ==
    ASSUME BlockInv, ContentInv, [Next]_vars PROVE ContentInv'
<1> USE DEF ContentInv
<1>0. /\ content \in [Blocks -> Seq(1 .. MaxSamples)]
      /\ current \in Blocks /\ readQ \in Seq(Blocks) /\ next \in Nat
  BY DEF BlockInv, TypeOK
<1>1. CASE AddElem
  <2>1. \A b \in Blocks : b # current => content'[b] = content[b]
    BY <1>0, <1>1 DEF AddElem
  <2>2. NoEmptyBlockQueued'
    BY <1>1, <2>1, Elsewhere DEF NoEmptyBlockQueued, AddElem, consVars
  <2> QED
    BY <1>1, <2>2 DEF AddElem, consVars
<1>2. CASE AddElemFull
  <2>1. content[current] # << >> /\ Len(content[current]) = BlockSize
    BY <1>2 DEF AddElemFull, FlushBegin
  <2> QED
    BY <1>2, <2>1 DEF AddElemFull, FlushBegin, consVars, NoEmptyBlockQueued
<1>3. CASE Flush
  BY <1>3 DEF Flush, FlushBegin, consVars, NoEmptyBlockQueued
<1>4. CASE GetNewBlock
  <2>1. /\ prodPc = "get"
        /\ UNCHANGED <<current, readQ, next, caller, freeSpace, consPc, block, delivered>>
    BY <1>4 DEF GetNewBlock, consVars
  <2>2. CASE /\ UNCHANGED <<content, newBlock, pool>>
             /\ prodPc' = IF Circular THEN "steal" ELSE ReturnPc
    BY <2>1, <2>2 DEF NoEmptyBlockQueued, ReturnPc, BlockInv, ControlInv
  <2>3. CASE \E b \in Range(pool) \cup Range(writeQ) :
                /\ b \in Blocks
                /\ newBlock' = <<b>> /\ content' = [content EXCEPT ![b] = << >>]
                /\ prodPc' = "push"
    <3>1. PICK b \in Range(pool) \cup Range(writeQ) :
                /\ b \in Blocks
                /\ newBlock' = <<b>> /\ content' = [content EXCEPT ![b] = << >>]
                /\ prodPc' = "push"
      BY <2>3
    <3>2. content'[b] = << >> /\ \A c \in Blocks : c # b => content'[c] = content[c]
      BY <1>0, <3>1
    <3>3. /\ b # current
          /\ \A i \in 1 .. Len(readQ) : readQ[i] \in Blocks /\ readQ[i] # b
          /\ consPc # "idle" => block[1] \in Blocks /\ block[1] # b
      BY Elsewhere
    <3>4. NoEmptyBlockQueued'
      BY <2>1, <3>2, <3>3 DEF NoEmptyBlockQueued
    <3>5. newBlock'[1] = b
      BY <3>1
    <3> QED
      BY <1>0, <2>1, <3>1, <3>2, <3>3, <3>4, <3>5
  <2> QED
    BY <1>4, <2>2, <2>3, GetNewBlockCases
<1>5. CASE StealOldest
  <2>1. Circular /\ prodPc = "steal" /\ UNCHANGED <<content, current, caller, consPc, block>>
    BY <1>5 DEF StealOldest, consVars, BlockInv, ControlInv
  <2>2. NoEmptyBlockQueued'
    <3>1. \A i \in 1 .. Len(readQ') : \E j \in 1 .. Len(readQ) : readQ'[i] = readQ[j]
      <4>1. CASE readQ' = readQ
        BY <4>1
      <4>2. CASE readQ # << >> /\ readQ' = Tail(readQ)
        <5>1. /\ Len(readQ') = Len(readQ) - 1
              /\ \A i \in 1 .. Len(readQ') : readQ'[i] = readQ[i + 1]
          BY <1>0, <4>2, HeadTailProperties
        <5>2. \A i \in 1 .. Len(readQ') : i + 1 \in 1 .. Len(readQ)
          BY <1>0, <5>1
        <5> QED
          BY <5>1, <5>2
      <4> QED
        BY <1>5, <4>1, <4>2 DEF StealOldest
    <3> QED
      BY <2>1, <3>1 DEF NoEmptyBlockQueued
  <2>3. prodPc' \in {"push", "threw"}
    BY <1>5 DEF StealOldest
  <2> QED
    BY <2>1, <2>2, <2>3
<1>6. CASE PushCurrent
  <2>1. prodPc = "push" /\ UNCHANGED <<content, caller, consPc, block>>
    BY <1>6 DEF PushCurrent, consVars
  <2>2. prodPc' \in {"callback", "threw"}
    BY <1>6 DEF PushCurrent
  <2>3. NoEmptyBlockQueued'
    <3>1. CASE readQ' = readQ
      BY <2>1, <3>1 DEF NoEmptyBlockQueued
    <3>2. CASE readQ' = Append(readQ, current)
      <4>1. /\ Len(readQ') = Len(readQ) + 1
            /\ \A i \in 1 .. Len(readQ) : readQ'[i] = readQ[i]
            /\ readQ'[Len(readQ) + 1] = current
        BY <1>0, <3>2, AppendProperties
      <4>2. \A i \in 1 .. Len(readQ') : i \in 1 .. Len(readQ) \/ i = Len(readQ) + 1
        BY <1>0, <4>1
      <4> QED
        BY <2>1, <4>1, <4>2 DEF NoEmptyBlockQueued
    <3> QED
      BY <1>6, <3>1, <3>2 DEF PushCurrent
  <2> QED
    BY <2>1, <2>2, <2>3
<1>7. CASE OnBlockAvailable
  BY <1>7 DEF OnBlockAvailable, ReturnPc, consVars, NoEmptyBlockQueued
<1>8. CASE ResetAndAdd
  <2>1. \A b \in Blocks : b # current => content'[b] = content[b]
    BY <1>0, <1>8 DEF ResetAndAdd
  <2>2. NoEmptyBlockQueued'
    BY <1>8, <2>1, Elsewhere DEF NoEmptyBlockQueued, ResetAndAdd, consVars
  <2> QED
    BY <1>8, <2>2 DEF ResetAndAdd, consVars
<1>9. CASE PopBlock
  <2>1. /\ readQ # << >> /\ block' = <<Head(readQ)>> /\ readQ' = Tail(readQ)
        /\ UNCHANGED <<content, prodPc, current, caller, newBlock>>
    BY <1>9 DEF PopBlock, prodVars
  <2>2. /\ Len(readQ') = Len(readQ) - 1 /\ block'[1] = readQ[1]
        /\ \A i \in 1 .. Len(readQ') : readQ'[i] = readQ[i + 1]
    BY <1>0, <2>1, HeadTailProperties
  <2>3. /\ 1 \in 1 .. Len(readQ)
        /\ \A i \in 1 .. Len(readQ') : i + 1 \in 1 .. Len(readQ)
    BY <1>0, <2>1, <2>2
  <2>4. NoEmptyBlockQueued'
    BY <2>1, <2>2, <2>3 DEF NoEmptyBlockQueued
  <2> QED
    BY <2>1, <2>4
<1>10. CASE CopyBlock
  <2>1. /\ consPc = "copy" /\ consPc' = "return"
        /\ UNCHANGED <<readQ, prodPc, current, caller, newBlock>>
    BY <1>10 DEF CopyBlock, prodVars
  <2>2. /\ \A b \in Blocks : b # block[1] => content'[b] = content[b]
        /\ \A b \in Blocks : content[b] = << >> => content'[b] = << >>
    BY <1>0, <1>10, Elsewhere DEF CopyBlock
  <2>3. NoEmptyBlockQueued'
    BY <2>1, <2>2, Elsewhere DEF NoEmptyBlockQueued
  <2>4. content'[current] = content[current]
    BY <1>0, <2>1, <2>2, Elsewhere
  <2>5. prodPc = "push" => newBlock[1] \in Blocks
    BY Elsewhere
  <2> QED
    BY <2>1, <2>2, <2>3, <2>4, <2>5
<1>11. CASE ReturnBlock
  BY <1>11 DEF ReturnBlock, prodVars, NoEmptyBlockQueued
<1>12. CASE UNCHANGED vars
  BY <1>12 DEF vars, NoEmptyBlockQueued
<1> QED
  BY <1>1, <1>2, <1>3, <1>4, <1>5, <1>6, <1>7, <1>8, <1>9, <1>10, <1>11, <1>12
     DEF Next, Producer, ProducerStep, Consumer

\* The control state of both threads, the place of every block and the content
\* of the blocks on their way are related as ContentInv says, in both modes and
\* for every capacity: the fact the other theorems of this module rest on.
THEOREM DataInvariant == Spec => [](BlockInv /\ ContentInv)
<1>1. Init => BlockInv /\ ContentInv
  BY InitInv, InitContent
<1>2. BlockInv /\ ContentInv /\ [Next]_vars => (BlockInv /\ ContentInv)'
  BY StepInv, ContentStep
<1> QED
  BY <1>1, <1>2, PTL DEF Spec

-----------------------------------------------------------------------------
(* Every step is a step of the lossy buffer, or none.                       *)

\* The chunks and the open chunk, entry by entry.
copying == IF consPc = "copy" THEN 1 ELSE 0

ChunkEntries ==
    /\ chunks \in Seq(Seq(1 .. MaxSamples))
    /\ Len(chunks) = Len(readQ) + copying
    /\ copying = 1 => chunks[1] = content[block[1]]
    /\ \A i \in 1 .. Len(readQ) : chunks[i + copying] = content[readQ[i]]
    /\ \A i \in 1 .. Len(chunks) : i = copying \/ i - copying \in 1 .. Len(readQ)
    /\ openChunk \in Seq(1 .. MaxSamples)

LEMMA ChunksShape == BlockInv => ChunkEntries
<1> SUFFICES ASSUME BlockInv PROVE ChunkEntries
  OBVIOUS
<1> DEFINE n == Len(readQ) + copying
           f(i) == IF consPc # "copy" THEN content[readQ[i]]
                   ELSE IF i = 1 THEN content[block[1]] ELSE content[readQ[i - 1]]
<1>0. content \in [Blocks -> Seq(1 .. MaxSamples)] /\ current \in Blocks
  BY DEF BlockInv, TypeOK
<1>1. /\ Len(readQ) \in Nat /\ n \in Nat /\ copying \in {0, 1}
      /\ copying = 1 <=> consPc = "copy"
      /\ \A i \in 1 .. Len(readQ) : readQ[i] \in Blocks
      /\ consPc = "copy" => block[1] \in Blocks
  BY Elsewhere, Lengths DEF copying
<1>2. \A i \in 1 .. n : i = copying \/ i - copying \in 1 .. Len(readQ)
  BY <1>1
<1>3. \A i \in 1 .. n : f(i) \in Seq(1 .. MaxSamples)
  BY <1>0, <1>1, <1>2
<1>4. chunks = [i \in 1 .. n |-> f(i)]
  BY DEF chunks, copying
<1> HIDE DEF f, n
<1>5. chunks \in Seq(Seq(1 .. MaxSamples)) /\ Len(chunks) = n
  BY <1>1, <1>3, <1>4
<1>6. \A i \in 1 .. n : chunks[i] = f(i)
  BY <1>4
<1>7. \A i \in 1 .. Len(readQ) : i + copying \in 1 .. n /\ (i + 1) - 1 = i /\ i + 1 # 1
  BY <1>1 DEF n
<1>8. \A i \in 1 .. Len(readQ) : chunks[i + copying] = content[readQ[i]]
  BY <1>1, <1>6, <1>7 DEF f
<1>9. copying = 1 => 1 \in 1 .. n
  BY <1>1 DEF n
<1>10. openChunk \in Seq(1 .. MaxSamples)
  <2>1. content[current] \in Seq(1 .. MaxSamples) /\ << >> \in Seq(1 .. MaxSamples)
    BY <1>0
  <2> QED
    BY <2>1 DEF openChunk
<1>11. copying = 1 => chunks[1] = content[block[1]]
  BY <1>1, <1>6, <1>9 DEF f
<1> QED
  BY <1>2, <1>5, <1>8, <1>10, <1>11 DEF n, ChunkEntries

LEMMA ChunksShapeNext == BlockInv' => ChunkEntries'
BY ChunksShape, PTL

\* Steps that touch neither the queue nor the samples in it keep the chunks.
LEMMA SameChunks ==
    ASSUME BlockInv, BlockInv', UNCHANGED <<readQ, block, consPc>>,
           \A i \in 1 .. Len(readQ) : content'[readQ[i]] = content[readQ[i]],
           consPc = "copy" => content'[block[1]] = content[block[1]]
    PROVE  chunks' = chunks
<1>1. ChunkEntries /\ ChunkEntries'
  BY ChunksShape, ChunksShapeNext
<1>2. copying' = copying /\ (copying = 1 <=> consPc = "copy") /\ copying \in {0, 1}
  BY DEF copying
<1>3. \A i \in 1 .. Len(chunks) : chunks'[i] = chunks[i]
  <2> TAKE i \in 1 .. Len(chunks)
  <2>1. CASE i = copying
    BY <1>1, <1>2, <2>1 DEF ChunkEntries
  <2>2. CASE i - copying \in 1 .. Len(readQ)
    <3>1. (i - copying) + copying = i
      BY <1>2
    <3> QED
      BY <1>1, <1>2, <2>2, <3>1 DEF ChunkEntries
  <2> QED
    BY <1>1, <2>1, <2>2 DEF ChunkEntries
<1>4. /\ chunks \in Seq(Seq(1 .. MaxSamples)) /\ chunks' \in Seq(Seq(1 .. MaxSamples))
      /\ Len(chunks') = Len(chunks)
  BY <1>1, <1>2 DEF ChunkEntries
<1> QED
  BY <1>3, <1>4, SeqEqual

\* How much of the buffer is taken: what is queued or out, and what is free.
LEMMA Room ==
    ASSUME BlockInv
    PROVE  /\ outstanding \in Nat /\ Len(chunks) \in Nat
           /\ Len(chunks) + outstanding = Len(readQ) + Len(block) + Len(writeQ)
           /\ Len(chunks) + outstanding = NumBlocks - 1 - Len(newBlock) - Len(pool)
<1>1. ChunkEntries
  BY ChunksShape
<1>2. Len(block) = IF consPc = "idle" THEN 0 ELSE 1
  BY DEF BlockInv, ControlInv
<1>3. consPc \in {"idle", "copy", "return"}
  BY DEF BlockInv, TypeOK
<1>4. Len(chunks) + outstanding = Len(readQ) + Len(block) + Len(writeQ)
  <2>1. Len(chunks) = Len(readQ) + copying
    BY <1>1 DEF ChunkEntries
  <2>2. Len(writeQ) \in Nat /\ Len(readQ) \in Nat
    BY Lengths
  <2>3. CASE consPc = "idle"
    <3>1. outstanding = Len(writeQ) /\ copying = 0 /\ Len(block) = 0
      BY <1>2, <2>2, <2>3 DEF outstanding, copying
    <3> QED
      BY <2>1, <2>2, <3>1
  <2>4. CASE consPc = "copy"
    <3>1. outstanding = Len(writeQ) /\ copying = 1 /\ Len(block) = 1
      BY <1>2, <2>2, <2>4 DEF outstanding, copying
    <3> QED
      BY <2>1, <2>2, <3>1
  <2>5. CASE consPc = "return"
    <3>1. outstanding = Len(writeQ) + 1 /\ copying = 0 /\ Len(block) = 1
      BY <1>2, <2>2, <2>5 DEF outstanding, copying
    <3> QED
      BY <2>1, <2>2, <3>1
  <2> QED
    BY <1>3, <2>3, <2>4, <2>5
<1>5. 1 + Len(newBlock) + Len(pool) + Len(readQ) + Len(block) + Len(writeQ) = NumBlocks
  BY DEF BlockInv, OneOwner, BlockCount
<1>6. outstanding \in Nat /\ Len(chunks) \in Nat
  BY <1>1, Lengths DEF ChunkEntries, outstanding
<1> QED
  BY <1>4, <1>5, <1>6, Lengths

\* A sample goes into the open chunk.
LEMMA AddStep ==
    ASSUME BlockInv, BlockInv', AddElem \/ ResetAndAdd
    PROVE  Lossy!Add(next) /\ next \in 1 .. MaxSamples /\ next' = next + 1
<1>1. /\ content \in [Blocks -> Seq(1 .. MaxSamples)] /\ current \in Blocks
      /\ next \in 1 .. MaxSamples /\ next' = next + 1
  BY DEF BlockInv, TypeOK, ControlInv, AddElem, ResetAndAdd
<1>2. /\ UNCHANGED <<current, readQ, block, consPc, writeQ, delivered>>
      /\ \A b \in Blocks : b # current => content'[b] = content[b]
  BY <1>1 DEF AddElem, ResetAndAdd, consVars
<1>3. chunks' = chunks
  BY <1>2, Elsewhere, SameChunks
<1>4. Len(openChunk) < BlockSize /\ openChunk' = Append(openChunk, next)
  <2>1. CASE AddElem
    BY <1>1, <2>1 DEF AddElem, openChunk
  <2>2. CASE ResetAndAdd
    <3>1. openChunk = << >> /\ openChunk' = <<next>>
      BY <1>1, <2>2 DEF ResetAndAdd, openChunk
    <3>2. Append(<< >>, next) = <<next>> /\ Len(<< >>) < BlockSize
      OBVIOUS
    <3> QED
      BY <3>1, <3>2
  <2> QED
    BY <2>1, <2>2
<1> QED
  BY <1>1, <1>2, <1>3, <1>4 DEF Lossy!Add, outstanding

\* flush_to_queue's own beginning and end, and popping a block, change no data.
LEMMA SilentStep ==
    ASSUME BlockInv, BlockInv', FlushBegin("add_elem") \/ FlushBegin("owner")
                                  \/ OnBlockAvailable
    PROVE  UNCHANGED <<openChunk, chunks, outstanding, delivered, next>>
<1>1. UNCHANGED <<content, current, readQ, block, consPc, writeQ, delivered, next>>
  BY DEF FlushBegin, OnBlockAvailable, consVars
<1>2. chunks' = chunks
  BY <1>1, SameChunks
<1>3. openChunk' = openChunk
  BY <1>1 DEF openChunk, FlushBegin, OnBlockAvailable, ReturnPc
<1> QED
  BY <1>1, <1>2, <1>3 DEF outstanding

\* get_new_block learns what was given back; with nothing free add_elem gives
\* up the current block's samples, and only then.
LEMMA GetNewBlockStep ==
    ASSUME BlockInv, BlockInv', ContentInv, GetNewBlock
    PROVE  /\ next' = next
           /\ \/ Lossy!GiveBack \/ Lossy!DropNewest
              \/ UNCHANGED <<openChunk, chunks, outstanding, delivered>>
<1>1. /\ prodPc = "get" /\ openChunk = content[current]
      /\ UNCHANGED <<current, readQ, next, caller, consPc, block, delivered>>
  BY DEF GetNewBlock, consVars, openChunk
<1>2. /\ content \in [Blocks -> Seq(1 .. MaxSamples)] /\ current \in Blocks
      /\ newBlock = << >> /\ caller \in {"add_elem", "owner"}
  BY <1>1 DEF BlockInv, TypeOK, ControlInv
<1>3. CASE /\ Len(pool) = 0 /\ UNCHANGED <<content, newBlock, pool>>
           /\ writeQ' = writeQ
           /\ prodPc' = IF Circular THEN "steal" ELSE ReturnPc
  <2>1. chunks' = chunks
    BY <1>1, <1>3, SameChunks
  <2>2. outstanding' = outstanding
    BY <1>1, <1>3 DEF outstanding
  <2>3. CASE ~ Circular /\ caller = "add_elem"
    <3>1. openChunk' = << >>
      BY <1>1, <1>3, <2>3 DEF openChunk, ReturnPc
    <3>2. Len(openChunk) = BlockSize
      BY <1>1, <2>3 DEF ContentInv
    <3>3. Len(chunks) + outstanding = NumBlocks - 1
      BY <1>2, <1>3, Room
    <3>4. Lossy!DropNewest
      BY <1>1, <2>1, <2>2, <2>3, <3>1, <3>2, <3>3 DEF Lossy!DropNewest
    <3> QED
      BY <1>1, <3>4
  <2>4. CASE Circular \/ caller = "owner"
    <3>1. openChunk' = content[current]
      BY <1>1, <1>3, <2>4 DEF openChunk, ReturnPc
    <3> QED
      BY <1>1, <2>1, <2>2, <3>1
  <2> QED
    BY <1>2, <2>3, <2>4
<1>4. CASE \E b \in Range(pool) \cup Range(writeQ) :
             /\ b \in Blocks
             /\ newBlock' = <<b>> /\ content' = [content EXCEPT ![b] = << >>]
             /\ prodPc' = "push"
             /\ Len(writeQ') \in 0 .. Len(writeQ)
  <2>1. PICK b \in Range(pool) \cup Range(writeQ) :
             /\ b \in Blocks
             /\ newBlock' = <<b>> /\ content' = [content EXCEPT ![b] = << >>]
             /\ prodPc' = "push"
             /\ Len(writeQ') \in 0 .. Len(writeQ)
    BY <1>4
  <2>2. \A c \in Blocks : c # b => content'[c] = content[c]
    BY <1>2, <2>1
  <2>3. chunks' = chunks
    BY <1>1, <2>2, Elsewhere, SameChunks
  <2>4. openChunk' = openChunk
    BY <1>1, <1>2, <2>1, <2>2, Elsewhere DEF openChunk
  <2>5. outstanding' \in 0 .. outstanding
    BY <1>1, <2>1, Lengths DEF outstanding
  <2>6. outstanding' = outstanding \/ outstanding' \in 0 .. outstanding - 1
    BY <2>5, Room
  <2> QED
    BY <1>1, <2>3, <2>4, <2>6 DEF Lossy!GiveBack
<1> QED
  BY <1>1, <1>3, <1>4, GetNewBlockCases

\* Circular mode overwrites the oldest chunk, and only when all are taken.
LEMMA StealStep ==
    ASSUME BlockInv, BlockInv', StealOldest
    PROVE  /\ next' = next /\ Lossy!DropOldest /\ chunks # << >> /\ prodPc' = "push"
<1>1. /\ Circular /\ consPc = "idle" /\ newBlock = << >> /\ Len(pool) = 0
      /\ prodPc = "steal" /\ Len(block) = 0 /\ Len(writeQ) = 0
      /\ readQ \in Seq(Blocks)
  BY DEF BlockInv, TypeOK, ControlInv, StealOldest
<1>2. UNCHANGED <<content, current, writeQ, next, caller, consPc, block, delivered>>
  BY DEF StealOldest, consVars
<1>3. Len(chunks) = NumBlocks - 1 /\ Len(chunks) # 0
  <2>1. outstanding = 0 /\ Len(newBlock) = 0
    BY <1>1 DEF outstanding
  <2> QED
    BY <1>1, <2>1, Room
<1>4. Len(readQ) # 0
  BY <1>1, <1>3, Room
<1>5. prodPc' = "push" /\ readQ' = Tail(readQ) /\ readQ # << >>
  BY <1>1, <1>4 DEF StealOldest
<1>6. /\ Len(readQ') = Len(readQ) - 1
      /\ \A i \in 1 .. Len(readQ') : readQ'[i] = readQ[i + 1]
  BY <1>1, <1>5, HeadTailProperties
<1>7. /\ ChunkEntries /\ ChunkEntries' /\ copying = 0 /\ copying' = 0
  BY <1>1, <1>2, ChunksShape, ChunksShapeNext DEF copying
<1>8. /\ chunks \in Seq(Seq(1 .. MaxSamples)) /\ chunks' \in Seq(Seq(1 .. MaxSamples))
      /\ Len(chunks) = Len(readQ) /\ Len(chunks') = Len(readQ')
      /\ \A i \in 1 .. Len(readQ) : chunks[i] = content[readQ[i]]
      /\ \A i \in 1 .. Len(readQ') : chunks'[i] = content[readQ'[i]]
  <2>1. /\ \A i \in 1 .. Len(readQ) : chunks[i + 0] = content[readQ[i]]
        /\ \A i \in 1 .. Len(readQ') : chunks'[i + 0] = content[readQ'[i]]
    BY <1>2, <1>7 DEF ChunkEntries
  <2>2. \A i \in Int : i + 0 = i
    OBVIOUS
  <2> QED
    BY <1>2, <1>7, <2>1, <2>2, Lengths DEF ChunkEntries
<1>9. chunks' = Tail(chunks)
  <2>1. chunks # << >>
    BY <1>3
  <2>2. /\ Tail(chunks) \in Seq(Seq(1 .. MaxSamples)) /\ Len(Tail(chunks)) = Len(chunks) - 1
        /\ \A i \in 1 .. Len(Tail(chunks)) : Tail(chunks)[i] = chunks[i + 1]
    BY <1>8, <2>1, HeadTailProperties
  <2>3. \A i \in 1 .. Len(readQ') : i + 1 \in 1 .. Len(readQ)
    BY <1>6, Lengths
  <2>4. \A i \in 1 .. Len(chunks') : chunks'[i] = Tail(chunks)[i]
    <3> TAKE i \in 1 .. Len(chunks')
    <3>1. i \in 1 .. Len(readQ') /\ i \in 1 .. Len(Tail(chunks)) /\ i + 1 \in 1 .. Len(readQ)
      BY <1>6, <1>8, <2>2, <2>3
    <3>2. chunks'[i] = content[readQ'[i]] /\ readQ'[i] = readQ[i + 1]
      BY <1>6, <1>8, <3>1
    <3>3. Tail(chunks)[i] = content[readQ[i + 1]]
      BY <1>8, <2>2, <3>1
    <3> QED
      BY <3>2, <3>3
  <2> QED
    BY <1>6, <1>8, <2>2, <2>4, SeqEqual
<1>10. openChunk' = openChunk /\ outstanding' = outstanding
  BY <1>1, <1>2, <1>5 DEF openChunk, outstanding
<1> QED
  BY <1>1, <1>2, <1>3, <1>5, <1>9, <1>10 DEF Lossy!DropOldest

\* Pushing the current block seals the open chunk.
LEMMA PushStep ==
    ASSUME BlockInv, BlockInv', ContentInv, PushCurrent, ~ (Circular /\ ExplicitFlush)
    PROVE  /\ next' = next /\ Lossy!Seal /\ prodPc' = "callback"
           /\ openChunk = content[current]
<1>1. /\ prodPc = "push" /\ Len(newBlock) = 1
      /\ readQ \in Seq(Blocks) /\ current \in Blocks
      /\ UNCHANGED <<content, writeQ, next, caller, consPc, block, delivered>>
  BY DEF BlockInv, TypeOK, ControlInv, PushCurrent, consVars
<1>2. /\ readQ' = Append(readQ, current) /\ current' = newBlock[1]
      /\ prodPc' = "callback"
  <2>1. prodPc' # "threw"
    BY DEF BlockInv, NeverThrows
  <2> QED
    BY <2>1 DEF PushCurrent
<1>3. /\ Len(readQ') = Len(readQ) + 1
      /\ \A i \in 1 .. Len(readQ) : readQ'[i] = readQ[i]
      /\ readQ'[Len(readQ) + 1] = current
  BY <1>1, <1>2, AppendProperties
<1>4. openChunk = content[current] /\ content[current] # << >>
  BY <1>1 DEF openChunk, ContentInv
<1>5. openChunk' = << >>
  <2>1. CASE caller = "add_elem"
    BY <1>1, <1>2, <2>1 DEF openChunk
  <2>2. CASE caller = "owner"
    <3>1. ~ Circular
      BY <1>1, <2>2 DEF ContentInv
    <3>2. content[newBlock[1]] = << >>
      BY <1>1, <3>1 DEF ContentInv
    <3> QED
      BY <1>1, <1>2, <2>2, <3>2 DEF openChunk
  <2> QED
    BY <2>1, <2>2 DEF BlockInv, TypeOK
<1>6. chunks' = Append(chunks, openChunk)
  <2>1. /\ ChunkEntries /\ ChunkEntries' /\ copying' = copying /\ copying \in {0, 1}
        /\ Len(readQ) \in Nat
    BY <1>1, ChunksShape, ChunksShapeNext, Lengths DEF copying
  <2>2. /\ chunks \in Seq(Seq(1 .. MaxSamples)) /\ chunks' \in Seq(Seq(1 .. MaxSamples))
        /\ openChunk \in Seq(1 .. MaxSamples)
        /\ Len(chunks) = Len(readQ) + copying /\ Len(chunks') = Len(chunks) + 1
    BY <1>3, <2>1 DEF ChunkEntries
  <2> DEFINE longer == Append(chunks, openChunk)
  <2>3. /\ longer \in Seq(Seq(1 .. MaxSamples)) /\ Len(longer) = Len(chunks) + 1
        /\ \A i \in 1 .. Len(chunks) : longer[i] = chunks[i]
        /\ longer[Len(chunks) + 1] = openChunk
    BY <2>2, AppendProperties
  <2> HIDE DEF longer
  <2>4. \A i \in 1 .. Len(chunks) : chunks'[i] = chunks[i]
    <3> TAKE i \in 1 .. Len(chunks)
    <3>1. CASE i = copying
      BY <1>1, <2>1, <3>1 DEF ChunkEntries
    <3>2. CASE i - copying \in 1 .. Len(readQ)
      <4>1. (i - copying) + copying = i /\ i - copying \in 1 .. Len(readQ')
        BY <1>3, <2>1, <3>2
      <4>2. chunks[i] = content[readQ[i - copying]]
        BY <2>1, <3>2, <4>1 DEF ChunkEntries
      <4>3. chunks'[i] = content[readQ'[i - copying]]
        BY <1>1, <2>1, <4>1 DEF ChunkEntries
      <4> QED
        BY <1>3, <3>2, <4>2, <4>3
    <3> QED
      BY <2>1, <3>1, <3>2 DEF ChunkEntries
  <2>5. chunks'[Len(chunks) + 1] = openChunk
    <3>1. Len(readQ) + 1 \in 1 .. Len(readQ') /\ (Len(readQ) + 1) + copying = Len(chunks) + 1
      BY <1>3, <2>1, <2>2
    <3>2. chunks'[(Len(readQ) + 1) + copying] = content[readQ'[Len(readQ) + 1]]
      BY <1>1, <2>1, <3>1 DEF ChunkEntries
    <3> QED
      BY <1>3, <1>4, <3>1, <3>2
  <2>6. \A i \in 1 .. Len(chunks') : i \in 1 .. Len(chunks) \/ i = Len(chunks) + 1
    BY <2>2
  <2>7. \A i \in 1 .. Len(chunks') : chunks'[i] = longer[i]
    BY <2>3, <2>4, <2>5, <2>6
  <2>8. chunks' = longer
    BY <2>2, <2>3, <2>7, SeqEqual
  <2> QED
    BY <2>8 DEF longer
<1>7. Len(chunks) + outstanding < NumBlocks - 1
  BY <1>1, Room, Lengths
<1>8. outstanding' = outstanding
  BY <1>1 DEF outstanding
<1> QED
  BY <1>1, <1>2, <1>4, <1>5, <1>6, <1>7, <1>8 DEF Lossy!Seal

\* Popping a block delivers nothing yet: it is still the oldest chunk.
LEMMA PopStep ==
    ASSUME BlockInv, BlockInv', PopBlock
    PROVE  UNCHANGED <<openChunk, chunks, outstanding, delivered, next>>
<1>1. /\ consPc = "idle" /\ consPc' = "copy" /\ readQ \in Seq(Blocks)
      /\ readQ # << >> /\ block' = <<Head(readQ)>> /\ readQ' = Tail(readQ)
      /\ UNCHANGED <<content, writeQ, delivered, current, next, prodPc, caller>>
  BY DEF BlockInv, TypeOK, PopBlock, prodVars
<1>2. /\ Len(readQ') = Len(readQ) - 1 /\ block'[1] = readQ[1]
      /\ Len(readQ) \in Nat \ {0}
      /\ \A i \in 1 .. Len(readQ') : readQ'[i] = readQ[i + 1]
  BY <1>1, HeadTailProperties, EmptySeq
<1>3. ChunkEntries /\ ChunkEntries' /\ copying = 0 /\ copying' = 1
  BY <1>1, ChunksShape, ChunksShapeNext DEF copying
<1>4. /\ chunks \in Seq(Seq(1 .. MaxSamples)) /\ chunks' \in Seq(Seq(1 .. MaxSamples))
      /\ Len(chunks) = Len(readQ) /\ Len(chunks') = Len(readQ)
  BY <1>2, <1>3 DEF ChunkEntries
<1>5. \A i \in 1 .. Len(readQ) : chunks[i] = content[readQ[i]]
  <2>1. \A i \in 1 .. Len(readQ) : chunks[i + 0] = content[readQ[i]] /\ i + 0 = i
    BY <1>3 DEF ChunkEntries
  <2> QED
    BY <2>1
<1>6. \A i \in 1 .. Len(readQ) : chunks'[i] = content[readQ[i]]
  <2> TAKE i \in 1 .. Len(readQ)
  <2>1. CASE i = 1
    BY <1>1, <1>2, <1>3, <2>1 DEF ChunkEntries
  <2>2. CASE i # 1
    <3>1. i - 1 \in 1 .. Len(readQ') /\ (i - 1) + 1 = i
      BY <1>2, <2>2
    <3>2. chunks'[(i - 1) + 1] = content'[readQ'[i - 1]]
      BY <1>3, <3>1 DEF ChunkEntries
    <3> QED
      BY <1>1, <1>2, <3>1, <3>2
  <2> QED
    BY <2>1, <2>2
<1>7. chunks' = chunks
  BY <1>4, <1>5, <1>6, SeqEqual
<1>8. openChunk' = openChunk /\ outstanding' = outstanding
  BY <1>1 DEF openChunk, outstanding
<1> QED
  BY <1>1, <1>7, <1>8

\* Copying a block delivers the oldest chunk.
LEMMA CopyStep ==
    ASSUME BlockInv, BlockInv', CopyBlock
    PROVE  next' = next /\ Lossy!Deliver /\ chunks # << >>
<1>1. /\ consPc = "copy" /\ consPc' = "return" /\ ~ Circular
      /\ delivered' = delivered \o content[block[1]]
      /\ UNCHANGED <<readQ, writeQ, current, next, prodPc, caller>>
  BY DEF CopyBlock, prodVars, BlockInv, ControlInv
<1>2. /\ content \in [Blocks -> Seq(1 .. MaxSamples)] /\ current \in Blocks
      /\ Len(readQ) \in Nat /\ Len(writeQ) \in Nat
  BY Lengths DEF BlockInv, TypeOK
<1>3. \A b \in Blocks : b # block[1] => content'[b] = content[b]
  BY <1>2 DEF CopyBlock
<1>4. /\ content'[current] = content[current]
      /\ \A i \in 1 .. Len(readQ) : content'[readQ[i]] = content[readQ[i]]
  BY <1>1, <1>2, <1>3, Elsewhere
<1>5. ChunkEntries /\ ChunkEntries' /\ copying = 1 /\ copying' = 0
  BY <1>1, ChunksShape, ChunksShapeNext DEF copying
<1>6. /\ chunks \in Seq(Seq(1 .. MaxSamples)) /\ chunks' \in Seq(Seq(1 .. MaxSamples))
      /\ Len(chunks) = Len(readQ) + 1 /\ Len(chunks') = Len(readQ)
      /\ chunks # << >> /\ Head(chunks) = content[block[1]]
  BY <1>1, <1>2, <1>5 DEF ChunkEntries
<1>7. /\ Tail(chunks) \in Seq(Seq(1 .. MaxSamples)) /\ Len(Tail(chunks)) = Len(readQ)
      /\ \A i \in 1 .. Len(readQ) : Tail(chunks)[i] = chunks[i + 1]
  BY <1>2, <1>6, HeadTailProperties
<1>8. \A i \in 1 .. Len(readQ) : chunks[i + 1] = content[readQ[i]]
  BY <1>5 DEF ChunkEntries
<1>9. \A i \in 1 .. Len(readQ) : chunks'[i] = content[readQ[i]]
  <2>1. \A i \in 1 .. Len(readQ) : chunks'[i + 0] = content'[readQ[i]] /\ i + 0 = i
    BY <1>1, <1>5 DEF ChunkEntries
  <2> QED
    BY <1>4, <2>1
<1>10. chunks' = Tail(chunks)
  BY <1>6, <1>7, <1>8, <1>9, SeqEqual
<1>11. openChunk' = openChunk
  BY <1>1, <1>4 DEF openChunk
<1>12. outstanding' = outstanding + 1
  BY <1>1, <1>2 DEF outstanding
<1> QED
  BY <1>1, <1>6, <1>10, <1>11, <1>12 DEF Lossy!Deliver

\* A block on its way back counts as taken until the producer has seen it.
LEMMA ReturnStep ==
    ASSUME BlockInv, BlockInv', ReturnBlock
    PROVE  UNCHANGED <<openChunk, chunks, outstanding, delivered, next>>
<1>1. /\ consPc = "return" /\ consPc' = "idle"
      /\ UNCHANGED <<content, readQ, delivered, current, next, prodPc, caller>>
  BY DEF ReturnBlock, prodVars
<1>2. Len(block) = 1 /\ Len(block') = 0 /\ Len(newBlock') = Len(newBlock)
      /\ Len(pool') = Len(pool)
  BY DEF ReturnBlock, prodVars, BlockInv, ControlInv
<1>3. ChunkEntries /\ ChunkEntries' /\ copying = 0 /\ copying' = 0
  BY <1>1, ChunksShape, ChunksShapeNext DEF copying
<1>4. /\ chunks \in Seq(Seq(1 .. MaxSamples)) /\ chunks' \in Seq(Seq(1 .. MaxSamples))
      /\ Len(chunks) = Len(readQ) /\ Len(chunks') = Len(readQ)
  BY <1>1, <1>3, Lengths DEF ChunkEntries
<1>5. \A i \in 1 .. Len(readQ) : chunks[i] = content[readQ[i]] /\ chunks'[i] = content[readQ[i]]
  <2>1. \A i \in 1 .. Len(readQ) :
          /\ chunks[i + 0] = content[readQ[i]] /\ chunks'[i + 0] = content[readQ[i]]
          /\ i + 0 = i
    BY <1>1, <1>3 DEF ChunkEntries
  <2> QED
    BY <2>1
<1>6. chunks' = chunks
  BY <1>4, <1>5, SeqEqual
<1>7. outstanding' = outstanding
  <2>1. writeQ' = writeQ \o block
    BY DEF ReturnBlock, BlockInv, NeverThrows
  <2>2. writeQ \in Seq(Blocks) /\ block \in Seq(Blocks)
    BY DEF BlockInv, TypeOK
  <2>3. Len(writeQ') = Len(writeQ) + 1
    BY <1>2, <2>1, <2>2, ConcatProperties
  <2> QED
    BY <1>1, <2>3, Lengths DEF outstanding
<1>8. openChunk' = openChunk
  BY <1>1 DEF openChunk
<1> QED
  BY <1>1, <1>6, <1>7, <1>8

\* All steps: what each means for the abstract buffer.
LEMMA StepEffect ==
    ASSUME BlockInv, ContentInv, [Next]_vars, ~ (Circular /\ ExplicitFlush)
    PROVE  \/ Lossy!Add(next) /\ next \in 1 .. MaxSamples /\ next' = next + 1
           \/ /\ next' = next
              /\ \/ Lossy!Seal
                 \/ Lossy!DropNewest
                 \/ Lossy!DropOldest /\ chunks # << >>
                 \/ Lossy!Deliver
                 \/ Lossy!GiveBack
                 \/ UNCHANGED <<openChunk, chunks, outstanding, delivered>>
<1>0. BlockInv'
  BY StepInv
<1>1. CASE AddElem \/ ResetAndAdd
  BY <1>0, <1>1, AddStep
<1>2. CASE AddElemFull \/ Flush \/ OnBlockAvailable
  BY <1>0, <1>2, SilentStep DEF AddElemFull, Flush
<1>3. CASE GetNewBlock
  BY <1>0, <1>3, GetNewBlockStep
<1>4. CASE StealOldest
  BY <1>0, <1>4, StealStep
<1>5. CASE PushCurrent
  BY <1>0, <1>5, PushStep
<1>6. CASE PopBlock
  BY <1>0, <1>6, PopStep
<1>7. CASE CopyBlock
  BY <1>0, <1>7, CopyStep
<1>8. CASE ReturnBlock
  BY <1>0, <1>8, ReturnStep
<1>9. CASE UNCHANGED vars
  BY <1>9 DEF vars, openChunk, chunks, outstanding
<1> QED
  BY <1>1, <1>2, <1>3, <1>4, <1>5, <1>6, <1>7, <1>8, <1>9
     DEF Next, Producer, ProducerStep, Consumer

\* The exchange of blocks between the two threads implements the lossy buffer,
\* as long as nobody calls flush_to_queue itself in circular mode.
THEOREM Refinement ==
    ASSUME ~ (Circular /\ ExplicitFlush)
    PROVE  Spec => ImplementsLossyBuffer
<1>1. Init => Lossy!BufferInit
  <2> SUFFICES ASSUME Init PROVE Lossy!BufferInit
    OBVIOUS
  <2>1. Len(readQ) = 0 /\ copying = 0 /\ BlockInv
    BY InitInv DEF Init, copying
  <2>2. Len(chunks) = 0 /\ chunks \in Seq(Seq(1 .. MaxSamples))
    BY <2>1, ChunksShape DEF ChunkEntries
  <2>3. chunks = << >>
    BY <2>2, EmptySeq
  <2>4. openChunk = << >>
    BY DEF Init, openChunk, Blocks
  <2> QED
    BY <2>3, <2>4 DEF Init, outstanding, Lossy!BufferInit
<1>2. BlockInv /\ ContentInv /\ [Next]_vars => [Lossy!BufferNext]_(Lossy!bufferVars)
  BY StepEffect DEF Lossy!BufferNext, Lossy!bufferVars
<1> QED
  BY <1>1, <1>2, DataInvariant, PTL DEF Spec, ImplementsLossyBuffer, Lossy!BufferSpec

\* No empty block is ever queued, in any mode.
THEOREM NoEmptyBlock == Spec => []NoEmptyBlockQueued
<1>1. BlockInv /\ ContentInv => NoEmptyBlockQueued
  BY DEF ContentInv
<1> QED
  BY <1>1, DataInvariant, PTL

-----------------------------------------------------------------------------
(* The order of the samples.                                                *)

\* d has been delivered, the chunks c are on their way, o is being filled and
\* the next sample is n: read one after the other they increase up to n.
Below(s, n) == \A a \in 1 .. Len(s) : s[a] < n

Ordered(d, c, o, n) ==
    /\ Increasing(d) /\ Below(d, n)
    /\ Increasing(o) /\ Below(o, n) /\ Before(d, o)
    /\ \A i \in 1 .. Len(c) :
         /\ Increasing(c[i]) /\ Below(c[i], n)
         /\ Before(d, c[i]) /\ Before(c[i], o)
         /\ \A j \in 1 .. Len(c) : i < j => Before(c[i], c[j])

LEMMA OrderedAdd ==
    ASSUME NEW d \in Seq(Nat), NEW c \in Seq(Seq(Nat)), NEW o \in Seq(Nat), NEW n \in Nat,
           Ordered(d, c, o, n)
    PROVE  Ordered(d, c, Append(o, n), n + 1)
<1> DEFINE longer == Append(o, n)
<1>1. /\ longer \in Seq(Nat) /\ Len(longer) = Len(o) + 1
      /\ \A a \in 1 .. Len(o) : longer[a] = o[a]
      /\ longer[Len(o) + 1] = n
  BY AppendProperties
<1>2. \A a \in 1 .. Len(longer) : a \in 1 .. Len(o) \/ a = Len(o) + 1
  BY <1>1
<1> HIDE DEF longer
<1>0. Increasing(o) /\ Below(o, n) /\ \A a \in 1 .. Len(o) : o[a] \in Nat
  BY DEF Ordered
<1>3. Increasing(longer)
  <2> SUFFICES ASSUME NEW a \in 1 .. Len(longer), NEW b \in 1 .. Len(longer), a < b
               PROVE  longer[a] < longer[b]
    BY DEF Increasing
  <2>1. a \in 1 .. Len(o)
    BY <1>1, <1>2
  <2> QED
    BY <1>0, <1>1, <1>2, <2>1 DEF Increasing, Below
<1>4. ASSUME NEW s \in Seq(Nat), Below(s, n) PROVE Below(s, n + 1)
  BY <1>4 DEF Below
<1>5. Below(longer, n + 1)
  <2> SUFFICES ASSUME NEW a \in 1 .. Len(longer) PROVE longer[a] < n + 1
    BY DEF Below
  <2>1. CASE a \in 1 .. Len(o)
    <3>1. longer[a] = o[a] /\ o[a] \in Nat /\ o[a] < n
      BY <1>0, <1>1, <2>1 DEF Below
    <3> QED
      BY <3>1
  <2>2. CASE a = Len(o) + 1
    BY <1>1, <2>2
  <2> QED
    BY <1>2, <2>1, <2>2
<1>6. ASSUME NEW s \in Seq(Nat), Below(s, n), Before(s, o) PROVE Before(s, longer)
  BY <1>1, <1>2, <1>6 DEF Below, Before
<1>7. \A i \in 1 .. Len(c) : c[i] \in Seq(Nat)
  OBVIOUS
<1>8. Ordered(d, c, longer, n + 1)
  BY <1>3, <1>4, <1>5, <1>6, <1>7 DEF Ordered
<1> QED
  BY <1>8 DEF longer

LEMMA OrderedSeal ==
    ASSUME NEW d \in Seq(Nat), NEW c \in Seq(Seq(Nat)), NEW o \in Seq(Nat), NEW n \in Nat,
           Ordered(d, c, o, n)
    PROVE  Ordered(d, Append(c, o), << >>, n)
<1> DEFINE more == Append(c, o)
<1>1. /\ more \in Seq(Seq(Nat)) /\ Len(more) = Len(c) + 1 /\ Len(c) \in Nat
      /\ \A i \in 1 .. Len(c) : more[i] = c[i]
      /\ more[Len(c) + 1] = o
  BY AppendProperties
<1>2. \A i \in 1 .. Len(more) : i \in 1 .. Len(c) \/ i = Len(c) + 1
  BY <1>1
<1> HIDE DEF more
<1>3. /\ Increasing(<< >>) /\ Below(<< >>, n)
      /\ \A s : Before(s, << >>)
  BY DEF Increasing, Below, Before
<1>4. \A i \in 1 .. Len(more) : Increasing(more[i]) /\ Below(more[i], n) /\ Before(d, more[i])
  BY <1>1, <1>2 DEF Ordered
<1>5. ASSUME NEW i \in 1 .. Len(more), NEW j \in 1 .. Len(more), i < j
      PROVE  Before(more[i], more[j])
  <2>1. i \in 1 .. Len(c)
    BY <1>1, <1>5
  <2>2. CASE j \in 1 .. Len(c)
    BY <1>1, <1>5, <2>1, <2>2 DEF Ordered
  <2>3. CASE j = Len(c) + 1
    BY <1>1, <2>1, <2>3 DEF Ordered
  <2> QED
    BY <1>2, <2>2, <2>3
<1>6. Ordered(d, more, << >>, n)
  BY <1>3, <1>4, <1>5 DEF Ordered
<1> QED
  BY <1>6 DEF more

LEMMA OrderedDropNewest ==
    ASSUME NEW d \in Seq(Nat), NEW c \in Seq(Seq(Nat)), NEW o \in Seq(Nat), NEW n \in Nat,
           Ordered(d, c, o, n)
    PROVE  Ordered(d, c, << >>, n)
<1>1. /\ Increasing(<< >>) /\ Below(<< >>, n)
      /\ \A s : Before(s, << >>)
  BY DEF Increasing, Below, Before
<1> QED
  BY <1>1 DEF Ordered

\* Losing the oldest chunk, and delivering it.
LEMMA OrderedTail ==
    ASSUME NEW d \in Seq(Nat), NEW c \in Seq(Seq(Nat)), NEW o \in Seq(Nat), NEW n \in Nat,
           Ordered(d, c, o, n), c # << >>
    PROVE  Ordered(d, Tail(c), o, n) /\ Ordered(d \o Head(c), Tail(c), o, n)
<1> DEFINE rest == Tail(c)
           first == Head(c)
           both == d \o first
<1>1. /\ rest \in Seq(Seq(Nat)) /\ Len(rest) = Len(c) - 1 /\ Len(c) \in Nat \ {0}
      /\ \A i \in 1 .. Len(rest) : rest[i] = c[i + 1]
      /\ first = c[1] /\ first \in Seq(Nat)
  BY HeadTailProperties, EmptySeq
<1> HIDE DEF rest, first
<1>2. /\ Len(both) = Len(d) + Len(first) /\ Len(d) \in Nat /\ Len(first) \in Nat
      /\ \A i \in 1 .. Len(d) + Len(first) :
           both[i] = IF i <= Len(d) THEN d[i] ELSE first[i - Len(d)]
  BY <1>1, ConcatProperties
<1>3. \A i \in 1 .. Len(both) : \/ i \in 1 .. Len(d) /\ both[i] = d[i]
                                \/ /\ i > Len(d) /\ i - Len(d) \in 1 .. Len(first)
                                   /\ both[i] = first[i - Len(d)]
  BY <1>2
<1> HIDE DEF both
<1>4. /\ 1 \in 1 .. Len(c)
      /\ \A i \in 1 .. Len(rest) : i + 1 \in 1 .. Len(c) /\ 1 < i + 1
      /\ \A i, j \in 1 .. Len(rest) : i < j => i + 1 < j + 1
  BY <1>1
<1>5. \A i \in 1 .. Len(rest) :
        /\ Increasing(rest[i]) /\ Below(rest[i], n)
        /\ Before(d, rest[i]) /\ Before(rest[i], o) /\ Before(first, rest[i])
        /\ \A j \in 1 .. Len(rest) : i < j => Before(rest[i], rest[j])
  BY <1>1, <1>4 DEF Ordered
<1>6. Increasing(first) /\ Below(first, n) /\ Before(d, first) /\ Before(first, o)
  BY <1>1, <1>4 DEF Ordered
<1>7. Increasing(both)
  <2> SUFFICES ASSUME NEW a \in 1 .. Len(both), NEW b \in 1 .. Len(both), a < b
               PROVE  both[a] < both[b]
    BY DEF Increasing
  <2>1. CASE b \in 1 .. Len(d) /\ both[b] = d[b]
    <3>1. a \in 1 .. Len(d) /\ both[a] = d[a]
      BY <1>2, <1>3, <2>1
    <3> QED
      BY <2>1, <3>1 DEF Ordered, Increasing
  <2>2. CASE /\ b > Len(d) /\ b - Len(d) \in 1 .. Len(first)
             /\ both[b] = first[b - Len(d)]
    <3>1. CASE a \in 1 .. Len(d) /\ both[a] = d[a]
      BY <1>6, <2>2, <3>1 DEF Before
    <3>2. CASE /\ a > Len(d) /\ a - Len(d) \in 1 .. Len(first)
               /\ both[a] = first[a - Len(d)]
      <4>1. a - Len(d) < b - Len(d)
        BY <1>2
      <4> QED
        BY <1>6, <2>2, <3>2, <4>1 DEF Increasing
    <3> QED
      BY <1>3, <3>1, <3>2
  <2> QED
    BY <1>3, <2>1, <2>2
<1>8. Below(both, n)
  BY <1>3, <1>6 DEF Below, Ordered
<1>9. ASSUME NEW s, Before(d, s), Before(first, s) PROVE Before(both, s)
  BY <1>3, <1>9 DEF Before
<1>10. Before(d, o) /\ Before(both, o)
  BY <1>6, <1>9 DEF Ordered
<1>11. Ordered(d, rest, o, n)
  BY <1>5 DEF Ordered
<1>12. Ordered(both, rest, o, n)
  BY <1>5, <1>7, <1>8, <1>9, <1>10, <1>11 DEF Ordered
<1> QED
  BY <1>11, <1>12 DEF rest, first, both

LEMMA PieceEntries ==
    ASSUME BlockInv
    PROVE  /\ Len(chunks) \in Nat /\ Len(pieces) = Len(chunks) + 2
           /\ pieces[1] = delivered /\ pieces[Len(chunks) + 2] = openChunk
           /\ \A i \in 1 .. Len(chunks) : pieces[i + 1] = chunks[i]
           /\ \A j \in 1 .. Len(pieces) :
                j = 1 \/ j = Len(chunks) + 2 \/ \E i \in 1 .. Len(chunks) : j = i + 1
<1> DEFINE S == Seq(1 .. MaxSamples)
           first == <<delivered>>
           last == <<openChunk>>
           front == first \o chunks
           n == Len(chunks)
<1>1. /\ first \in Seq(S) /\ Len(first) = 1 /\ first[1] = delivered
      /\ last \in Seq(S) /\ Len(last) = 1 /\ last[1] = openChunk
      /\ chunks \in Seq(S) /\ n \in Nat
  BY ChunksShape DEF BlockInv, TypeOK, ChunkEntries
<1> HIDE DEF first, last, n, S
<1>2. /\ front \in Seq(S) /\ Len(front) = 1 + n
      /\ front[1] = delivered /\ \A i \in 1 .. n : front[i + 1] = chunks[i]
  <2>1. first \in Seq(S) /\ chunks \in Seq(S)
    BY <1>1
  <2>2. /\ front \in Seq(S) /\ Len(front) = Len(first) + Len(chunks)
        /\ \A i \in 1 .. Len(first) + Len(chunks) :
             front[i] = IF i <= Len(first) THEN first[i] ELSE chunks[i - Len(first)]
    BY <2>1, ConcatProperties
  <2> HIDE DEF front
  <2>3. /\ Len(front) = 1 + n
        /\ \A i \in 1 .. 1 + n : front[i] = IF i <= 1 THEN first[i] ELSE chunks[i - 1]
    BY <1>1, <2>2 DEF n
  <2>4. front[1] = first[1]
    BY <1>1, <2>3
  <2>5. ASSUME NEW i \in 1 .. n PROVE front[i + 1] = chunks[i]
    <3>1. i + 1 \in 1 .. 1 + n /\ ~ (i + 1 <= 1) /\ (i + 1) - 1 = i
      BY <1>1
    <3> QED
      BY <2>3, <3>1
  <2> QED
    BY <1>1, <2>2, <2>3, <2>4, <2>5
<1> HIDE DEF front
<1>3. pieces = front \o last
  BY DEF pieces, front, first, last
<1>4. /\ Len(pieces) = n + 2 /\ pieces[1] = delivered /\ pieces[n + 2] = openChunk
      /\ \A i \in 1 .. n : pieces[i + 1] = chunks[i]
  <2>1. front \in Seq(S) /\ last \in Seq(S)
    BY <1>1, <1>2
  <2>2. /\ Len(pieces) = Len(front) + Len(last)
        /\ \A i \in 1 .. Len(front) + Len(last) :
             pieces[i] = IF i <= Len(front) THEN front[i] ELSE last[i - Len(front)]
    BY <1>3, <2>1, ConcatProperties
  <2>3. /\ Len(pieces) = n + 2
        /\ \A i \in 1 .. n + 2 : pieces[i] = IF i <= n + 1 THEN front[i] ELSE last[i - (n + 1)]
    <3>1. Len(front) = n + 1 /\ Len(last) = 1 /\ Len(front) + Len(last) = n + 2
      BY <1>1, <1>2
    <3> QED
      BY <2>2, <3>1
  <2>4. pieces[1] = front[1] /\ pieces[n + 2] = last[1]
    <3>1. 1 \in 1 .. n + 2 /\ 1 <= n + 1 /\ n + 2 \in 1 .. n + 2
          /\ ~ (n + 2 <= n + 1) /\ (n + 2) - (n + 1) = 1
      BY <1>1
    <3> QED
      BY <2>3, <3>1
  <2>5. ASSUME NEW i \in 1 .. n PROVE pieces[i + 1] = front[i + 1]
    <3>1. i + 1 \in 1 .. n + 2 /\ i + 1 <= n + 1
      BY <1>1
    <3> QED
      BY <2>3, <3>1
  <2> QED
    BY <1>1, <1>2, <2>3, <2>4, <2>5
<1>5. \A j \in 1 .. Len(pieces) : \/ j = 1 \/ j = n + 2
                                 \/ \E i \in 1 .. n : j = i + 1
  <2> TAKE j \in 1 .. Len(pieces)
  <2>1. CASE j # 1 /\ j # n + 2
    <3>1. j - 1 \in 1 .. n /\ j = (j - 1) + 1
      BY <1>1, <1>4, <2>1
    <3> QED
      BY <3>1
  <2> QED
    BY <2>1
<1> QED
  BY <1>1, <1>4, <1>5 DEF n

LEMMA InOrderFromOrdered ==
    ASSUME BlockInv, Ordered(delivered, chunks, openChunk, next) PROVE InOrder
<1> DEFINE n == Len(chunks)
<1>1. n \in Nat
  BY PieceEntries
<1>4. /\ Len(pieces) = n + 2 /\ pieces[1] = delivered /\ pieces[n + 2] = openChunk
      /\ \A i \in 1 .. n : pieces[i + 1] = chunks[i]
  BY PieceEntries
<1>5. \A j \in 1 .. Len(pieces) : \/ j = 1 \/ j = n + 2
                                 \/ \E i \in 1 .. n : j = i + 1
  BY PieceEntries
<1> HIDE DEF n
<1>6. \A j \in 1 .. Len(pieces) : Increasing(pieces[j])
  BY <1>4, <1>5 DEF Ordered, n
<1>7. ASSUME NEW j \in 1 .. Len(pieces), NEW i \in 1 .. j - 1
      PROVE  Before(pieces[i], pieces[j])
  <2>1. i \in 1 .. Len(pieces) /\ i < j
    BY <1>1, <1>4
  <2>2. CASE i = 1 /\ j = n + 2
    BY <1>4, <2>2 DEF Ordered
  <2>3. CASE i = 1 /\ \E k \in 1 .. n : j = k + 1
    BY <1>4, <2>3 DEF Ordered, n
  <2>4. CASE (\E k \in 1 .. n : i = k + 1) /\ j = n + 2
    BY <1>4, <2>4 DEF Ordered, n
  <2>5. CASE (\E k \in 1 .. n : i = k + 1) /\ \E k \in 1 .. n : j = k + 1
    <3>1. PICK k \in 1 .. n, m \in 1 .. n : i = k + 1 /\ j = m + 1
      BY <2>5
    <3>2. k < m
      BY <1>1, <2>1, <3>1
    <3> QED
      BY <1>4, <3>1, <3>2 DEF Ordered, n
  <2>6. /\ i = 1 \/ \E k \in 1 .. n : i = k + 1
        /\ j = n + 2 \/ \E k \in 1 .. n : j = k + 1
    <3>1. i # n + 2 /\ j # 1
      BY <1>1, <1>4, <2>1
    <3> QED
      BY <1>5, <2>1, <3>1
  <2> QED
    BY <2>2, <2>3, <2>4, <2>5, <2>6
<1> QED
  BY <1>6, <1>7 DEF InOrder

LEMMA OrderedInit ==
    ASSUME Init PROVE Ordered(delivered, chunks, openChunk, next)
<1>1. Len(chunks) = 0 /\ delivered = << >> /\ openChunk = << >>
  <2>1. BlockInv
    BY InitInv
  <2>2. Len(readQ) = 0 /\ copying = 0 /\ openChunk = << >>
    BY DEF Init, copying, openChunk, Blocks
  <2> QED
    BY <2>1, <2>2, ChunksShape DEF ChunkEntries, Init
<1> QED
  BY <1>1 DEF Ordered, Increasing, Below, Before

LEMMA Typed ==
    ASSUME BlockInv
    PROVE  /\ delivered \in Seq(Nat) /\ openChunk \in Seq(Nat) /\ next \in Nat
           /\ chunks \in Seq(Seq(Nat))
<1>1. /\ delivered \in Seq(1 .. MaxSamples) /\ openChunk \in Seq(1 .. MaxSamples)
      /\ chunks \in Seq(Seq(1 .. MaxSamples)) /\ next \in Nat
  BY ChunksShape DEF BlockInv, TypeOK, ChunkEntries
<1>2. 1 .. MaxSamples \subseteq Nat
  OBVIOUS
<1>3. Seq(1 .. MaxSamples) \subseteq Seq(Nat)
  BY <1>2, SeqMonotonic
<1>4. chunks \in Seq(Seq(Nat))
  BY <1>1, <1>3, SeqMonotonic
<1> QED
  BY <1>1, <1>3, <1>4

LEMMA OrderedStep ==
    ASSUME BlockInv, ContentInv, [Next]_vars, ~ (Circular /\ ExplicitFlush),
           Ordered(delivered, chunks, openChunk, next)
    PROVE  Ordered(delivered, chunks, openChunk, next)'
<1>1. /\ delivered \in Seq(Nat) /\ openChunk \in Seq(Nat) /\ next \in Nat
      /\ chunks \in Seq(Seq(Nat))
  BY Typed
<1>2. CASE Lossy!Add(next) /\ next' = next + 1
  BY <1>1, <1>2, OrderedAdd DEF Lossy!Add
<1>3. CASE next' = next /\ Lossy!Seal
  BY <1>1, <1>3, OrderedSeal DEF Lossy!Seal
<1>4. CASE next' = next /\ Lossy!DropNewest
  BY <1>1, <1>4, OrderedDropNewest DEF Lossy!DropNewest
<1>5. CASE next' = next /\ Lossy!DropOldest /\ chunks # << >>
  BY <1>1, <1>5, OrderedTail DEF Lossy!DropOldest
<1>6. CASE next' = next /\ Lossy!Deliver
  BY <1>1, <1>6, OrderedTail DEF Lossy!Deliver
<1>7. CASE next' = next /\ UNCHANGED <<openChunk, chunks, delivered>>
  BY <1>7
<1>8. CASE next' = next /\ Lossy!GiveBack
  BY <1>7, <1>8 DEF Lossy!GiveBack
<1> QED
  BY <1>2, <1>3, <1>4, <1>5, <1>6, <1>7, <1>8, StepEffect

\* The samples of a variable stay in the order they were logged and none is
\* duplicated, whatever was lost and however late the threads see each other.
THEOREM Order ==
    ASSUME ~ (Circular /\ ExplicitFlush)
    PROVE  Spec => []InOrder
<1> DEFINE Inv == BlockInv /\ ContentInv /\ Ordered(delivered, chunks, openChunk, next)
<1>1. Init => Inv
  BY InitInv, InitContent, OrderedInit
<1>2. Inv /\ [Next]_vars => Inv'
  BY StepInv, ContentStep, OrderedStep
<1>3. Inv => InOrder
  BY InOrderFromOrdered
<1> QED
  BY <1>1, <1>2, <1>3, PTL DEF Spec

-----------------------------------------------------------------------------
(* Circular mode: the latest samples, without a gap.                        *)

\* The chunks c, full ones, and the open chunk o hold base+1 .. n-1 in order.
Offset(k) == k * BlockSize

Window(base, c, o, n) ==
    /\ base \in Nat /\ base + Offset(Len(c)) + Len(o) = n - 1
    /\ \A i \in 1 .. Len(c) :
         /\ Len(c[i]) = BlockSize
         /\ \A a \in 1 .. BlockSize : c[i][a] = base + Offset(i - 1) + a
    /\ \A a \in 1 .. Len(o) : o[a] = base + Offset(Len(c)) + a

LEMMA Offsets ==
    /\ \A i \in Nat : Offset(i) \in Nat /\ Offset(i + 1) = Offset(i) + BlockSize
    /\ \A i, j \in Nat : i < j => Offset(i) + BlockSize <= Offset(j)
<1>1. \A i \in Nat : Offset(i) \in Nat /\ Offset(i + 1) = Offset(i) + BlockSize
  BY DEF Offset
<1>2. ASSUME NEW i \in Nat, NEW j \in Nat, i < j
      PROVE  Offset(i) + BlockSize <= Offset(j)
  BY <1>2 DEF Offset
<1> QED
  BY <1>1, <1>2

LEMMA WindowAdd ==
    ASSUME NEW c \in Seq(Seq(Nat)), NEW o \in Seq(Nat), NEW n \in Nat, NEW base \in Nat,
           Window(base, c, o, n)
    PROVE  Window(base, c, Append(o, n), n + 1)
<1> DEFINE longer == Append(o, n)
           full == Offset(Len(c))
<1>1. /\ longer \in Seq(Nat) /\ Len(longer) = Len(o) + 1 /\ Len(o) \in Nat
      /\ \A a \in 1 .. Len(o) : longer[a] = o[a]
      /\ longer[Len(o) + 1] = n
  BY AppendProperties
<1>2. \A a \in 1 .. Len(longer) : a \in 1 .. Len(o) \/ a = Len(o) + 1
  BY <1>1
<1>3. full \in Nat /\ base + full + Len(o) = n - 1
      /\ \A a \in 1 .. Len(o) : o[a] = base + full + a
  BY Offsets DEF Window
<1> HIDE DEF longer, full
<1>4. ASSUME NEW a \in 1 .. Len(longer) PROVE longer[a] = base + full + a
  <2>1. CASE a \in 1 .. Len(o)
    BY <1>1, <1>3, <2>1
  <2>2. CASE a = Len(o) + 1
    <3>1. base + full + (Len(o) + 1) = n
      BY <1>1, <1>3
    <3> QED
      BY <1>1, <2>2, <3>1
  <2> QED
    BY <1>2, <2>1, <2>2
<1>5. base + full + Len(longer) = (n + 1) - 1
  BY <1>1, <1>3
<1> QED
  BY <1>4, <1>5 DEF Window, longer, full

LEMMA WindowSeal ==
    ASSUME NEW c \in Seq(Seq(Nat)), NEW o \in Seq(Nat), NEW n \in Nat, NEW base \in Nat,
           Window(base, c, o, n), Len(o) = BlockSize
    PROVE  Window(base, Append(c, o), << >>, n)
<1> DEFINE more == Append(c, o)
<1>1. /\ more \in Seq(Seq(Nat)) /\ Len(more) = Len(c) + 1 /\ Len(c) \in Nat
      /\ \A i \in 1 .. Len(c) : more[i] = c[i]
      /\ more[Len(c) + 1] = o
  BY AppendProperties
<1>2. \A i \in 1 .. Len(more) : i \in 1 .. Len(c) \/ (i = Len(c) + 1 /\ i - 1 = Len(c))
  BY <1>1
<1> HIDE DEF more
<1>3. /\ Offset(Len(c)) \in Nat
      /\ Offset(Len(more)) = Offset(Len(c)) + BlockSize
  BY <1>1, Offsets
<1>4. base + Offset(Len(more)) + Len(<< >>) = n - 1
  BY <1>3 DEF Window
<1>5. ASSUME NEW i \in 1 .. Len(more)
      PROVE  /\ Len(more[i]) = BlockSize
             /\ \A a \in 1 .. BlockSize : more[i][a] = base + Offset(i - 1) + a
  <2>1. CASE i \in 1 .. Len(c)
    <3>1. more[i] = c[i]
      BY <1>1, <2>1
    <3>2. /\ Len(c[i]) = BlockSize
          /\ \A a \in 1 .. BlockSize : c[i][a] = base + Offset(i - 1) + a
      BY <2>1 DEF Window
    <3> QED
      BY <3>1, <3>2
  <2>2. CASE i = Len(c) + 1 /\ i - 1 = Len(c)
    <3>1. more[i] = o
      BY <1>1, <2>2
    <3>2. \A a \in 1 .. BlockSize : o[a] = base + Offset(Len(c)) + a
      BY DEF Window
    <3> QED
      BY <2>2, <3>1, <3>2
  <2> QED
    BY <1>2, <2>1, <2>2
<1>6. Window(base, more, << >>, n)
  BY <1>4, <1>5 DEF Window
<1> QED
  BY <1>6 DEF more

LEMMA WindowDrop ==
    ASSUME NEW c \in Seq(Seq(Nat)), NEW o \in Seq(Nat), NEW n \in Nat, NEW base \in Nat,
           Window(base, c, o, n), c # << >>
    PROVE  Window(base + BlockSize, Tail(c), o, n)
<1> DEFINE rest == Tail(c)
<1>1. /\ rest \in Seq(Seq(Nat)) /\ Len(rest) = Len(c) - 1 /\ Len(c) \in Nat \ {0}
      /\ \A i \in 1 .. Len(rest) : rest[i] = c[i + 1]
  BY HeadTailProperties, EmptySeq
<1> HIDE DEF rest
<1>2. /\ Offset(Len(rest)) \in Nat
      /\ Offset(Len(c)) = Offset(Len(rest)) + BlockSize
  <2>1. Len(rest) \in Nat /\ Len(c) = Len(rest) + 1
    BY <1>1
  <2> QED
    BY <2>1, Offsets
<1>3. ASSUME NEW i \in 1 .. Len(rest)
      PROVE  /\ Len(rest[i]) = BlockSize
             /\ \A a \in 1 .. BlockSize :
                  rest[i][a] = (base + BlockSize) + Offset(i - 1) + a
  <2>1. i + 1 \in 1 .. Len(c) /\ (i + 1) - 1 = i /\ i - 1 \in Nat /\ (i - 1) + 1 = i
    BY <1>1
  <2>2. Offset(i) = Offset(i - 1) + BlockSize /\ Offset(i - 1) \in Nat
    BY <2>1, Offsets
  <2>3. /\ Len(c[i + 1]) = BlockSize
        /\ \A a \in 1 .. BlockSize : c[i + 1][a] = base + Offset(i) + a
    BY <2>1 DEF Window
  <2>4. rest[i] = c[i + 1]
    BY <1>1
  <2>5. \A a \in 1 .. BlockSize : base + Offset(i) + a = (base + BlockSize) + Offset(i - 1) + a
    BY <2>2
  <2> QED
    BY <2>3, <2>4, <2>5
<1>4. \A a \in 1 .. Len(o) : o[a] = (base + BlockSize) + Offset(Len(rest)) + a
  BY <1>2 DEF Window
<1>5. (base + BlockSize) + Offset(Len(rest)) + Len(o) = n - 1
  BY <1>2 DEF Window
<1> QED
  BY <1>3, <1>4, <1>5 DEF Window, rest

\* What the window holds is an interval that ends with the last sample.
LEMMA Digit ==
    ASSUME NEW l \in Nat, NEW y \in Nat, y < Offset(l)
    PROVE  \E k \in 0 .. l - 1 : Offset(k) <= y /\ y < Offset(k) + BlockSize
<1> DEFINE k == y \div BlockSize
<1>1. k \in Nat /\ Offset(k) <= y /\ y < Offset(k) + BlockSize
  BY DEF Offset
<1> HIDE DEF k
<1>2. ASSUME l <= k PROVE FALSE
  <2>1. CASE l = k
    BY <1>1, <2>1, Offsets
  <2>2. CASE l < k
    <3>1. Offset(l) + BlockSize <= Offset(k) /\ Offset(l) \in Nat /\ Offset(k) \in Nat
      BY <1>1, <2>2, Offsets
    <3> QED
      BY <1>1, <3>1
  <2> QED
    BY <1>1, <1>2, <2>1, <2>2
<1>3. k \in 0 .. l - 1
  BY <1>1, <1>2
<1> QED
  BY <1>1, <1>3

LEMMA WindowIsInterval ==
    ASSUME NEW c \in Seq(Seq(Nat)), NEW o \in Seq(Nat), NEW n \in Nat, NEW base \in Nat,
           Window(base, c, o, n)
    PROVE  /\ \A x \in Range(o) : x \in base + 1 .. n - 1
           /\ \A i \in 1 .. Len(c) : \A x \in Range(c[i]) : x \in base + 1 .. n - 1
           /\ \A x \in base + 1 .. n - 1 :
                x \in Range(o) \/ \E i \in 1 .. Len(c) : x \in Range(c[i])
<1> DEFINE full == Offset(Len(c))
<1>1. /\ full \in Nat /\ Len(c) \in Nat /\ Len(o) \in Nat
      /\ base + full + Len(o) = n - 1
      /\ Range(o) = {o[a] : a \in 1 .. Len(o)}
      /\ \A a \in 1 .. Len(o) : o[a] = base + full + a
  <2>1. Len(c) \in Nat /\ Len(o) \in Nat
    OBVIOUS
  <2>2. full \in Nat
    BY <2>1, Offsets
  <2>3. Range(o) = {o[a] : a \in 1 .. Len(o)}
    BY RangeEquality
  <2> QED
    BY <2>1, <2>2, <2>3 DEF Window
<1>2. \A i \in 1 .. Len(c) :
        /\ Range(c[i]) = {c[i][a] : a \in 1 .. BlockSize}
        /\ \A a \in 1 .. BlockSize : c[i][a] = base + Offset(i - 1) + a
        /\ Offset(i - 1) \in Nat /\ Offset(i - 1) + BlockSize <= full
  <2> TAKE i \in 1 .. Len(c)
  <2>1. c[i] \in Seq(Nat) /\ Len(c[i]) = BlockSize
        /\ \A a \in 1 .. BlockSize : c[i][a] = base + Offset(i - 1) + a
    BY DEF Window
  <2>2. i - 1 \in Nat /\ i - 1 < Len(c)
    BY <1>1
  <2>3. Offset(i - 1) \in Nat /\ Offset(i - 1) + BlockSize <= full
    BY <1>1, <2>2, Offsets
  <2> QED
    BY <2>1, <2>3, RangeEquality
<1> HIDE DEF full
<1>3. \A x \in Range(o) : x \in base + 1 .. n - 1
  BY <1>1
<1>4. ASSUME NEW i \in 1 .. Len(c), NEW x \in Range(c[i]) PROVE x \in base + 1 .. n - 1
  <2>1. PICK a \in 1 .. BlockSize : x = base + Offset(i - 1) + a
    <3>1. x \in {c[i][a] : a \in 1 .. BlockSize}
      BY <1>2, <1>4
    <3>2. PICK a \in 1 .. BlockSize : x = c[i][a]
      BY <3>1
    <3> QED
      BY <1>2, <3>2
  <2> DEFINE before == Offset(i - 1)
  <2>2. before \in Nat /\ before + BlockSize <= full
    BY <1>2
  <2>3. x = base + before + a
    BY <2>1
  <2> HIDE DEF before
  <2> QED
    BY <1>1, <2>2, <2>3
<1>5. ASSUME NEW x \in base + 1 .. n - 1
      PROVE  x \in Range(o) \/ \E i \in 1 .. Len(c) : x \in Range(c[i])
  <2>1. CASE x > base + full
    <3>1. PICK a \in 1 .. Len(o) : x = base + full + a
      <4>1. x - (base + full) \in 1 .. Len(o) /\ x = base + full + (x - (base + full))
        BY <1>1, <2>1
      <4> QED
        BY <4>1
    <3>2. o[a] = x
      BY <1>1, <3>1
    <3> QED
      BY <1>1, <3>2
  <2>2. CASE x <= base + full
    <3> DEFINE y == x - base - 1
    <3>1. y \in Nat /\ y < full
      BY <1>1, <2>2
    <3> HIDE DEF y
    <3>2. PICK k \in 0 .. Len(c) - 1 : Offset(k) <= y /\ y < Offset(k) + BlockSize
      BY <1>1, <3>1, Digit DEF full
    <3>4. k + 1 \in 1 .. Len(c) /\ (k + 1) - 1 = k
      BY <1>1, <3>2
    <3>5. Offset(k) \in Nat
      BY <3>2, Offsets
    <3> DEFINE a == y - Offset(k) + 1
    <3>6. a \in 1 .. BlockSize
      BY <3>1, <3>2, <3>5
    <3>7. c[k + 1][a] = base + Offset(k) + a
      BY <1>2, <3>4, <3>6
    <3>8. base + Offset(k) + a = x
      BY <3>1, <3>5 DEF y
    <3>9. x \in Range(c[k + 1])
      <4>1. Range(c[k + 1]) = {c[k + 1][b] : b \in 1 .. BlockSize}
        BY <1>2, <3>4
      <4> HIDE DEF a
      <4> QED
        BY <3>6, <3>7, <3>8, <4>1
    <3> QED
      BY <3>4, <3>9
  <2> QED
    BY <1>1, <2>1, <2>2
<1> QED
  BY <1>3, <1>4, <1>5

\* In circular mode, at each point of add_elem: the window starts at sample 1
\* until all blocks but the current one are queued.
WindowInv ==
    /\ delivered = << >>
    /\ prodPc = "idle" /\ next > 1 => openChunk # << >>
    /\ \E base \in Nat :
         /\ Window(base, chunks, openChunk, next)
         /\ \/ base = 0
            \/ Len(chunks) = NumBlocks - 1
            \/ Len(chunks) = NumBlocks - 2 /\ prodPc = "push"

LEMMA WindowInit ==
    ASSUME Init PROVE WindowInv
<1>1. Len(chunks) = 0 /\ delivered = << >> /\ openChunk = << >> /\ next = 1
  <2>1. BlockInv
    BY InitInv
  <2>2. Len(readQ) = 0 /\ copying = 0 /\ openChunk = << >>
    BY DEF Init, copying, openChunk, Blocks
  <2> QED
    BY <2>1, <2>2, ChunksShape DEF ChunkEntries, Init
<1>2. Window(0, chunks, openChunk, next)
  BY <1>1 DEF Window, Offset
<1> QED
  BY <1>1, <1>2 DEF WindowInv

LEMMA WindowStep ==
    ASSUME BlockInv, ContentInv, [Next]_vars, Circular, ~ ExplicitFlush, WindowInv
    PROVE  WindowInv'
<1>0. BlockInv' /\ consPc = "idle" /\ ModeAssumption
  BY StepInv DEF BlockInv, ControlInv
<1>1. PICK base \in Nat :
         /\ Window(base, chunks, openChunk, next)
         /\ \/ base = 0
            \/ Len(chunks) = NumBlocks - 1
            \/ Len(chunks) = NumBlocks - 2 /\ prodPc = "push"
  BY DEF WindowInv
<1>2. /\ delivered \in Seq(Nat) /\ openChunk \in Seq(Nat) /\ next \in Nat
      /\ chunks \in Seq(Seq(Nat)) /\ Len(chunks) \in Nat
  BY Typed
<1>3. prodPc # "idle" => caller = "add_elem"
  BY DEF ContentInv, BlockInv, TypeOK
<1>4. CASE AddElem \/ ResetAndAdd
  <2>1. Lossy!Add(next) /\ next' = next + 1
    BY <1>0, <1>4, AddStep
  <2>2. Window(base, chunks', openChunk', next')
    BY <1>1, <1>2, <2>1, WindowAdd DEF Lossy!Add
  <2>3. openChunk' # << >> /\ UNCHANGED <<chunks, delivered>>
    BY <1>2, <2>1, AppendProperties DEF Lossy!Add
  <2>4. prodPc # "push"
    BY <1>4 DEF AddElem, ResetAndAdd
  <2> QED
    BY <1>1, <2>2, <2>3, <2>4 DEF WindowInv
<1>5. CASE AddElemFull \/ Flush \/ OnBlockAvailable
  <2>1. UNCHANGED <<openChunk, chunks, delivered, next>>
    BY <1>0, <1>5, SilentStep DEF AddElemFull, Flush
  <2>2. prodPc' # "idle" /\ prodPc # "push"
    BY <1>3, <1>5 DEF AddElemFull, Flush, FlushBegin, OnBlockAvailable, ReturnPc
  <2> QED
    BY <1>1, <2>1, <2>2 DEF WindowInv
<1>6. CASE GetNewBlock
  <2>1. next' = next /\ UNCHANGED <<openChunk, chunks, delivered>>
    BY <1>0, <1>6, GetNewBlockStep DEF Lossy!GiveBack, Lossy!DropNewest
  <2>2. prodPc = "get" /\ prodPc' # "idle"
    BY <1>6, GetNewBlockCases DEF GetNewBlock
  <2> QED
    BY <1>1, <2>1, <2>2 DEF WindowInv
<1>7. CASE StealOldest
  <2>1. /\ next' = next /\ Lossy!DropOldest /\ chunks # << >> /\ prodPc' = "push"
    BY <1>0, <1>7, StealStep
  <2>2. /\ chunks' = Tail(chunks) /\ openChunk' = openChunk /\ delivered' = delivered
        /\ Len(chunks) = NumBlocks - 1
    BY <2>1 DEF Lossy!DropOldest
  <2>3. Window(base + BlockSize, chunks', openChunk', next') /\ base + BlockSize \in Nat
    BY <1>1, <1>2, <2>1, <2>2, WindowDrop
  <2>4. Len(chunks') = NumBlocks - 2
    BY <1>2, <2>1, <2>2, HeadTailProperties
  <2> QED
    BY <2>1, <2>2, <2>3, <2>4 DEF WindowInv
<1>8. CASE PushCurrent
  <2>1. /\ next' = next /\ Lossy!Seal /\ prodPc' = "callback"
        /\ openChunk = content[current] /\ prodPc = "push"
    BY <1>0, <1>8, PushStep DEF PushCurrent
  <2>2. /\ chunks' = Append(chunks, openChunk) /\ openChunk' = << >>
        /\ delivered' = delivered /\ Len(chunks) + outstanding < NumBlocks - 1
    BY <2>1 DEF Lossy!Seal
  <2>3. Len(openChunk) = BlockSize
    BY <1>3, <2>1 DEF ContentInv
  <2>4. Window(base, chunks', openChunk', next')
    BY <1>1, <1>2, <2>1, <2>2, <2>3, WindowSeal
  <2>5. Len(chunks') = Len(chunks) + 1 /\ Len(chunks) < NumBlocks - 1
    BY <1>2, <2>2, Room, AppendProperties
  <2>6. base = 0 \/ Len(chunks') = NumBlocks - 1
    BY <1>1, <1>2, <2>5
  <2> QED
    BY <2>1, <2>2, <2>4, <2>6 DEF WindowInv
<1>9. CASE Consumer
  BY <1>0, <1>9 DEF Consumer, PopBlock, CopyBlock, ReturnBlock
<1>10. CASE UNCHANGED vars
  <2>1. UNCHANGED <<openChunk, chunks, delivered, next, prodPc>>
    BY <1>10 DEF vars, openChunk, chunks
  <2> QED
    BY <1>1, <2>1 DEF WindowInv
<1> QED
  BY <1>4, <1>5, <1>6, <1>7, <1>8, <1>9, <1>10 DEF Next, Producer, ProducerStep

LEMMA WindowGivesLatest ==
    ASSUME BlockInv, Ordered(delivered, chunks, openChunk, next), WindowInv, prodPc = "idle"
    PROVE  /\ InOrder
           /\ \E first \in 1 .. next :
                /\ UNION {Range(pieces[i]) : i \in 1 .. Len(pieces)} = first .. next - 1
                /\ first = 1 \/ next - first >= (NumBlocks - 1) * BlockSize + 1
<1>1. PICK base \in Nat :
         /\ Window(base, chunks, openChunk, next)
         /\ base = 0 \/ Len(chunks) = NumBlocks - 1
  BY DEF WindowInv
<1>2. /\ delivered \in Seq(Nat) /\ openChunk \in Seq(Nat) /\ next \in Nat
      /\ chunks \in Seq(Seq(Nat)) /\ Len(chunks) \in Nat
  BY Typed
<1>3. /\ base + Offset(Len(chunks)) + Len(openChunk) = next - 1
      /\ Offset(Len(chunks)) \in Nat /\ Len(openChunk) \in Nat
  BY <1>1, <1>2, Offsets DEF Window
<1>4. base + 1 \in 1 .. next
  BY <1>2, <1>3
<1>5. UNION {Range(pieces[i]) : i \in 1 .. Len(pieces)} = (base + 1) .. next - 1
  <2>1. Range(delivered) = {}
    BY DEF WindowInv, Range
  <2>2. /\ pieces[1] = delivered /\ pieces[Len(chunks) + 2] = openChunk
        /\ 1 \in 1 .. Len(pieces) /\ Len(chunks) + 2 \in 1 .. Len(pieces)
        /\ \A i \in 1 .. Len(chunks) : i + 1 \in 1 .. Len(pieces) /\ pieces[i + 1] = chunks[i]
        /\ \A j \in 1 .. Len(pieces) :
              j = 1 \/ j = Len(chunks) + 2 \/ \E i \in 1 .. Len(chunks) : j = i + 1
    BY PieceEntries
  <2>3. /\ \A x \in Range(openChunk) : x \in (base + 1) .. next - 1
        /\ \A i \in 1 .. Len(chunks) : \A x \in Range(chunks[i]) : x \in (base + 1) .. next - 1
        /\ \A x \in (base + 1) .. next - 1 :
              x \in Range(openChunk) \/ \E i \in 1 .. Len(chunks) : x \in Range(chunks[i])
    BY <1>1, <1>2, WindowIsInterval
  <2>4. ASSUME NEW j \in 1 .. Len(pieces), NEW x \in Range(pieces[j])
        PROVE  x \in (base + 1) .. next - 1
    BY <2>1, <2>2, <2>3, <2>4
  <2>5. ASSUME NEW x \in (base + 1) .. next - 1
        PROVE  \E j \in 1 .. Len(pieces) : x \in Range(pieces[j])
    BY <2>2, <2>3, <2>5
  <2> QED
    BY <2>4, <2>5
<1>6. base + 1 = 1 \/ next - (base + 1) >= (NumBlocks - 1) * BlockSize + 1
  <2>1. CASE base = 0
    BY <2>1
  <2>2. CASE base # 0 /\ Len(chunks) = NumBlocks - 1
    <3>1. next > 1
      BY <1>2, <1>3, <2>2
    <3>2. Len(openChunk) >= 1
      BY <1>2, <3>1, EmptySeq DEF WindowInv
    <3>3. Offset(Len(chunks)) = (NumBlocks - 1) * BlockSize
      BY <2>2 DEF Offset
    <3>4. next - (base + 1) >= Offset(Len(chunks)) + 1
      BY <1>2, <1>3, <3>2
    <3> QED
      BY <3>3, <3>4
  <2> QED
    BY <1>1, <2>1, <2>2
<1>7. InOrder
  BY InOrderFromOrdered
<1> QED
  BY <1>4, <1>5, <1>6, <1>7

\* In circular mode the buffer holds the latest samples, as many as fit in all
\* blocks but one plus at least one, without a gap and in order.
THEOREM Latest ==
    ASSUME ~ (Circular /\ ExplicitFlush)
    PROVE  Spec => []LatestWindow
<1> DEFINE Inv == /\ BlockInv /\ ContentInv
                  /\ Ordered(delivered, chunks, openChunk, next)
                  /\ Circular => WindowInv
<1>1. Init => Inv
  BY InitInv, InitContent, OrderedInit, WindowInit
<1>2. Inv /\ [Next]_vars => Inv'
  BY StepInv, ContentStep, OrderedStep, WindowStep DEF Circular
<1>3. Inv => LatestWindow
  BY WindowGivesLatest DEF LatestWindow
<1> QED
  BY <1>1, <1>2, <1>3, PTL DEF Spec

=============================================================================
