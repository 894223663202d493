----------------------------- MODULE VarBuffer -----------------------------
(***************************************************************************)
(* XBot::VariableBuffer (var_buffer.h, var_buffer.cpp): the samples of one *)
(* logged variable travel from the thread that logs to the thread that     *)
(* writes the file in blocks, allocated once and passed round:             *)
(*                                                                         *)
(*    pool -> current -> read queue -> consumer -> write queue -> pool     *)
(*                                                                         *)
(* The two queues are the lock-free rings of SpscRing, here FIFO sequences *)
(* (SpscRingProofs shows that they are).  With StaleLoads a thread may     *)
(* also act on an old value of the other's ring index.  No lock is taken   *)
(* anywhere in this module: the producer is a real-time thread.            *)
(***************************************************************************)
EXTENDS Integers, SequencesExt

CONSTANTS NumBlocks,      \* NUM_BLOCKS
          BlockSize,      \* samples per block
          MaxSamples,     \* bound: samples logged in a behaviour
          Mode,           \* "producer_consumer" or "circular_buffer"
          ExplicitFlush,  \* the owner also calls flush_to_queue itself
          StaleLoads      \* ring indices may be loaded late

ASSUME SizesAssumption ==
    /\ NumBlocks \in Nat /\ NumBlocks >= 2
    /\ BlockSize \in Nat \ {0}
    /\ MaxSamples \in Nat
ASSUME ModeAssumption ==
    /\ Mode \in {"producer_consumer", "circular_buffer"}
    /\ ExplicitFlush \in BOOLEAN /\ StaleLoads \in BOOLEAN

\* The block objects, numbered in the order of their allocation.
Blocks == 1 .. NumBlocks

VARIABLES
    content,    \* block -> its valid samples, the first _write_idx columns
    pool,       \* _block_pool, a stack: back() is the last element
    current,    \* _current_block
    readQ,      \* _read_queue, oldest first
    writeQ,     \* _write_queue, oldest first
    next,       \* the sample the producer logs next: 1, 2, 3, ...
    prodPc,     \* where the producer is in add_elem / flush_to_queue
    caller,     \* who called flush_to_queue: "add_elem" or "owner"
    newBlock,   \* flush_to_queue's new_block: << >> or <<block>>
    freeSpace,  \* buf_info.variable_free_space * NumBlocks
    consPc,     \* where the consumer is in read_block
    block,      \* read_block's block: << >> or <<block>>
    delivered   \* history: every sample read_block returned, in order

prodVars == <<pool, current, next, prodPc, caller, newBlock, freeSpace>>
consVars == <<consPc, block, delivered>>
vars == <<content, pool, current, readQ, writeQ, next, prodPc, caller,
          newBlock, freeSpace, consPc, block, delivered>>

Circular == Mode = "circular_buffer"

\* Both queues are spsc_queue<..., capacity<NUM_BLOCKS>>.
QueueCapacity == NumBlocks

\* How many of n published entries a thread sees.
Seen(n) == IF StaleLoads THEN 0 .. n ELSE {n}

\* How many of the consumer's pops from the read queue the producer may not
\* know of: taking a block back from the write queue (acquire) tells it of the
\* pop that preceded, so at most the blocks it has not got back yet.
UnseenPops == IF StaleLoads THEN 0 .. Len(writeQ) + Len(block) ELSE {0}

-----------------------------------------------------------------------------
\* The constructors: all blocks in the pool, the last one taken as current.
Init ==
    /\ content = [b \in Blocks |-> << >>]
    /\ pool = [i \in 1 .. NumBlocks - 1 |-> i]
    /\ current = NumBlocks
    /\ readQ = << >> /\ writeQ = << >>
    /\ next = 1
    /\ prodPc = "idle" /\ caller = "add_elem" /\ newBlock = << >> /\ freeSpace = 0
    /\ consPc = "idle" /\ block = << >> /\ delivered = << >>

\* Where the producer continues when flush_to_queue returns.
ReturnPc == IF caller = "add_elem" THEN "retry" ELSE "idle"

-----------------------------------------------------------------------------
(* Bugs the checks must find: mutated forms of the actions below.           *)

\* An empty block is flushed too.
FlushBegin_Empty(who) ==
    /\ prodPc = "idle"
    /\ \E u \in UnseenPops : freeSpace' = QueueCapacity - (Len(readQ) + u)
    /\ caller' = who
    /\ prodPc' = "get"
    /\ UNCHANGED <<content, pool, current, readQ, writeQ, next, newBlock, consVars>>

\* The free space counts all slots of the ring, capacity + 1.
FlushBegin_AllSlots(who) ==
    /\ prodPc = "idle"
    /\ content[current] # << >>
    /\ \E u \in UnseenPops : freeSpace' = QueueCapacity + 1 - (Len(readQ) + u)
    /\ caller' = who
    /\ prodPc' = "get"
    /\ UNCHANGED <<content, pool, current, readQ, writeQ, next, newBlock, consVars>>

\* The queue's blocks go to the pool, but are not removed from the queue.
GetNewBlock_Peek ==
    /\ prodPc = "get"
    /\ \E n \in Seen(Len(writeQ)) :
         LET all == pool \o SubSeq(writeQ, 1, n)
         IN  IF all = << >>
             THEN /\ prodPc' = IF Circular THEN "steal" ELSE ReturnPc
                  /\ UNCHANGED <<content, pool, newBlock>>
             ELSE /\ newBlock' = <<Last(all)>>
                  /\ content' = [content EXCEPT ![Last(all)] = << >>]
                  /\ pool' = Front(all)
                  /\ prodPc' = "push"
    /\ UNCHANGED <<current, readQ, writeQ, next, caller, freeSpace, consVars>>

\* The block taken from the pool is not removed from it.
GetNewBlock_NoPopBack ==
    /\ prodPc = "get"
    /\ LET all == pool \o writeQ
       IN  /\ writeQ' = << >>
           /\ IF all = << >>
              THEN /\ prodPc' = IF Circular THEN "steal" ELSE ReturnPc
                   /\ UNCHANGED <<content, pool, newBlock>>
              ELSE /\ newBlock' = <<Last(all)>>
                   /\ content' = [content EXCEPT ![Last(all)] = << >>]
                   /\ pool' = all
                   /\ prodPc' = "push"
    /\ UNCHANGED <<current, readQ, next, caller, freeSpace, consVars>>

\* The producer waits for the consumer when there is no block.
GetNewBlock_Wait ==
    /\ prodPc = "get"
    /\ LET all == pool \o writeQ
       IN  /\ all # << >>
           /\ writeQ' = << >>
           /\ newBlock' = <<Last(all)>>
           /\ content' = [content EXCEPT ![Last(all)] = << >>]
           /\ pool' = Front(all)
           /\ prodPc' = "push"
    /\ UNCHANGED <<current, readQ, next, caller, freeSpace, consVars>>

\* Circular mode overwrites the newest queued block.
StealOldest_Newest ==
    /\ prodPc = "steal" /\ readQ # << >>
    /\ newBlock' = <<Last(readQ)>>
    /\ readQ' = Front(readQ)
    /\ prodPc' = "push"
    /\ UNCHANGED <<content, pool, current, writeQ, next, caller, freeSpace, consVars>>

\* add_elem does not reset the current block after the flush.
ResetAndAdd_NoReset ==
    /\ prodPc = "retry"
    /\ content' = [content EXCEPT ![current] = Append(@, next)]
    /\ next' = next + 1
    /\ prodPc' = "idle"
    /\ freeSpace' = 0
    /\ UNCHANGED <<pool, current, readQ, writeQ, caller, newBlock, consVars>>

\* The consumer takes the newest block.
PopBlock_Newest ==
    /\ consPc = "idle" /\ ~ Circular
    /\ readQ # << >>
    /\ block' = <<Last(readQ)>>
    /\ readQ' = Front(readQ)
    /\ consPc' = "copy"
    /\ UNCHANGED <<content, writeQ, delivered, prodVars>>

\* The consumer returns a block twice.
ReturnBlock_Twice ==
    /\ consPc = "return"
    /\ writeQ' = writeQ \o block \o block
    /\ block' = << >>
    /\ consPc' = "idle"
    /\ UNCHANGED <<content, readQ, delivered, prodVars>>

-----------------------------------------------------------------------------
(* The producer: add_elem and flush_to_queue.                               *)

\* add_elem: the current block has room.
AddElem ==
    /\ prodPc = "idle" /\ next <= MaxSamples
    /\ Len(content[current]) < BlockSize
    /\ content' = [content EXCEPT ![current] = Append(@, next)]
    /\ next' = next + 1
    /\ UNCHANGED <<pool, current, readQ, writeQ, prodPc, caller, newBlock,
                   freeSpace, consVars>>

\* flush_to_queue: fill buf_info (nothing happens if the block is empty).
FlushBegin(who) ==
    /\ prodPc = "idle"
    /\ content[current] # << >>
    /\ \E u \in UnseenPops : freeSpace' = QueueCapacity - (Len(readQ) + u)
    /\ caller' = who
    /\ prodPc' = "get"
    /\ UNCHANGED <<content, pool, current, readQ, writeQ, next, newBlock, consVars>>

\* add_elem: the current block is full.
AddElemFull ==
    /\ next <= MaxSamples
    /\ Len(content[current]) = BlockSize
    /\ FlushBegin("add_elem")

\* The owner's own call: flush_to_queue_all of the logger's destructor, or a
\* user of VariableBuffer.
Flush == ExplicitFlush /\ FlushBegin("owner")

\* get_new_block, and what flush_to_queue does when there is none.
GetNewBlock ==
    /\ prodPc = "get"
    /\ \E n \in Seen(Len(writeQ)) :
         LET all == pool \o SubSeq(writeQ, 1, n)
         IN  /\ writeQ' = SubSeq(writeQ, n + 1, Len(writeQ))
             /\ IF all = << >>
                THEN /\ prodPc' = IF Circular THEN "steal" ELSE ReturnPc
                     /\ UNCHANGED <<content, pool, newBlock>>
                ELSE /\ newBlock' = <<Last(all)>>
                     /\ content' = [content EXCEPT ![Last(all)] = << >>]
                     /\ pool' = Front(all)
                     /\ prodPc' = "push"
    /\ UNCHANGED <<current, readQ, next, caller, freeSpace, consVars>>

\* Circular mode: overwrite the oldest block.  Failing would throw.
StealOldest ==
    /\ prodPc = "steal"
    /\ IF readQ = << >>
       THEN prodPc' = "threw" /\ UNCHANGED <<newBlock, readQ>>
       ELSE /\ newBlock' = <<Head(readQ)>>
            /\ readQ' = Tail(readQ)
            /\ prodPc' = "push"
    /\ UNCHANGED <<content, pool, current, writeQ, next, caller, freeSpace, consVars>>

\* Push the current block and replace it.  A full queue would throw.
PushCurrent ==
    /\ prodPc = "push"
    /\ \E u \in UnseenPops :
         IF Len(readQ) + u >= QueueCapacity
         THEN prodPc' = "threw" /\ UNCHANGED <<readQ, current, newBlock>>
         ELSE /\ readQ' = Append(readQ, current)
              /\ current' = newBlock[1]
              /\ newBlock' = << >>
              /\ prodPc' = "callback"
    /\ UNCHANGED <<content, pool, writeQ, next, caller, freeSpace, consVars>>

\* The callback registered by the owner gets buf_info; its effects are the
\* business of the modules that register one.
OnBlockAvailable ==
    /\ prodPc = "callback"
    /\ prodPc' = ReturnPc
    /\ freeSpace' = 0
    /\ UNCHANGED <<content, pool, current, readQ, writeQ, next, caller, newBlock,
                   consVars>>

\* add_elem, whatever flush_to_queue returned: reset the current block and add
\* the sample to it.
ResetAndAdd ==
    /\ prodPc = "retry"
    /\ content' = [content EXCEPT ![current] = <<next>>]
    /\ next' = next + 1
    /\ prodPc' = "idle"
    /\ freeSpace' = 0
    /\ UNCHANGED <<pool, current, readQ, writeQ, caller, newBlock, consVars>>

-----------------------------------------------------------------------------
(* The consumer: read_block.                                                *)

\* read_block throws in circular mode; otherwise it pops a block, or finds none.
PopBlock ==
    /\ consPc = "idle" /\ ~ Circular
    /\ readQ # << >>
    /\ block' = <<Head(readQ)>>
    /\ readQ' = Tail(readQ)
    /\ consPc' = "copy"
    /\ UNCHANGED <<content, writeQ, delivered, prodVars>>

\* Copy out the valid samples and reset the block.
CopyBlock ==
    /\ consPc = "copy"
    /\ delivered' = delivered \o content[block[1]]
    /\ content' = [content EXCEPT ![block[1]] = << >>]
    /\ consPc' = "return"
    /\ UNCHANGED <<readQ, writeQ, block, prodVars>>

\* Send it back; the result of push is not looked at.
ReturnBlock ==
    /\ consPc = "return"
    /\ writeQ' = IF Len(writeQ) < QueueCapacity THEN writeQ \o block ELSE writeQ
    /\ block' = << >>
    /\ consPc' = "idle"
    /\ UNCHANGED <<content, readQ, delivered, prodVars>>

-----------------------------------------------------------------------------
\* The steps of a call that has begun.
ProducerStep == GetNewBlock \/ StealOldest \/ PushCurrent \/ OnBlockAvailable \/ ResetAndAdd

Producer == AddElem \/ AddElemFull \/ Flush \/ ProducerStep

Consumer == PopBlock \/ CopyBlock \/ ReturnBlock

Next == Producer \/ Consumer

Spec == Init /\ [][Next]_vars

\* The producer, once in a call, keeps running; nothing is assumed of the
\* consumer.
FairSpec == Spec /\ WF_vars(ProducerStep)

-----------------------------------------------------------------------------
(* Properties.                                                              *)

\* Every variable keeps its type; no block holds more than BlockSize samples.
TypeOK ==
    /\ content \in [Blocks -> Seq(1 .. MaxSamples)]
    /\ \A b \in Blocks : Len(content[b]) <= BlockSize
    /\ pool \in Seq(Blocks) /\ readQ \in Seq(Blocks) /\ writeQ \in Seq(Blocks)
    /\ current \in Blocks
    /\ next \in 1 .. MaxSamples + 1
    /\ prodPc \in {"idle", "get", "steal", "push", "callback", "retry", "threw"}
    /\ caller \in {"add_elem", "owner"}
    /\ newBlock \in Seq(Blocks)
    /\ freeSpace \in 0 .. QueueCapacity
    /\ consPc \in {"idle", "copy", "return"}
    /\ block \in Seq(Blocks)
    /\ delivered \in Seq(1 .. MaxSamples)

\* There are as many entries in the places a block can be as there are blocks,
BlockCount ==
    1 + Len(newBlock) + Len(pool) + Len(readQ) + Len(block) + Len(writeQ)
      = NumBlocks

\* and every block is in one of them.
BlocksCovered ==
    Blocks \subseteq {current} \cup Range(newBlock) \cup Range(pool)
                       \cup Range(readQ) \cup Range(block) \cup Range(writeQ)

\* So every block is in exactly one place: the two threads never hold the same
\* block, none leaks, and none enters the pool twice.  This is all that keeps
\* add_elem and read_block from racing on a block's memory without a lock.
OneOwner == BlockCount /\ BlocksCovered

\* The two exceptions of flush_to_queue marked "should never be called" are
\* never thrown, and the unchecked push of read_block never fails.
NeverThrows ==
    /\ prodPc # "threw"
    /\ consPc = "return" => Len(writeQ) < QueueCapacity

\* No empty block is ever queued: read_block would return false for it and the
\* consumer's loop would stop with full blocks behind it.
NoEmptyBlockQueued ==
    /\ \A i \in 1 .. Len(readQ) : content[readQ[i]] # << >>
    /\ consPc = "copy" => content[block[1]] # << >>

\* The samples of the current block, unless add_elem is about to reset it.
openChunk ==
    IF prodPc = "retry" \/ (prodPc = "callback" /\ caller = "add_elem")
    THEN << >> ELSE content[current]

\* The chunks on their way to the consumer: a block popped but not yet copied
\* is still queued.
chunks ==
    [i \in 1 .. Len(readQ) + (IF consPc = "copy" THEN 1 ELSE 0) |->
        IF consPc # "copy" THEN content[readQ[i]]
        ELSE IF i = 1 THEN content[block[1]] ELSE content[readQ[i - 1]]]

\* Everything logged and not lost, oldest first.
pieces == <<delivered>> \o chunks \o <<openChunk>>

Increasing(s) == \A a, b \in 1 .. Len(s) : a < b => s[a] < s[b]
Before(s, t) == \A a \in 1 .. Len(s), b \in 1 .. Len(t) : s[a] < t[b]

\* Samples stay in the order they were logged, none appears twice, whatever
\* was lost in between and whichever block carried them.
InOrder ==
    \A j \in 1 .. Len(pieces) :
        /\ Increasing(pieces[j])
        /\ \A i \in 1 .. j - 1 : Before(pieces[i], pieces[j])

\* In circular mode the buffer holds the latest samples without a gap: when it
\* is full, the oldest are overwritten and no others.  Nor does it overwrite
\* too many: it holds everything until it is full, then at least all blocks
\* but one, plus one sample.
LatestWindow ==
    Circular /\ prodPc = "idle" =>
        /\ InOrder
        /\ \E first \in 1 .. next :
             /\ UNION {Range(pieces[i]) : i \in 1 .. Len(pieces)} = first .. next - 1
             /\ first = 1 \/ next - first >= (NumBlocks - 1) * BlockSize + 1

\* The free space that the callback is told was true but for the block just
\* pushed, even though the consumer runs and old indices may be loaded: the
\* flush threshold is never missed by more than one block.
ReportedSpace ==
    prodPc = "callback" => QueueCapacity - Len(readQ) >= freeSpace - 1

\* What holds at each point of flush_to_queue and read_block.
ControlInv ==
    /\ Len(newBlock) = IF prodPc = "push" THEN 1 ELSE 0
    /\ Len(block) = IF consPc = "idle" THEN 0 ELSE 1
    /\ prodPc = "retry" => caller = "add_elem"
    /\ prodPc # "idle" /\ caller = "add_elem" => next <= MaxSamples
    /\ prodPc = "steal" => Circular /\ pool = << >>
    /\ Circular => consPc = "idle" /\ writeQ = << >>
    /\ prodPc \in {"get", "steal", "push"} =>
         QueueCapacity - Len(readQ) >= freeSpace

\* Counting the blocks at each point of the code is what shows that neither
\* exception is thrown; ControlInv makes the count inductive.
BlockInv ==
    TypeOK /\ OneOwner /\ ControlInv /\ NeverThrows /\ ReportedSpace

\* What the blocks hold at each point of flush_to_queue: only blocks with
\* samples are flushed, add_elem flushes full ones, and the block that takes
\* over is empty unless it was stolen from the read queue.
ContentInv ==
    /\ NoEmptyBlockQueued
    /\ prodPc \in {"get", "steal", "push"} =>
         /\ content[current] # << >>
         /\ caller = "add_elem" => Len(content[current]) = BlockSize
    /\ prodPc = "push" /\ ~ Circular => content[newBlock[1]] = << >>
    /\ prodPc # "idle" /\ caller = "owner" => ExplicitFlush

\* add_elem and flush_to_queue finish by the producer's own steps: they never
\* wait for the consumer, which may be in the middle of a disk write.
ProducerNeverBlocks == prodPc # "idle" ~> prodPc = "idle"

\* Chunks delivered but not given back.
outstanding == Len(writeQ) + (IF consPc = "return" THEN 1 ELSE 0)

Lossy == INSTANCE LossyBuffer WITH
            Chunks <- NumBlocks, ChunkSize <- BlockSize, Samples <- 1 .. MaxSamples,
            open <- openChunk, sealed <- chunks,
            held <- outstanding

\* The block exchange implements the lossy buffer: data is delivered whole, in
\* order and once, and is lost only when all other blocks are taken, or were
\* given back too late for the producer to see.
ImplementsLossyBuffer == Lossy!BufferSpec
=============================================================================
