---------------------------- MODULE LossyBuffer ----------------------------
(***************************************************************************)
(* What the buffer of a logged variable promises, without blocks changing  *)
(* hands: samples are collected into chunks of at most ChunkSize, sealed   *)
(* chunks are delivered in order and whole, and samples are lost only a    *)
(* whole chunk at a time and only when Chunks - 1 others are taken:        *)
(*   - in producer-consumer mode the newest chunk is lost,                 *)
(*   - in circular mode the oldest.                                        *)
(* VarBuffer implements it.                                                *)
(***************************************************************************)
EXTENDS Naturals, Sequences

CONSTANTS Chunks,     \* VariableBuffer::NumBlocks()
          ChunkSize,  \* samples per block
          Samples,    \* what can be logged
          Circular    \* TRUE in circular-buffer mode

VARIABLES open,       \* the chunk being filled
          sealed,     \* full or flushed chunks, oldest first
          held,       \* delivered chunks not given back, as far as the logging
                      \* thread knows
          delivered   \* all samples handed to the consumer so far

bufferVars == <<open, sealed, held, delivered>>

BufferInit ==
    /\ open = << >>
    /\ sealed = << >>
    /\ held = 0
    /\ delivered = << >>

Add(x) ==
    /\ Len(open) < ChunkSize
    /\ open' = Append(open, x)
    /\ UNCHANGED <<sealed, held, delivered>>

Seal ==
    /\ open # << >>
    /\ Len(sealed) + held < Chunks - 1
    /\ sealed' = Append(sealed, open)
    /\ open' = << >>
    /\ UNCHANGED <<held, delivered>>

DropNewest ==
    /\ ~ Circular
    /\ Len(open) = ChunkSize
    /\ Len(sealed) + held = Chunks - 1
    /\ open' = << >>
    /\ UNCHANGED <<sealed, held, delivered>>

DropOldest ==
    /\ Circular
    /\ Len(sealed) = Chunks - 1
    /\ sealed' = Tail(sealed)
    /\ UNCHANGED <<open, held, delivered>>

Deliver ==
    /\ ~ Circular
    /\ sealed # << >>
    /\ delivered' = delivered \o Head(sealed)
    /\ sealed' = Tail(sealed)
    /\ held' = held + 1
    /\ UNCHANGED open

GiveBack ==
    /\ held' \in 0 .. held - 1
    /\ UNCHANGED <<open, sealed, delivered>>

BufferNext ==
    \/ \E x \in Samples : Add(x)
    \/ Seal \/ DropNewest \/ DropOldest \/ Deliver \/ GiveBack

BufferSpec == BufferInit /\ [][BufferNext]_bufferVars
=============================================================================
