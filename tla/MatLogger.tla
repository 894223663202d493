----------------------------- MODULE MatLogger -----------------------------
(***************************************************************************)
(* XBot::MatLogger2 (matlogger2.cpp): the variables of one logger, their   *)
(* two mutexes, and the destructor that must bring everything to the file. *)
(*                                                                         *)
(* Threads, as matlogger2.h:53-56 allows them: one producer that creates   *)
(* variables, adds samples and saves structures; one flusher that calls    *)
(* flush_available_data; the owner, who sets mode and callback and drops   *)
(* the logger when the others are out of it.                               *)
(*                                                                         *)
(* The buffer of a variable is that of LossyBuffer; taking a block from it *)
(* and giving the block back is one step here.  The backend is MatFile's.  *)
(***************************************************************************)
EXTENDS MatFile, Integers, SequencesExt

CONSTANTS Vars,          \* names of variables
          Matrices,      \* those whose samples have several columns
          Rows, Cols,    \* sizes of a sample of theirs
          Structs,       \* names under which structures are saved
          Chunks,        \* VariableBuffer::NumBlocks()
          ChunkSize,     \* samples per block
          Modes,         \* the modes the owner chooses from
          MaxSamples,    \* bound: samples added per variable
          MaxSaves       \* bound: structures saved

ASSUME LoggerAssumption ==
    /\ Matrices \subseteq Vars /\ Rows \in Nat \ {0} /\ Cols \in Nat \ {0, 1}
    /\ Chunks \in Nat /\ Chunks >= 2 /\ ChunkSize \in Nat \ {0}
    /\ Modes \subseteq {"producer_consumer", "circular_buffer"}
    /\ MaxSamples \in Nat /\ MaxSaves \in Nat

Names  == Vars \cup Structs
Nobody == "nobody"
None   == "none"

VARIABLES
    \* the logger
    vars,      \* the keys of _vars
    cb,        \* variable -> whether its _on_block_available is set
    vmode,     \* variable -> its _buffer_mode
    callback,  \* whether the logger's _on_block_available is set
    mode,      \* the logger's _buffer_mode
    varsLock,  \* holder of _vars_mutex
    matq,      \* _matdata_queue, as names
    matLock,   \* holder of _matdata_queue_mutex
    life,      \* "alive", where its destructor is, or "closed"
    \* the buffers
    open,      \* variable -> its current block
    sealed,    \* variable -> its read queue
    \* the threads
    prodPc, target,      \* the producer, and the variable it adds to
    ownerPc, assign,     \* the owner, and the variables whose callback it sets
    flushPc, todo, at,   \* flush_available_data: the variables to visit, the one
    block, bytes,        \* visited, the block read, whether any was
    \* the file, and what the producer did
    file,      \* name -> entry of MatFile
    added,     \* variable -> how many samples were added: 1, 2, 3, ...
    lost,      \* variable -> samples dropped or overwritten by the buffer
    refused,   \* variable -> samples the backend did not write
    saves,     \* the names of structures saved
    wasCircular \* whether the logger was dropped in circular mode

mapVars   == <<vars, cb, vmode, callback, mode, varsLock>>
matVars   == <<matq, matLock>>
bufVars   == <<open, sealed, lost>>
prodVars  == <<prodPc, target, added, saves>>
ownerVars == <<ownerPc, assign, life, wasCircular>>
flushVars == <<flushPc, todo, at, block, bytes>>
fileVars  == <<file, refused>>

\* What no step of one of the threads changes.
producerFrame == <<ownerVars, flushVars, fileVars>>
flusherFrame  == <<prodVars, ownerVars, open, lost>>
ownerFrame    == <<matVars, prodVars, flushVars, fileVars>>
allVars == <<vars, cb, vmode, callback, mode, varsLock, matq, matLock, life, open,
             sealed, prodPc, target, ownerPc, assign, flushPc, todo, at, block,
             bytes, file, added, lost, refused, saves, wasCircular>>

Init ==
    /\ vars = {} /\ cb = [v \in Vars |-> FALSE]
    /\ vmode = [v \in Vars |-> "producer_consumer"]
    /\ callback = FALSE /\ mode = "producer_consumer" /\ varsLock = Nobody
    /\ matq = << >> /\ matLock = Nobody /\ life = "alive"
    /\ open = [v \in Vars |-> << >>] /\ sealed = [v \in Vars |-> << >>]
    /\ prodPc = "idle" /\ target = None /\ ownerPc = "idle" /\ assign = {}
    /\ flushPc = "idle" /\ todo = {} /\ at = None /\ block = << >> /\ bytes = FALSE
    /\ file = [n \in Names |-> Absent]
    /\ added = [v \in Vars |-> 0] /\ lost = [v \in Vars |-> 0]
    /\ refused = [v \in Vars |-> 0] /\ saves = << >> /\ wasCircular = FALSE

-----------------------------------------------------------------------------
(* The producer.                                                            *)

\* create, in its critical section: the variable gets callback and mode.
NewVariable(v) ==
    /\ vars' = vars \cup {v}
    /\ cb' = [cb EXCEPT ![v] = callback]
    /\ vmode' = [vmode EXCEPT ![v] = mode]
    /\ UNCHANGED <<callback, mode, varsLock>>

\* create, called by the user; an existing variable is left alone.
Create(v) ==
    /\ life = "alive" /\ prodPc = "idle" /\ varsLock = Nobody
    /\ v \notin vars
    /\ NewVariable(v)
    /\ UNCHANGED <<matVars, bufVars, prodVars, producerFrame>>

\* add: look the variable up, without the mutex; only the producer inserts.
Add(v) ==
    /\ life = "alive" /\ prodPc = "idle" /\ added[v] < MaxSamples
    /\ ownerPc = "idle"
    /\ target' = v
    /\ prodPc' = IF v \in vars THEN "add" ELSE "create"
    /\ UNCHANGED <<added, saves, mapVars, matVars, bufVars, producerFrame>>

\* find_or_create did not find it: wait for the mutex, create it, look again.
CreateOnAdd ==
    /\ prodPc = "create" /\ varsLock = Nobody
    /\ NewVariable(target)
    /\ prodPc' = "add"
    /\ UNCHANGED <<target, added, saves, matVars, bufVars, producerFrame>>

\* add_elem: there is room in the current block.
AddSample ==
    /\ prodPc = "add" /\ Len(open[target]) < ChunkSize
    /\ open' = [open EXCEPT ![target] = Append(@, added[target] + 1)]
    /\ added' = [added EXCEPT ![target] = @ + 1]
    /\ prodPc' = "idle" /\ target' = None
    /\ UNCHANGED <<sealed, lost, saves, mapVars, matVars, producerFrame>>

\* [Bug: as if the current block did not count.]
HasRoom_OffByOne(v) == Len(sealed[v]) < Chunks

\* get_new_block finds one: one block is current, the others are queued or free.
HasRoom(v) == Len(sealed[v]) < Chunks - 1

\* [Bug: circular mode overwrites the newest queued block.]
SealBlock_OverwriteNewest ==
    /\ prodPc = "add" /\ Len(open[target]) = ChunkSize
    /\ LET full == Append(sealed[target], open[target])
       IN  \/ /\ HasRoom(target)
              /\ sealed' = [sealed EXCEPT ![target] = full]
              /\ UNCHANGED lost
           \/ /\ ~ HasRoom(target)
              /\ sealed' = [sealed EXCEPT ![target] = Append(Front(@), open[target])]
              /\ lost' = [lost EXCEPT ![target] = @ + Len(Last(sealed[target]))]
    /\ prodPc' = "callback"
    /\ open' = [open EXCEPT ![target] = << >>]
    /\ UNCHANGED <<target, added, saves, mapVars, matVars, producerFrame>>

\* add_elem: the current block is full.  It goes to the read queue; with no
\* block free the oldest queued one is overwritten (circular mode) or the
\* current one is (producer-consumer mode, and then nobody is called back).
SealBlock ==
    /\ prodPc = "add" /\ Len(open[target]) = ChunkSize
    /\ LET full == Append(sealed[target], open[target])
       IN  \/ /\ HasRoom(target)
              /\ sealed' = [sealed EXCEPT ![target] = full]
              /\ prodPc' = "callback"
              /\ UNCHANGED lost
           \/ /\ ~ HasRoom(target) /\ vmode[target] = "circular_buffer"
              /\ sealed' = [sealed EXCEPT ![target] = Tail(full)]
              /\ prodPc' = "callback"
              /\ lost' = [lost EXCEPT ![target] = @ + Len(Head(full))]
           \/ /\ ~ HasRoom(target) /\ vmode[target] = "producer_consumer"
              /\ lost' = [lost EXCEPT ![target] = @ + ChunkSize]
              /\ UNCHANGED <<sealed, prodPc>>
    /\ open' = [open EXCEPT ![target] = << >>]
    /\ UNCHANGED <<target, added, saves, mapVars, matVars, producerFrame>>

\* Test and call the variable's callback, without a lock.
CallBack ==
    /\ prodPc = "callback"
    /\ prodPc' = "add"
    /\ UNCHANGED <<target, added, saves, mapVars, matVars, bufVars, producerFrame>>

Save(s) ==
    /\ life = "alive" /\ prodPc = "idle" /\ matLock = Nobody /\ Len(saves) < MaxSaves
    /\ matq' = Append(matq, s)
    /\ saves' = Append(saves, s)
    /\ UNCHANGED <<matLock, prodPc, target, added, mapVars, bufVars, producerFrame>>

-----------------------------------------------------------------------------
(* flush_available_data, by the flusher or by the destructor.  An exception *)
(* (read_block in circular mode) ends the thread, and with it the process.  *)

StartFlush ==
    /\ flushPc = "idle" /\ matLock = Nobody
    /\ matLock' = "flush"
    /\ flushPc' = "structs"
    /\ bytes' = FALSE
    /\ UNCHANGED <<todo, at, block, matq, mapVars, bufVars, prodVars, fileVars>>

\* In circular mode "the user CAN NOT call flush_available_data()"
\* (matlogger2.h:62).
Flush ==
    /\ life = "alive" /\ mode = "producer_consumer"
    /\ StartFlush
    /\ UNCHANGED ownerVars

\* [Bug: only the first structure.]
LeaveStructs_First ==
    /\ flushPc = "structs"
    /\ matLock' = Nobody
    /\ flushPc' = "lock"
    /\ UNCHANGED <<matq, todo, at, block, bytes, mapVars, fileVars, sealed,
                   flusherFrame>>

\* Structures first, in the order they were saved; the result is ignored.
WriteStruct ==
    /\ flushPc = "structs" /\ matq # << >>
    /\ file' = IF CanCreate(file[Head(matq)])
               THEN [file EXCEPT ![Head(matq)] = Whole] ELSE file
    /\ matq' = Tail(matq)
    /\ UNCHANGED <<matLock, refused, mapVars, flushVars, sealed, flusherFrame>>

LeaveStructs ==
    /\ flushPc = "structs" /\ matq = << >>
    /\ matLock' = Nobody
    /\ flushPc' = "lock"
    /\ UNCHANGED <<matq, todo, at, block, bytes, mapVars, fileVars, sealed,
                   flusherFrame>>

LockVars ==
    /\ flushPc = "lock" /\ varsLock = Nobody
    /\ varsLock' = "flush"
    /\ todo' = vars
    /\ flushPc' = "walk"
    /\ UNCHANGED <<at, block, bytes, vars, cb, vmode, callback, mode, matVars,
                   fileVars, sealed, flusherFrame>>

\* The loop over an unordered_map: any order.
PickVar(v) ==
    /\ flushPc = "walk" /\ v \in todo
    /\ at' = v
    /\ todo' = todo \ {v}
    /\ flushPc' = "read"
    /\ UNCHANGED <<block, bytes, mapVars, matVars, fileVars, sealed, flusherFrame>>

\* [Bug: the newest block first.]
ReadBlock_Newest ==
    /\ flushPc = "read" /\ sealed[at] # << >>
    /\ block' = Last(sealed[at])
    /\ sealed' = [sealed EXCEPT ![at] = Front(@)]
    /\ bytes' = TRUE
    /\ flushPc' = "write"
    /\ UNCHANGED <<todo, at, mapVars, matVars, fileVars, flusherFrame>>

ReadBlock ==
    /\ flushPc = "read" /\ vmode[at] = "producer_consumer" /\ sealed[at] # << >>
    /\ block' = Head(sealed[at])
    /\ sealed' = [sealed EXCEPT ![at] = Tail(@)]
    /\ bytes' = TRUE
    /\ flushPc' = "write"
    /\ UNCHANGED <<todo, at, mapVars, matVars, fileVars, flusherFrame>>

\* read_block finds nothing, or throws because of the mode.
StopReading ==
    /\ flushPc = "read"
    /\ vmode[at] = "circular_buffer" \/ sealed[at] = << >>
    /\ flushPc' = IF vmode[at] = "circular_buffer" THEN "threw" ELSE "walk"
    /\ at' = None
    /\ UNCHANGED <<todo, block, bytes, mapVars, matVars, fileVars, sealed,
                   flusherFrame>>

\* A vector's samples are the columns of the block, a matrix's its slices.
Dims(v, n) == IF v \in Matrices THEN BlockDims(Rows, Cols, n) ELSE BlockDims(Rows, n, 1)

\* The result of the write is ignored; "refused" is this model's record of it.
WriteBlock ==
    /\ flushPc = "write"
    /\ LET dims == Dims(at, Len(block))
       IN  \/ /\ CanAppend(file[at], dims)
              /\ file' = [file EXCEPT ![at] = Appended(@, dims, block)]
              /\ UNCHANGED refused
           \/ /\ ~ CanAppend(file[at], dims)
              /\ refused' = [refused EXCEPT ![at] = @ + Len(block)]
              /\ UNCHANGED file
    /\ block' = << >>
    /\ flushPc' = "read"
    /\ UNCHANGED <<todo, at, bytes, mapVars, matVars, sealed, flusherFrame>>

LeaveVars ==
    /\ flushPc = "walk" /\ todo = {}
    /\ varsLock' = Nobody
    /\ flushPc' = "idle"
    /\ UNCHANGED <<todo, at, block, bytes, vars, cb, vmode, callback, mode,
                   matVars, fileVars, sealed, flusherFrame>>

FlushStep ==
    \/ WriteStruct \/ LeaveStructs \/ LockVars \/ (\E v \in Vars : PickVar(v))
    \/ ReadBlock \/ StopReading \/ WriteBlock \/ LeaveVars

-----------------------------------------------------------------------------
(* The owner.                                                               *)

\* [Bug: without the mutex.]
BeginSetCallback_NoLock ==
    /\ life = "alive" /\ ownerPc = "idle" /\ ~ callback
    /\ prodPc = "idle" /\ \A v \in Vars : added[v] = 0
    /\ ownerPc' = "assign"
    /\ assign' = vars
    /\ UNCHANGED <<life, wasCircular, mapVars, bufVars, ownerFrame>>

\* set_on_data_available_callback, called by the user or by add_logger before the
\* first sample: the producer uses the variables' std::function without the mutex.
BeginSetCallback ==
    /\ life = "alive" /\ ownerPc = "idle" /\ ~ callback /\ varsLock = Nobody
    /\ prodPc = "idle" /\ \A v \in Vars : added[v] = 0
    /\ varsLock' = "owner"
    /\ ownerPc' = "assign"
    /\ assign' = vars
    /\ UNCHANGED <<vars, cb, vmode, callback, mode, life, wasCircular, bufVars,
                   ownerFrame>>

AssignCallback(v) ==
    /\ ownerPc = "assign" /\ v \in assign
    /\ cb' = [cb EXCEPT ![v] = TRUE]
    /\ assign' = assign \ {v}
    /\ UNCHANGED <<vars, vmode, callback, mode, varsLock, ownerPc, life,
                   wasCircular, bufVars, ownerFrame>>

EndSetCallback ==
    /\ ownerPc = "assign" /\ assign = {}
    /\ callback' = TRUE
    /\ varsLock' = Nobody
    /\ ownerPc' = "idle"
    /\ UNCHANGED <<vars, cb, vmode, mode, assign, life, wasCircular, bufVars,
                   ownerFrame>>

\* set_buffer_mode, "only [...] before starting using the logger"
\* (matlogger2.h:121); variables may have been created.
SetMode(m) ==
    /\ life = "alive" /\ ownerPc = "idle" /\ varsLock = Nobody
    /\ m # mode /\ prodPc = "idle" /\ flushPc = "idle" /\ \A v \in Vars : added[v] = 0
    /\ mode' = m
    /\ vmode' = [v \in Vars |-> IF v \in vars THEN m ELSE vmode[v]]
    /\ UNCHANGED <<vars, cb, callback, varsLock, matVars, bufVars, prodVars,
                   producerFrame>>

\* [Bug: the destructor stays in circular mode.]
BeginDestroy_KeepMode ==
    /\ life = "alive" /\ prodPc = "idle" /\ flushPc = "idle" /\ ownerPc = "idle"
    /\ callback' = FALSE /\ cb' = [v \in Vars |-> FALSE]
    /\ wasCircular' = (mode = "circular_buffer")
    /\ life' = "seal"
    /\ UNCHANGED <<vars, vmode, mode, varsLock, ownerPc, assign, bufVars,
                   ownerFrame>>

\* ~MatLogger2, when nobody is inside the logger: no callback, and a mode in
\* which blocks can be read.
BeginDestroy ==
    /\ life = "alive" /\ prodPc = "idle" /\ flushPc = "idle" /\ ownerPc = "idle"
    /\ callback' = FALSE
    /\ cb' = [v \in Vars |-> IF v \in vars THEN FALSE ELSE cb[v]]
    /\ mode' = "producer_consumer"
    /\ vmode' = [v \in Vars |-> IF v \in vars THEN "producer_consumer" ELSE vmode[v]]
    /\ wasCircular' = (mode = "circular_buffer")
    /\ life' = "seal"
    /\ UNCHANGED <<vars, varsLock, ownerPc, assign, bufVars, ownerFrame>>

CanSeal(v) == open[v] = << >> \/ HasRoom(v)

\* [Bug: the current block is reset although no free one was found.]
Sealing_ResetAnyway ==
    /\ open' = [v \in Vars |-> << >>]
    /\ sealed' = [v \in Vars |-> IF open[v] # << >> /\ CanSeal(v)
                                  THEN Append(sealed[v], open[v]) ELSE sealed[v]]

Sealing ==
    /\ open' = [v \in Vars |-> IF CanSeal(v) THEN << >> ELSE open[v]]
    /\ sealed' = [v \in Vars |-> IF open[v] # << >> /\ CanSeal(v)
                                  THEN Append(sealed[v], open[v]) ELSE sealed[v]]

\* [Bug: try again without making room.]
SealAll_NoFlush ==
    /\ life = "seal" /\ flushPc = "idle"
    /\ Sealing
    /\ life' = IF \A v \in vars : CanSeal(v) THEN "drain" ELSE "seal"
    /\ UNCHANGED <<lost, ownerPc, assign, wasCircular, mapVars, ownerFrame>>

\* flush_to_queue_all: the current blocks go to the read queues that have room.
SealAll ==
    /\ life = "seal" /\ flushPc = "idle"
    /\ Sealing
    /\ life' = IF \A v \in vars : CanSeal(v) THEN "drain" ELSE "room"
    /\ UNCHANGED <<lost, ownerPc, assign, wasCircular, mapVars, ownerFrame>>

\* The flush that makes room for another attempt, or one of the last flushes.
DestructorFlush ==
    /\ life \in {"room", "drain"}
    /\ StartFlush
    /\ life' = IF life = "room" THEN "seal" ELSE "drained"
    /\ UNCHANGED <<ownerPc, assign, wasCircular>>

\* The last flush found nothing: close the backend.
Close ==
    /\ life = "drained" /\ flushPc = "idle"
    /\ life' = IF bytes THEN "drain" ELSE "closed"
    /\ UNCHANGED <<ownerPc, assign, wasCircular, mapVars, bufVars, ownerFrame>>

Terminated == life = "closed" /\ UNCHANGED allVars

-----------------------------------------------------------------------------
Producer ==
    \/ \E v \in Vars : Create(v) \/ Add(v)
    \/ CreateOnAdd \/ AddSample \/ SealBlock \/ CallBack
    \/ \E s \in Structs : Save(s)

Owner ==
    \/ BeginSetCallback \/ (\E v \in Vars : AssignCallback(v)) \/ EndSetCallback
    \/ (\E m \in Modes : SetMode(m)) \/ BeginDestroy

Destructor == SealAll \/ DestructorFlush \/ Close

Next == Producer \/ Flush \/ FlushStep \/ Owner \/ Destructor \/ Terminated

Spec == Init /\ [][Next]_allVars

\* The thread that runs the destructor goes on.
FairSpec == Spec /\ WF_allVars(FlushStep) /\ WF_allVars(Destructor)

-----------------------------------------------------------------------------
(* Properties.                                                              *)

\* All samples of a variable that are on their way to the file or in it.
Pipeline(v) ==
    file[v].samples \o (IF at = v THEN block ELSE << >>)
        \o FlattenSeq(sealed[v]) \o open[v]

\* Every variable of the specification has its type; blocks and queues keep
\* to their sizes.
TypeOK ==
    /\ vars \subseteq Vars /\ cb \in [Vars -> BOOLEAN]
    /\ vmode \in [Vars -> {"producer_consumer", "circular_buffer"}]
    /\ callback \in BOOLEAN /\ mode \in {"producer_consumer", "circular_buffer"}
    /\ varsLock \in {Nobody, "flush", "owner"} /\ matLock \in {Nobody, "flush"}
    /\ life \in {"alive", "seal", "room", "drain", "drained", "closed"}
    /\ prodPc \in {"idle", "add", "create", "callback"} /\ target \in Vars \cup {None}
    /\ ownerPc \in {"idle", "assign"} /\ assign \subseteq vars
    /\ flushPc \in {"idle", "structs", "lock", "walk", "read", "write", "threw"}
    /\ todo \subseteq vars /\ at \in Vars \cup {None} /\ bytes \in BOOLEAN
    /\ wasCircular \in BOOLEAN
    /\ \A v \in Vars :
          /\ added[v] \in 0 .. MaxSamples
          /\ Len(open[v]) <= ChunkSize /\ Len(sealed[v]) < Chunks
          /\ \A i \in DOMAIN sealed[v] : Len(sealed[v][i]) \in 1 .. ChunkSize

\* Every sample added is in exactly one place: in the file, in a block on its
\* way there, or recorded as dropped by the buffer or refused by the backend.
\* Add, flush and destructor lose nothing else, in any interleaving.
Accounted ==
    \A v \in Vars : added[v] = Len(Pipeline(v)) + lost[v] + refused[v]

\* From the file to the current block samples are in the order in which they
\* were added: blocks overtake each other neither in the buffer, nor in flushes
\* that alternate with the producer, nor in the destructor's rounds.
InFileOrder ==
    \A v \in Vars :
        LET s == Pipeline(v) IN \A i \in 1 .. Len(s) - 1 : s[i] < s[i + 1]

\* Once the destructor has closed the backend, nothing waits in a block, a queue
\* or the structure queue: what was not lost or refused is in the file, and
\* so is every name under which a structure was saved.
ClosedIsComplete ==
    life = "closed" =>
        /\ matq = << >>
        /\ \A v \in Vars : Len(file[v].samples) + lost[v] + refused[v] = added[v]
        /\ \A i \in DOMAIN saves : file[saves[i]].kind # "absent"

\* A logger dropped in circular mode leaves the latest samples of a variable in
\* the file (unless the backend refused some), at least as many as the buffer
\* holds at its emptiest, without a gap.
CircularKeepsLatest ==
    life = "closed" /\ wasCircular =>
        \A v \in {w \in Vars : refused[w] = 0} :
            LET s == file[v].samples
            IN  /\ \A i \in DOMAIN s : s[i] = added[v] - Len(s) + i
                /\ \/ Len(s) = added[v]
                   \/ Len(s) > (Chunks - 1) * ChunkSize

\* Whenever the mutex is free every variable has the callback and the mode of
\* the logger, however creation, set_buffer_mode and the assignment of the
\* callback interleave: no variable is left that never notifies.
Uniform ==
    varsLock = Nobody =>
        \A v \in vars : cb[v] = callback /\ vmode[v] = mode

\* No flush, the destructor's least of all, meets a variable in circular mode:
\* read_block's exception would leave a destructor or a thread's main function.
NeverThrows == flushPc # "threw"

\* The entry of a variable has as many columns (scalars, vectors) or slices
\* (matrices) as samples, however they were divided among blocks:
\* "matrices are stacked to form a rows x cols x num_samples cube"
\* (matlogger2.h:30).
CubeLayout ==
    \A v \in Vars :
        LET n == Len(file[v].samples)
        IN  n > 0 => file[v].dims =
                IF v \notin Matrices THEN <<Rows, n>>
                ELSE IF n = 1 THEN <<Rows, Cols>> ELSE <<Rows, Cols, n>>

\* The destructor "flushes all buffers to disk" (matlogger2.h:185): of a variable
\* whose name nothing else uses the backend refuses no block.
NothingRefused ==
    life = "closed" => \A v \in Vars \ Structs : refused[v] = 0

\* The destructor comes to an end: its first loop (make room, seal what is left)
\* and its second (flush until nothing was flushed) both stop.
DestructorReturns == life = "seal" ~> life = "closed"
-----------------------------------------------------------------------------
(* Why Uniform and NeverThrows hold: the parts of an inductive invariant.   *)

\* The mutex is held in the critical sections and nowhere else.
LockInv ==
    /\ varsLock = "owner" <=> ownerPc = "assign"
    /\ varsLock = "flush" <=> flushPc \in {"walk", "read", "write"}

\* In the middle of set_on_data_available_callback the variables not in assign
\* have the new callback, which the logger itself gets last.
CallbackInv ==
    /\ callback \in BOOLEAN /\ cb \in [Vars -> BOOLEAN] /\ vars \subseteq Vars
    /\ ownerPc \in {"idle", "assign"} /\ assign \subseteq vars
    /\ ownerPc = "assign" => ~ callback
    /\ \A v \in vars : cb[v] <=> callback \/ (ownerPc = "assign" /\ v \notin assign)
    /\ prodPc = "create" => target \in Vars

\* Nobody is in a flush in circular mode, and the destructor leaves that mode.
ModeInv ==
    /\ vmode \in [Vars -> {"producer_consumer", "circular_buffer"}]
    /\ mode \in {"producer_consumer", "circular_buffer"}
    /\ \A v \in vars : vmode[v] = mode
    /\ flushPc # "idle" \/ life # "alive" => mode = "producer_consumer"
    /\ life # "alive" => ownerPc = "idle" /\ prodPc = "idle"
    /\ flushPc = "walk" => todo \subseteq vars
    /\ flushPc \in {"read", "write"} => at \in vars /\ todo \subseteq vars
    /\ flushPc # "threw"

\* Mutex, callbacks and modes agree at every point of the code: the owner's loop
\* over the variables, creation, flushes and the destructor included.
UniformInv == LockInv /\ CallbackInv /\ ModeInv
=============================================================================
