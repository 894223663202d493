# MatLogger2 in TLA+

Specifications of MatLogger2, the C++ library that logs numeric data from
real-time threads to MAT-files, with TLC configurations that check them on
small instances and TLAPS proofs that hold for every value of the constants.
Paths below are relative to the repository root.

## 1. The system

    real-time thread                               flusher thread
      MatLogger2::add                                MatAppender::flush_thread_main
          |                                               |
          v            full blocks ->                     v
      VariableBuffer  == read queue  ==>  MatLogger2::flush_available_data
        (one per      <= write queue ==            |
         variable)        <- empty blocks          v
          |                                    MatioBackend::write -> file
          +-- callback: enough data? --> wakes the flusher

| component | state | operations | who calls it |
|---|---|---|---|
| lock-free ring, `src/boost/spsc_queue_logger.hpp` (boost's spsc_queue, changed to keep its slots constructed) | slots, `write_index_`, `read_index_` | `reset`, `push`, `pop`, `consume_all`, `write_available` | one pushing and one popping thread per ring |
| `VariableBuffer`, `src/var_buffer.cpp` | 20 blocks: a pool, the current block, two rings | `add_elem`, `flush_to_queue`, `read_block`, `set_buffer_mode` | the producer; the consumer calls `read_block` only |
| `MatLogger2`, `src/matlogger2.cpp` | map of variables and its mutex, queue of structures and its mutex, callback, mode | `create`, `add`, `save`, `flush_available_data`, `set_*`, destructor | the user's threads, the flusher |
| `MatAppender`, `src/mat_appender.cpp` | list of weak pointers to loggers, byte count, flusher thread, its flags, mutex and condition variable | `add_logger`, `start_flush_thread`, `flush_available_data`, callback, destructor | the user, the producers' callbacks, the flusher |
| `MatioBackend`, `src/matio_backend.cpp`, over `matio/` | the MAT-file; of the open handle: access mode, number of data sets, cached directory | `init`, `load`, `write`, `write_container`, `readvar`, `read_container`, `get_var_names`, `delvar`, `close` | `MatLogger2` |
| backend factory, `src/matlogger2_backend.cpp` | table of factories | `MakeInstance` | the constructor of `MatLogger2` |
| `MatData`, `src/mat_data.cpp` | a tree of structures, cells and values | make, copy, move, assign, print | the user, the backend |
| threading wrappers, `src/thread.h`, `src/thread_replacement.h` | one POSIX object each | as in `std` | `MatLogger2`, `MatAppender` |
| vendored `matio/`: `mat.c`, `mat73.c` | the HDF5 file, `num_datasets`, `dir`, the index of the next link | `Mat_Open`, `Mat_Create73`, `Mat_GetDir`, `Mat_VarWrite*`, `Mat_VarRead*`, `Mat_VarDelete` | `MatioBackend` |
| Python bindings, tests, build files | | | |

**Interaction.** A producer adds samples to the current block of a variable.
A full block goes to the read queue, and the logger's callback tells the
appender, which decides whether to wake the flusher. The flusher walks along the
registered loggers, pops their blocks, copies and writes them and sends each
block back through the write queue. No lock is taken between producer and
consumer of a variable: a block's memory is protected only by its being in one
place at a time. Loggers and appender hold each other by weak pointers, and both
may be dropped by their users at any moment.

**What is hard.** Two threads exchanging blocks through rings whose indices they
may load late; unsigned arithmetic that wraps; a producer that may never wait; a
condition variable notified from callbacks; destructors that run in whichever
thread drops the last pointer, with a join inside; data that must reach the file
although the object it belongs to is going away; a library whose bookkeeping of
a file differs with the call that produced it; trees of owning pointers assigned
into themselves. `PROJECT.json` lists each of
these at its line ("hazards"), with the property that covers it.

**What makes each component correct.**

* Ring: a bounded FIFO; no slot is written and read at once; the free space it
  reports is never too high.
* VariableBuffer: each block has one owner; the "should never be called"
  exceptions are not; samples are delivered in order and once, and are lost only
  a whole block at a time when all others are taken (the newest block in
  producer-consumer mode, the oldest in circular mode); `add_elem` never waits.
* MatAppender: no lost wake-up; a buffer about to fill is flushed; neither
  loggers nor the appender are destroyed under a thread that uses them; every
  destructor returns; what a dropped logger held is on disk in the end.
* MatLogger2: what was added is in the file after the destructor, for several
  variables and structures, whatever the mode, if the backend accepts it; the
  destructor's loops end; every variable has the logger's callback and mode.
* MatioBackend: what `write` and `write_container` report as written is in the
  file, once, in order, over any sequence of sessions; it can be read again;
  deleting a variable deletes that one (it does not: finding 1).
* MatData: a copy shares nothing with its original, nothing leaks and nothing is
  used after it was destroyed; assignment works for every pair of nodes of a
  tree (it does not: finding 2).

## 2. The modules

| module | what it is |
|---|---|
| `BoundedFifo` | abstract: what a single-producer single-consumer queue promises |
| `SpscRing` | the ring of `spsc_queue_logger.hpp`, step by atomic step |
| `LossyBuffer` | abstract: what the buffer of one variable promises |
| `VarBuffer` | `VariableBuffer`: `add_elem`, `flush_to_queue`, `read_block` |
| `MatAppender` | appender, loggers, flusher thread and their lifetimes |
| `MatFile` | a numeric entry of a MAT-file as one logger writes it |
| `MatLogger` | `MatLogger2`: variables, mutexes, modes, callback, flush, destructor; over `MatFile` |
| `MatContainer` | what becomes of a value on its way into a MAT-file and back |
| `MatioBackend` | the backend and matio's bookkeeping, over sessions; extends `MatContainer` |
| `MatValues` | abstract: variables with value semantics |
| `MatData` | the objects of `MatData` and their owning pointers |
| `SpscRingProofs`, `VarBufferProofs`, `VarBufferRefinement`, `MatAppenderProofs`, `MatLoggerProofs`, `MatioBackendProofs`, `MatDataProofs` | the theorems |
| `FlattenTheorems` | lemmas about sequences of blocks, least elements and positions, for the proofs |
| `MCSpscRing`, `MCVarBuffer`, `MCMatAppender`, `MCMatLogger`, `MCMatioBackend`, `MCMatData` | what TLC instantiates |

Three refinements tie them together: `SpscRing` implements `BoundedFifo`, which
is why `VarBuffer` may take its rings for sequences; `VarBuffer` implements
`LossyBuffer`, which is how `MatLogger` describes the buffer of each variable;
and `MatData` implements `MatValues`.

Operators with an underscore and a suffix (`next_index_NoWrap`,
`copy_assign_Unchecked`, ...) are wrong versions of the definition they are named
after; each is a bug of the kind one could make there. No specification uses
them: they are there so that one can put them in place of the right definition
and see the property fail. `PROJECT.json` pairs each property of each run with
one ("mutants").

### SpscRing

One action for the load of the other thread's index together with the test on
it, one per element copied, one for the store of the thread's own index: the
places where the two threads can meet. `write_index_` and `read_index_` are
loaded with acquire or relaxed order. The model lets a load return any value
between the newest the thread has loaded before (`seen_read`, `seen_write`) and
the current one (`Loadable`); coherence of a single atomic forbids anything
older. The release of a store publishes the slots written before it, so a thread
that has loaded an index sees these slots. `write_available` is computed in
`size_t`: modulo `WordSize`. `reset(t)` pushes until full and pops until empty,
which is why both indices start at the last slot. `free` is what `write_available`
last told the pushing thread, 0 again once it has pushed. Only the overloads the library
instantiates are modelled: `push(T)`, `pop` (`consume_one`), `consume_all`.

### VarBuffer

Blocks are numbers; `content` maps each to the samples it holds. `pool`,
`current`, `newBlock` (a local of `flush_to_queue`), `readQ`, `block` (a local of
`read_block`) and `writeQ` are the places where a block can be.
`flush_to_queue` takes four steps for the producer (buffer info, new block, push,
callback), `read_block` three for the consumer. `flush_to_queue` is also called
by the owner of the buffer (`ExplicitFlush`), as `MatLogger2`'s destructor does.
The rings are FIFO sequences, justified by `SpscRing`. With `StaleLoads` a thread may act on an old index:
the producer then sees only part of the write queue (`Seen`) or takes the
read queue for longer than it is (`UnseenPops`). A block that has come back
through the write queue carries the consumer's earlier store of `read_index_`
with it (release and acquire on the write queue), so unseen pops are at most as
many as the blocks that are not back yet. Samples are numbered as they are
logged. `NumBlocks`, 20 in the code, and `BlockSize` are constants.

### MatAppender

A thread per logger, the owner of the appender (`Main`) and the flusher. A
logger is counted in blocks of one variable (being filled, queued, dropped, on
disk); popping, writing and returning a block is one step here, since VarBuffer
has the detail. `refs` and `arefs` hold the shared pointers: a thread that drops
the last goes on in the destructor, whichever thread it is. Whoever holds
`_loggers_mutex` walks along `left`: the flusher and `flush_available_data` to
flush, `add_logger` to look for the logger, each with a temporary pointer to
the logger it visits. The byte
count is not protected by a lock in the code: its load, its store and the
comparison are separate steps. `_cond.wait` is a load of the flag, a sleep that
releases the mutex, and spurious wake-ups.

### MatLogger and MatFile

A producer (`create`, `add`, `save`), a flusher and the owner of one logger, as
`matlogger2.h:53-56` allows them. `create` and `set_buffer_mode` are one step
each: their critical sections touch nothing another thread reads without the
mutex under the documented usage (the mode may only be set before logging).
`set_on_data_available_callback` takes a step per variable, because a producer
reads a variable's callback without the mutex and one that creates a variable
waits for it. `flush_available_data` takes the two mutexes one after the other
and a step per structure, variable, block read and block written. The buffer of a
variable is a sequence of sealed blocks and an open one, as in `LossyBuffer`; a
block read is given back in the same step, as `read_block` does. The destructor's
two loops go through `life`: seal, make room and seal again, then flush until
nothing was flushed.

`MatFile` says what matio makes of a block: a data set created by an append may
grow along the last dimension of the block, if the ranks agree
(`mat73.c:1347`); `Mat_VarWrite` refuses a name in use (`mat.c:2820`); a name
written whole cannot grow. Samples are numbered in the order in which they are
added. `lost` and `refused` are the model's record of what the buffer overwrote
and what the backend refused; the code keeps none (it ignores the result of
`write`, `matlogger2.cpp:402`).

### MatioBackend and MatContainer

`MatFile` is the file as a logger meets it that has created it. `MatioBackend` is
the file under every call of the backend, in every order, over sessions that
create or load it. Everything difficult comes from names being looked up in three
ways:

* HDF5 has the *links* (`entry`; `refs` for the group `#refs#`, which matio
  creates for the elements of cell arrays and which sorts before every name);
* `Mat_GetDir` fills a *directory* (`dir`) once, and the calls that write keep it
  up to date; `Mat_VarWrite` refuses the names in it;
* `Mat_VarReadInfo` walks along the links while the *index* of the next is below
  `num_datasets` (`Found`). `num_datasets` counts `#refs#` after `Mat_Open`, and
  does not after `Mat_Create73` or `Mat_VarDelete`. When it does not, the last
  name is not found (`Hidden`); when it does, the directory has a null pointer
  at its end (`Hole`).

`write` has one action per outcome: a new data set, an append, one that grows the
data set and then fails because the block has more rows than it (the room
remains: `Gap`; a block of fewer rows is padded with zeros), and a refusal.
`write_container` is refused for a name in the directory or a link, fails and
leaves an entry that is not in the directory, or succeeds. `delvar` is matio's
copy of everything it finds into a new file, whose directory the handle takes
over. It never looks at the access mode, and the copies cannot grow: a later
append to them is refused. `load` may be for reading; every handler checks the
mode the code checks. `acked` records, for each name, what was reported as
written since the name was last deleted. `readvar` and `read_container` change
nothing: what they find is `Found`, what they return is `entry`.

`MatContainer` follows a value. `Units` is `Mat_VarWriteChar73`, which sizes the
data set in bytes and fills it by characters: a text that is not ASCII comes back
padded with NULs, and one with a character of four bytes fails after its entry
was created. `Accepted` is the returned error, which in a struct is that of the
last field only. `Stored` is what comes back, and `HasData` says when nothing
does (an empty text or matrix, a struct without fields, at the top). A cell array
with an element matio cannot encode leaves a data set of which later calls make
nothing sensible: `TreesAssumption`, which also types the values, leaves these
out. That values are finite trees is not a matter of types: `Nested` says it by a
height for each value, and `MCMatioBackend` assumes such heights for TLC's values
(`FiniteValues`).

### MatData and MatValues

`heap` maps the identity of each `MatDataBase` object to its label and its
pointers; addresses are paths from the program's variables (`Follow`). `Owned` is
what a pointer's destruction takes with it (`Reset`), `Clone` what the copy
constructors make. The order inside an assignment is the code's: `operator=`
resets its own pointer and then clones (`mat_data.cpp:157-158`); a move takes the
right pointer before it destroys the left object, as `unique_ptr` does. With
`Aliasing` callers also assign between a value and its own components. `save`
queues a copy (`save(MatData&&)` copies too), `flush` writes and destroys it. A
freshly made object gets the lowest free identity, so behaviours that differ in
nothing but addresses are one.

`MatValues` has the values without any objects: an assignment gives the left side
the value that the right side had and changes nothing else. `ImplementsValues` is
the refinement, with `value` read off the heap.

## 3. The runs

| run | instance | distinct states | what it shows |
|---|---|---|---|
| `ring` | 4 slots, a word of 4 bits, 2 elements | 26,011 | types, `NoSlotRace`, `FreeIsConservative`, and that the ring implements `BoundedFifo` |
| `buffer` | 4 blocks of 2 samples, 11 samples, late loads, explicit flushes, fair | 376,031 | VarBuffer in producer-consumer mode: ownership, order, the exceptions, the reported space, the producer never waits, and that it implements `LossyBuffer` |
| `buffer_circular` | 4 blocks of 3, 60 samples | 153 | the window of latest samples, five times round; `LossyBuffer` again |
| `appender` | 1 logger, 8 blocks, 10 logged, fair | 92,908 | no lost wake-up, a full queue is noticed and flushed, lifetimes, destructors return |
| `logger` | 2 variables (a vector, a matrix), 2 saves of 1 name, 3 blocks of 2, 7 samples each, both modes, fair | 467,357 | all samples accounted for and in order, the destructor ends and is complete, the window of a circular buffer reaches the file, no exception, every variable has the logger's callback |
| `backend` | 3 names, 3 numeric writes in 5 shapes, 6 values, 2 sessions | 310,524 | the directory is truthful, what was acknowledged is stored, what was saved is read again, all but the last name are found |
| `matdata` | 1 variable, 1 field, 2 scalars, cells of 2, 5 objects, depth 3, 1 value saved | 46,382 | one owner per object, only live data is cloned, value semantics |
| `backend_delete` | 2 names, else as `backend`; any deletion allowed | | *violation*, finding 1 |
| `matdata_alias` | as `matdata`, with aliasing | | *violation*, finding 2 |
| `appender_early_log` | as `appender`, logging allowed before `add_logger` | | *violation*, finding 3 |
| `appender_reset` | as `appender` | | *violation*, finding 4 |
| `logger_last_sample` | 1 matrix, 2 blocks of 2, 3 samples | | *violation*, finding 5 |

**Bounds.** `MaxSize = 4` lets the indices wrap at every position relative to
each other, with 0 to 3 elements; the indices are the state, so behaviours are
unbounded. In `buffer`, 11 samples are more than all blocks hold (8): every
block is reused, and the loss of a block happens with each number of blocks in
the consumer's hands. `buffer_circular` is deterministic but for interleaving
and can afford 60 samples. In `appender`, 8 blocks are the least with which the
half-full threshold lies two blocks before the queue is full, and the byte
threshold (7) is reached only by blocks that were flushed unnoticed in between,
so that both criteria take effect. Ten blocks fill the queue and lose data. One
logger cannot lose an update of the byte count to another. What several loggers
can do to that count (`FullQueueNoticed`), to the flag and to each other's and
the appender's lifetimes is proved, for any number of them.

In `logger` two blocks can wait while one is being filled: six samples fill all
three, the seventh loses a block when nobody flushes (in circular mode, it
overwrites the older one that waits), and a partial block is left for the
destructor, which must flush to make room before it can seal it. The saved name
is that of a variable, so that the structure or the variable comes first, and a
second save of it is refused.

In `backend`, three names are the least with which one can be before, at and
behind the last that is found, with a deletion in between. Two sessions give each
handle the file of another, in either access mode; three writes create, append
and append again. The values are one of each kind matio treats differently: plain
and non-ASCII text, text it cannot encode, a struct without fields, a cell array,
and a struct whose first field fails although its last succeeds. The blocks have
both ranks, more rows and fewer, no rows and no slices. `backend` lets callers
delete only when no other name is hidden (`HiddenDeletes = FALSE`), because
otherwise finding 1 breaks every statement about contents.

In `matdata`, five objects and depth 3 hold a cell array in a cell array, or in a
struct, next to a queued copy.

**Fairness.** `VarBuffer!FairSpec` assumes that a producer that is inside
`add_elem` keeps running, and nothing at all of the consumer: that is the point
of `ProducerNeverBlocks`. (It is about `VariableBuffer`: the callback at the end is
one step there. In `MatAppender` it takes `_cond_mutex` to notify, and may run
the appender's destructor.) `MatAppender!FairSpec` assumes that every thread that
is inside a call, a callback or a destructor keeps running (weak fairness), and
that a thread waiting for `_cond_mutex` gets it if it is free again and again
(strong fairness: the flusher may take and release it for ever by spurious
wake-ups; the mutexes of the platforms supported do not starve a waiter). Nobody
is obliged to log, to drop a pointer or to start a thread, and a spurious
wake-up is never obliged to happen, so it cannot hide a lost one.
`MatLogger!FairSpec` assumes that a thread that is inside a flush or the
destructor keeps running.

**Deadlock** is checked for the ring, MatAppender, MatLogger and MatData;
`Terminated` is the only step of a MatAppender or MatLogger that has stopped.
VarBuffer's runs stop when `MaxSamples` are logged and, in a circular buffer,
nobody reads; MatioBackend's when the last session is closed. Their
configurations say so.

## 4. Findings

1. *Deleting a variable deletes another.* `Mat_VarDelete` copies what the walk
   along the links finds. When the file has the group `#refs#` and it is not
   counted (it was created in this session, or a deletion has recounted), the
   last name is not found, is not copied, and `delvar` returns true
   (`DeletesOnlyNamed`). The shortest way: a cell array, a variable that sorts
   behind it, and the deletion of the cell array.
2. *Assignment from a component.* In `s = s[1]` the right side is an element that
   the reset of the left side destroys before it is cloned; in `s[1] = s` the
   clone meets the null pointer (`ClonesLiveData`). Without aliasing the run
   `matdata` shows that neither happens.
3. *A logger that is full when it is added.* No block can be pushed, so there is
   no callback, and the sleeping flusher never looks: everything logged later is
   dropped until something else wakes it (`NoticesFullQueue`).
4. *reset() is not a flush.* `README.md:102` and `:129` tell the user to destroy
   the logger "in order to flush to disk". While the flusher is writing it holds
   a pointer of its own, `reset()` returns at once, and the data is written, and
   the file closed, some time later by the flusher (`ResetFlushes`). `LoggerDies`
   shows that it does happen.
5. *The last sample of a matrix.* `MatioBackend::write` takes a block of one
   slice for two-dimensional (`src/matio_backend.cpp:262`); matio does not append
   it to the three-dimensional entry of the blocks before, and the result is
   ignored. A matrix variable whose last block holds exactly one sample loses it
   in the destructor (`NothingRefused`). The same line has another effect: with
   buffers below 40 samples blocks hold one sample each
   (`src/matlogger2.cpp:223`), every block is two-dimensional, and the entry is a
   rows x (cols * samples) matrix instead of the cube of `matlogger2.h:30`
   (`CubeLayout` fails with `ChunkSize = 1`; it holds with larger blocks).

What else the model of the backend made plain, and no line of the repository
promises otherwise: `delvar` returns true when there was nothing to read (the
result of `remove` overwrites the error) and works on a file opened for reading;
variables it has kept refuse later appends; `get_var_names` of a file just loaded
leaves out the null pointer that stands for `#refs#`; a block with more rows than
the variable is refused but leaves a gap. Nor does a property here cover these,
which the models contain (`PROJECT.json`, hazards without a property): a structure
saved under the name of a variable, where whichever is flushed first has the
entry and the other is refused (`MatLogger`, `MatFile`); a text with characters of
several bytes, which comes back with NUL characters at its end, and a struct
reported as written although a field before the last failed (`MatContainer`,
`Units` and `Accepted`).

## 5. The proofs

`SpscRingProofs`, for every `MaxSize >= 2` and `WordSize > MaxSize`:

* `RingInvariant`: `RingInv` is inductive. `NoSlotRace` alone is not: one has to
  know that what each thread has seen of the other's index lies, going round the
  ring, between the other's true index and its own (`IndexOrder`), that a push
  past its test has room (`PushHasRoom`), that a pop stays within what it saw and
  that what it has copied is still at the head of the ring (`PopWithinSeen`), and
  that unread slots hold pushed elements (`UnreadArePushed`).
* `TypeCorrect` and `NoRace` follow. `FreeConservative` is inductive given `RingInv`: a
  query is right when it is made, pops only add room, and a push ends the
  answer's term. `Refinement` shows that the
  store of an index is a step of `BoundedFifo` and every other step a stutter.
  Lemmas about the index arithmetic (what `next_index`, `advance` and the wrapping
  `write_available` compute) come first and are cited by name.

`VarBufferProofs`, for every number and size of blocks, both modes, with and
without late loads:

* `BlockInvariant`: `BlockInv` is inductive. It counts the entries of the places
  where a block can be (`BlockCount`: as many as there are blocks) and says that
  every block is somewhere (`BlocksCovered`), hence in exactly one place; and it
  says which places are occupied at each point of the code (`ControlInv`).
* `TypeCorrect`, `Ownership`, `NoException`, `SpaceReport` follow.

`VarBufferRefinement` is about the samples in the blocks:

* `DataInvariant`: `ContentInv` is inductive given `BlockInv`. It says what
  the counted blocks hold: the queued ones are not empty, neither is the one
  `flush_to_queue` is about to push (it is full when `add_elem` calls), and the
  one that will replace it in producer-consumer mode is. `NoEmptyBlock` follows in
  both modes.
* `Refinement`: a step of `VarBuffer` is a step of `LossyBuffer`, under the
  refinement mapping of the run, or a stutter. The step that seals a block is the
  push, the one that loses a block is the change of the current block; every
  other step leaves the mapping alone (`StepEffect`).
* `Order` and `Latest` are proved of the abstract buffer and carried over: what
  was delivered, queued and is being filled is sorted (`Ordered`), and in circular
  mode it has no gap and is short by less than a block of what all blocks hold.
* The three assume `~ (Circular /\ ExplicitFlush)`: `flush_to_queue` called by a
  third party in circular mode makes the oldest block current without resetting
  it, and the library never does so (section 6).

`MatAppenderProofs`, for any number of loggers, each with its own thread:

* Three layers, each inductive given the ones before. `Base` has the types, where
  each thread can be (`PcInv`), and that `_loggers_mutex` is held exactly during
  a walk (`ListInv`: it is what makes `Current`, the element a walker works on,
  well defined, although the walk removes elements as it goes). `AppenderInv`
  adds to `AppenderOutlivesUse` that a thread which has not begun to use the
  appender still has its pointer. `LoggerInv` adds who holds a logger,
  and that its blocks are being filled, queued, dropped or on disk.
* Most of the steps touch one thread's part of the state; `QuietAppender` and
  `QuietLogger` say once that such a step keeps the invariant, and
  `DropsAppender` what the release of a pointer does, last or not.
* `AppenderLifetime` and `LoggerLifetime` are the point: destructors run in
  whichever thread drops the last pointer, with a join inside, and still no
  thread works on a dead object, and each destructor runs once, in one thread.
  A dead logger has everything it accepted on disk. `TypeCorrect` follows too.
* `NoNotificationLost`: `WakeInv` says that the flusher holds `_cond_mutex` from
  its test of the flag until it sleeps, and that it sleeps only while the flag is
  down. Whoever raises the flag holds the mutex, so that is enough.
* `FullQueueNoticed`: a queue stays full only while its logger is inside the
  callback of the push that filled it and will notify (`WillNotify`), or the flag
  is up, or the flusher's walk has yet to reach the logger (`Heard`). That needs
  `EarlyLog = FALSE` (finding 3) and `NumBlocks >= 5`: the push that fills the queue
  still reports two free blocks, which the callback takes for few only if they are
  less than half of all. The code has 20.

`MatLoggerProofs`, for every set of variables and structures, all sizes, and with
a callback set late or not:

* `UniformInvariant`: `UniformInv` is inductive. `Uniform` speaks only of the
  moments when the mutex is free; in between one has to know which variables
  already have the new callback (`CallbackInv`), that the mutex is held exactly
  in the critical sections (`LockInv`), and that nobody is in a flush, nor in the
  destructor, while the mode is circular (`ModeInv`). `UniformVariables` and
  `NoThrow` follow.
* `Typing`, from `ControlInv`: no buffer has more blocks than `Chunks`, no block
  more samples than `ChunkSize`.
* `Flow` says what any step does to the pipeline of a variable (file, block in the
  flusher's hands, buffer): it is kept, grows at its end, loses a block inside,
  or loses what the backend refuses. Hence `FlowInv`: every sample ever added is
  in the pipeline, lost or refused, and the pipeline is sorted; `NoSampleForgotten`
  and `FileOrder`.
* `Cubes`: `SizesInv` says that only the last block of a variable can be short,
  so that, if `ChunkSize >= 2`, a block of a single sample is never appended
  to nothing and grown afterwards. With `ChunkSize = 1` it is false (finding 5).
* `Complete`: `StructInv` (a saved structure is queued or its name is in the file)
  and `DrainInv` (what each round of the destructor has already dealt with, which
  says that the round that finds nothing leaves nothing).
* `KeepsLatest`: `CircularInv`. While the mode is circular the buffer is the end of
  what was added, without gap, and short by less than a block; the change to
  producer-consumer mode in the destructor and its rounds keep that window.

`MatioBackendProofs`, for any names, blocks, values and number of sessions:

* `Typing`, `Readable` and `DeletionLosesOne` hold of every use of the backend:
  `TypeInv` relates what a handle counts to the links. That the walk along the links finds all names but
  the last follows from this count and from the links having an order (`InOrder`: a
  sorted list of a finite set has each element once). A deletion copies what the
  walk finds, so `DeletionLosesOne` bounds the damage of finding 1: besides the
  variable named at most one is lost, the last, and only from a file with
  `#refs#`, as long as no entry is missing from the directory.

and under the assumption `HiddenDeletes = FALSE`, without which they are false
(finding 1):

* `Inv` adds to `AckedIsStored` that identities of blocks are below the counter
  that gives the next (an append keeps the order only because of that) and that
  what was acknowledged has its entry (`DeletesOnlyNamed`: a deletion that lost
  one would leave its blocks acknowledged). Appends and gaps are lemmas about
  sequences (`StoredAsAppend`, `StoredAsGap`). `AcknowledgedBlocksStored`
  follows.
* `TruthfulDirectory`: `ListInv` adds to `DirectoryIsTruthful` that before the
  directory is read an entry that will not be counted was never acknowledged.
* `ValuesSurvive`: `ValueInv` says which value the entry of an acknowledged name
  has; that it is the value saved, for texts of one byte per character, is then a
  fact about `Stored` (`PlainStored`). It assumes that values are finite (`Nested`),
  from which it follows, height by height, that the recursive functions
  `Stored` and `PlainText` exist and are what their equations say.

`MatDataProofs`, for any variables and fields, any number and depth of values:

* `Forests`: `ForestInv` is inductive. `OneOwner` alone is not, since it counts
  owners: to reset a pointer one has to know that what it owns is not the object
  that holds it, and that what remains is still reachable. The invariant is that
  the pointers form a forest, whose roots are the variables and the queue. Cycles
  are excluded by saying that every set of objects has one that owns none of the
  others (`Grounded`), which gives inductions up and down the trees (`Up`,
  `TreeLeast`). It holds with `Aliasing` too: finding 2 copies from destroyed
  objects, but shares and leaks none.
* An address is followed along a route of pointers (`Leads`). `AddressesAre` and
  `OwnedIs` say that the recursive functions `Addresses` and `Owned` give exactly
  the ends of routes, `OneAddress` that no object has two addresses; `SameRoute`
  that a change inside one tree leaves the addresses outside of it alone.
* `Typing` and `Ownership` follow from the forest.
* `LiveCopies` assumes `~ Aliasing`: neither address begins the other, so the trees
  of the two sides are disjoint (`Comparable`, `NotBelow`) and the reset of the left
  side leaves the right side whole (`StillWhole`).

`FlattenTheorems` has the laws of `FlattenSeq` that `MatLoggerProofs` and the
others use: how it distributes over concatenation, and what it keeps of order.

There is no induction rule here that the provers can instantiate. Where an
argument goes over the length of a sequence or the height of a value, the proof
takes a least counterexample (`Least`, from the well-foundedness of inclusion
between finite sets, a theorem of the library; `SeqInduction` for addresses).

The assumptions are those named in the modules (`MaxSizeAssumption`,
`WordSizeAssumption`, `SizesAssumption`, `ModeAssumption`, `LoggerAssumption`,
`AppenderAssumption`, `BackendAssumption`, `TreesAssumption`,
`MatDataAssumption`: finitely many variables, each with an object at the start, and
scalars that are no structs and no cells).

**Only model-checked:** that `MatData` implements `MatValues`, and all liveness
(TLAPS does not reason about fairness and `ENABLED`): `ProducerNeverBlocks`, that a
full queue is flushed, and that destructors and loops end.

## 6. Not modelled, and the plan

Not modelled because there is nothing to check: the backend factory, the
threading wrappers (the models use the semantics of POSIX mutexes, condition
variables and joins directly), Python bindings, tests.

Of the vendored matio, which is most of the lines of the repository, only the
bookkeeping of version 7.3 files is reached by the library, and that is
modelled. MAT files of versions 4 and 5 (`mat4.c`, `mat5.c`, `read_data.c`,
`inflate.c`; the library never creates one, and refuses to append to one it
loads), the Fortran interface, `matdump` and the other tools, `snprintf.c` and
`safe-math.h` are not. The parts of `mat73.c` that remain convert numbers between
types and memory layouts: data, without control.

Left out of the components that are modelled:

* failures of the file system and of memory (`Mat_VarDelete` has three points
  between the old file and the new one; `MatData::operator=` has destroyed its
  left side when the clone throws);
* calls of the backend from two threads (`readvar`, `delvar` and
  `get_mat_var_names` take no mutex): inside one HDF5 handle they are undefined,
  not a matter of steps;
* the callback of a variable, assigned while its producer tests and calls it
  (`std::function`, no common mutex). Set before logging, as
  `MatAppender::add_logger` is meant to, it is safe; `Uniform` shows that no
  variable is left without it;
* `flush_to_queue` called by a third party in circular mode, which makes the
  oldest block current without resetting it. `add_elem` resets it next, and the
  destructor leaves circular mode first;
* `asStruct` and `asCell`, which hand out a reference to the map or vector, and
  printing, which has no state;
* the arithmetic of buffer sizes in `create`;
* a second `start_flush_thread`, a null or twice-added logger: errors of the
  caller.

Next, in this order:

1. Proofs: that `MatData` implements `MatValues`, and that a block carries the view of `read_index_` with it, which
   `UnseenPops` takes from the C++ memory model.
2. Composition: the buffers of `MatLogger` as instances of `LossyBuffer`,
   `MatAppender`'s loggers as an abstraction of `MatLogger`, and `MatFile` as an
   abstraction of `MatioBackend`, so that a logger that loads the file of an
   earlier one is part of `MatLogger`.
3. `BufferSizing`: the arithmetic of `create` against the size asked for.
4. Failures of the file system during a deletion.
