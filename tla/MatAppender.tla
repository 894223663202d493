---------------------------- MODULE MatAppender ----------------------------
(***************************************************************************)
(* XBot::MatAppender (mat_appender.cpp) and the loggers registered to it:  *)
(* the flusher thread, how producers wake it up, and who may outlive whom. *)
(*                                                                         *)
(* Threads: one per logger, which registers it, logs to it and drops it;   *)
(* Main, which owns the appender and either starts the flusher thread or   *)
(* calls flush_available_data itself (never both: mat_appender.h:50); the  *)
(* flusher.  Loggers and appender are owned through shared pointers; the   *)
(* appender knows the loggers, and their callbacks know the appender, by   *)
(* weak pointers only, so whoever drops the last strong reference runs the *)
(* destructor, in whatever thread that is.                                 *)
(*                                                                         *)
(* A logger is reduced to counts of blocks of one variable, and reading a  *)
(* block, writing it and giving it back to one step; VarBuffer has the     *)
(* detail.  A mutex is taken and released in different steps only where    *)
(* another thread can tell.                                                *)
(***************************************************************************)
EXTENDS Integers, SequencesExt

CONSTANTS Loggers,         \* the loggers, each with its own producer thread
          Main,            \* the thread that owns the appender
          Flusher,         \* _flush_thread
          NumBlocks,       \* VariableBuffer::NumBlocks()
          ByteThreshold,   \* NOTIFY_THRESHOLD_BYTES, in blocks
          EarlyLog,        \* whether a thread may log before add_logger
          MaxBlocks        \* bound: blocks begun per logger

ASSUME AppenderAssumption ==
    /\ Main \notin Loggers /\ Flusher \notin Loggers /\ Main # Flusher
    /\ "nobody" \notin Loggers \cup {Main, Flusher}
    /\ NumBlocks \in Nat /\ NumBlocks >= 2
    /\ ByteThreshold \in Nat /\ MaxBlocks \in Nat
    /\ EarlyLog \in BOOLEAN

Owners  == Loggers \cup {Main}     \* the threads that own a logger, the appender
Threads == Owners \cup {Flusher}
Nobody  == "nobody"

VARIABLES
    \* the loggers
    refs,       \* logger -> threads that hold a shared pointer to it
    life,       \* logger -> "alive", "dying" (destructor running), "dead"
    open,       \* logger -> blocks being filled: 0 or 1
    queued,     \* logger -> blocks in the read queue
    logged,     \* logger -> blocks the producer ever began
    dropped,    \* logger -> blocks lost because no other was free
    disk,       \* logger -> blocks written to the MAT-file
    space,      \* logger -> variable_free_space of its callback, in blocks
    sum,        \* logger -> what its callback computed for _available_bytes
    \* MatAppender::Impl
    arefs,      \* threads that hold a shared pointer to the appender
    alife,      \* the appender: "alive", "dying", "dead"
    registered, \* _loggers, a list of weak pointers
    listLock,   \* holder of _loggers_mutex
    left,       \* what remains of _loggers for the holder to visit
    condLock,   \* holder of _cond_mutex
    wakeUp,     \* _flush_thread_wake_up
    run,        \* _flush_thread_run
    available,  \* _available_bytes, in blocks
    pc          \* thread -> where it is

bufferVars   == <<open, queued, logged, dropped, disk>>
callbackVars == <<space, sum>>
loggerVars   == <<refs, life, bufferVars, callbackVars>>
ownVars      == <<arefs, alife>>
listVars     == <<registered, listLock, left>>
condVars     == <<condLock, wakeUp, run, available>>
vars == <<refs, life, open, queued, logged, dropped, disk, space, sum, arefs,
          alife, registered, listLock, left, condLock, wakeUp, run, available, pc>>

\* The logger that the holder of _loggers_mutex visits.
Current == Head(left)

Init ==
    /\ refs = [l \in Loggers |-> {l}]
    /\ life = [l \in Loggers |-> "alive"]
    /\ open = [l \in Loggers |-> 0] /\ queued = [l \in Loggers |-> 0]
    /\ logged = [l \in Loggers |-> 0] /\ dropped = [l \in Loggers |-> 0]
    /\ disk = [l \in Loggers |-> 0]
    /\ space = [l \in Loggers |-> 0] /\ sum = [l \in Loggers |-> 0]
    /\ arefs = Owners /\ alife = "alive"
    /\ registered = << >> /\ listLock = Nobody /\ left = << >>
    /\ condLock = Nobody /\ wakeUp = FALSE /\ run = FALSE /\ available = 0
    /\ pc = [t \in Threads |-> IF t = Flusher THEN "none" ELSE "idle"]

Goto(t, where) == pc' = [pc EXCEPT ![t] = where]

\* Thread t drops its shared pointer to the appender and goes on at the given
\* point, or runs ~MatAppender if that was the last.
DropAppender(t, where) ==
    /\ arefs' = arefs \ {t}
    /\ IF arefs' = {}
       THEN alife' = "dying" /\ Goto(t, "stop")
       ELSE alife' = alife /\ Goto(t, where)

\* Mutants of DropLogger: the owner destroys, whoever else holds a pointer; the
\* flusher never does.
DropLogger_ByOwner(t, l, where) ==
    /\ refs' = [refs EXCEPT ![l] = @ \ {t}]
    /\ IF t = l
       THEN life' = [life EXCEPT ![l] = "dying"] /\ Goto(t, "destroy")
       ELSE life' = life /\ Goto(t, where)

DropLogger_NeverFlusher(t, l, where) ==
    /\ refs' = [refs EXCEPT ![l] = @ \ {t}]
    /\ IF refs'[l] = {} /\ t # Flusher
       THEN life' = [life EXCEPT ![l] = "dying"] /\ Goto(t, "destroy")
       ELSE life' = life /\ Goto(t, where)

\* Thread t drops its shared pointer to logger l and goes on at the given
\* point, or runs ~MatLogger2 if that was the last.
DropLogger(t, l, where) ==
    /\ refs' = [refs EXCEPT ![l] = @ \ {t}]
    /\ IF refs'[l] = {}
       THEN life' = [life EXCEPT ![l] = "dying"] /\ Goto(t, "destroy")
       ELSE life' = life /\ Goto(t, where)

\* ~MatLogger2: everything still buffered is written, then the file is closed.
Destroy(l) ==
    /\ disk' = [disk EXCEPT ![l] = @ + queued[l] + open[l]]
    /\ queued' = [queued EXCEPT ![l] = 0]
    /\ open' = [open EXCEPT ![l] = 0]
    /\ life' = [life EXCEPT ![l] = "dead"]
    /\ UNCHANGED <<refs, logged, dropped, callbackVars>>

-----------------------------------------------------------------------------
(* The walk along _loggers under its mutex: add_logger's search for the     *)
(* logger and flush_available_data_all.                                     *)

ListLock(t) ==
    /\ pc[t] = "lock" /\ listLock = Nobody
    /\ listLock' = t /\ left' = registered
    /\ Goto(t, "next")
    /\ UNCHANGED <<loggerVars, ownVars, registered, condVars>>

\* Lock the next weak pointer.  The flush removes an expired one.
ListNext(t) ==
    /\ pc[t] = "next" /\ left # << >>
    /\ IF refs[Current] = {}
       THEN /\ registered' = IF t \in Loggers THEN registered
                             ELSE RemoveAt(registered, Len(registered) - Len(left) + 1)
            /\ left' = Tail(left)
            /\ UNCHANGED <<refs, pc>>
       ELSE /\ refs' = [refs EXCEPT ![Current] = @ \cup {t}]
            /\ Goto(t, "held")
            /\ UNCHANGED <<registered, left>>
    /\ UNCHANGED <<life, bufferVars, callbackVars, ownVars, listLock, condVars>>

\* MatLogger2::flush_available_data writes one block ...
FlushBlock(t) ==
    /\ t \notin Loggers /\ pc[t] = "held" /\ queued[Current] > 0
    /\ queued' = [queued EXCEPT ![Current] = @ - 1]
    /\ disk' = [disk EXCEPT ![Current] = @ + 1]
    /\ UNCHANGED <<refs, life, open, logged, dropped, callbackVars, ownVars,
                   listVars, condVars, pc>>

\* ... until the queue is empty.  Then, or after the comparison in add_logger,
\* the pointer goes.
ListRelease(t) ==
    /\ pc[t] = "held"
    /\ t \in Loggers \/ queued[Current] = 0
    /\ DropLogger(t, Current, "next")
    /\ left' = IF pc'[t] = "destroy" THEN left ELSE Tail(left)
    /\ UNCHANGED <<bufferVars, callbackVars, ownVars, registered, listLock,
                   condVars>>

\* ~MatLogger2 by the thread that walks along the list.
ListDestroy(t) ==
    /\ pc[t] = "destroy" /\ listLock = t
    /\ Destroy(Current)
    /\ left' = Tail(left)
    /\ Goto(t, "next")
    /\ UNCHANGED <<ownVars, registered, listLock, condVars>>

\* End of flush_available_data_all.
ListUnlock(t) ==
    /\ t \notin Loggers /\ pc[t] = "next" /\ left = << >>
    /\ listLock' = Nobody
    /\ Goto(t, IF t = Flusher THEN "cond" ELSE "idle")
    /\ UNCHANGED <<loggerVars, ownVars, registered, left, condVars>>

-----------------------------------------------------------------------------
(* A logger's thread.                                                       *)

BeginAddLogger(l) ==
    /\ pc[l] = "idle"
    /\ Goto(l, "lock")
    /\ UNCHANGED <<loggerVars, ownVars, listVars, condVars>>

\* End of add_logger: the logger is registered, the mutex released, and the
\* thread has no further use for its pointer to the appender.
AddLogger(l) ==
    /\ l \in Loggers /\ pc[l] = "next" /\ left = << >>
    /\ registered' = Append(registered, l)
    /\ listLock' = Nobody
    /\ DropAppender(l, "run")
    /\ UNCHANGED <<loggerVars, left, condVars>>

\* A block other than the current one is free.
BlockFree_OffByOne(l) == queued[l] < NumBlocks
BlockFree(l) == queued[l] < NumBlocks - 1

\* A block's worth of samples.  The block filled before, if any, goes to the
\* read queue and the callback, once set, is called; if no other block is free, the
\* producer goes on writing over the block filled before.
Log(l) ==
    /\ pc[l] = "run" \/ (EarlyLog /\ pc[l] = "idle")
    /\ logged[l] < MaxBlocks
    /\ logged' = [logged EXCEPT ![l] = @ + 1]
    /\ open' = [open EXCEPT ![l] = 1]
    /\ CASE open[l] = 0 ->
              UNCHANGED <<queued, dropped, space, pc>>
         [] open[l] = 1 /\ BlockFree(l) ->
              /\ queued' = [queued EXCEPT ![l] = @ + 1]
              /\ IF pc[l] = "run"
                 THEN /\ space' = [space EXCEPT ![l] = NumBlocks - queued[l]]
                      /\ Goto(l, "callback")
                 ELSE UNCHANGED <<space, pc>>
              /\ UNCHANGED dropped
         [] OTHER ->
              /\ dropped' = [dropped EXCEPT ![l] = @ + 1]
              /\ UNCHANGED <<queued, space, pc>>
    /\ UNCHANGED <<refs, life, disk, sum, ownVars, listVars, condVars>>

\* Mutant: the callback uses the appender without a pointer to it.
CallbackLock_NoPointer(l) ==
    /\ pc[l] = "callback"
    /\ Goto(l, "count")
    /\ UNCHANGED <<loggerVars, ownVars, listVars, condVars>>

\* The callback: lock the weak pointer to the appender.
CallbackLock(l) ==
    /\ pc[l] = "callback"
    /\ arefs' = IF arefs = {} THEN {} ELSE arefs \cup {l}
    /\ Goto(l, IF arefs = {} THEN "run" ELSE "count")
    /\ UNCHANGED <<loggerVars, alife, listVars, condVars>>

\* _available_bytes += ..., without a lock: load and store are two steps.
CountLoad(l) ==
    /\ pc[l] = "count"
    /\ sum' = [sum EXCEPT ![l] = available + 1]
    /\ Goto(l, "store")
    /\ UNCHANGED <<refs, life, bufferVars, space, ownVars, listVars, condVars>>

CountStore(l) ==
    /\ pc[l] = "store"
    /\ available' = sum[l]
    /\ Goto(l, "test")
    /\ UNCHANGED <<loggerVars, ownVars, listVars, condLock, wakeUp, run>>

\* Mutant: only the bytes count.
CallbackTest_BytesOnly(l) ==
    /\ pc[l] = "test"
    /\ \E bytes \in {sum[l], available} :
         Goto(l, IF bytes > ByteThreshold THEN "notify" ELSE "release")
    /\ UNCHANGED <<loggerVars, ownVars, listVars, condVars>>

\* Notify when many bytes are queued or less than half this variable's queue is
\* left.  The comparison may use the stored value or load the variable again.
CallbackTest(l) ==
    /\ pc[l] = "test"
    /\ \E bytes \in {sum[l], available} :
         Goto(l, IF bytes > ByteThreshold \/ 2 * space[l] < NumBlocks
                 THEN "notify" ELSE "release")
    /\ UNCHANGED <<loggerVars, ownVars, listVars, condVars>>

\* notify_one: a waiting flusher will try to take the mutex.
Woken(t, where) ==
    pc' = [pc EXCEPT ![t] = where,
                     ![Flusher] = IF @ = "waiting" THEN "cond" ELSE @]

\* Mutants: the flag is set without the mutex; the flag is set but nobody told.
CallbackNotify_NoMutex(l) ==
    /\ pc[l] = "notify"
    /\ available' = 0
    /\ wakeUp' = TRUE
    /\ Woken(l, "release")
    /\ UNCHANGED <<loggerVars, ownVars, listVars, condLock, run>>

CallbackNotify_NoNotify(l) ==
    /\ pc[l] = "notify" /\ condLock = Nobody
    /\ available' = 0
    /\ wakeUp' = TRUE
    /\ Goto(l, "release")
    /\ UNCHANGED <<loggerVars, ownVars, listVars, condLock, run>>

\* The critical section of on_block_available.
CallbackNotify(l) ==
    /\ pc[l] = "notify" /\ condLock = Nobody
    /\ available' = 0
    /\ wakeUp' = TRUE
    /\ Woken(l, "release")
    /\ UNCHANGED <<loggerVars, ownVars, listVars, condLock, run>>

\* End of the callback: its shared pointer goes, and it may be the last.
CallbackRelease(l) ==
    /\ pc[l] = "release"
    /\ DropAppender(l, "run")
    /\ space' = [space EXCEPT ![l] = 0] /\ sum' = [sum EXCEPT ![l] = 0]
    /\ UNCHANGED <<refs, life, bufferVars, listVars, condVars>>

\* logger.reset(); another thread may hold a pointer.
ResetLogger(l) ==
    /\ pc[l] = "run"
    /\ DropLogger(l, l, "done")
    /\ UNCHANGED <<bufferVars, callbackVars, ownVars, listVars, condVars>>

DestroyByOwner(l) ==
    /\ pc[l] = "destroy" /\ listLock # l
    /\ Destroy(l)
    /\ Goto(l, "done")
    /\ UNCHANGED <<ownVars, listVars, condVars>>

-----------------------------------------------------------------------------
(* The owner of the appender, and ~MatAppender.                             *)

StartFlushThread ==
    /\ pc[Main] = "idle" /\ pc[Flusher] = "none"
    /\ run' = TRUE
    /\ Goto(Flusher, "loop")
    /\ UNCHANGED <<loggerVars, ownVars, listVars, condLock, wakeUp, available>>

\* flush_available_data, called by an owner that starts no flusher thread.
BeginFlush ==
    /\ pc[Main] = "idle" /\ pc[Flusher] = "none"
    /\ Goto(Main, "lock")
    /\ UNCHANGED <<loggerVars, ownVars, listVars, condVars>>

ResetAppender ==
    /\ pc[Main] = "idle"
    /\ DropAppender(Main, "done")
    /\ UNCHANGED <<loggerVars, listVars, condVars>>

\* Where a thread goes on after ~MatAppender.
AfterAppender(t) == IF t = Main THEN "done" ELSE "run"

\* Mutant: the flusher is told to exit, but its flag is not set.
StopFlusher_NoFlag(t) ==
    /\ pc[t] = "stop"
    /\ IF pc[Flusher] = "none"
       THEN /\ alife' = "dead" /\ Goto(t, AfterAppender(t))
            /\ UNCHANGED run
       ELSE /\ condLock = Nobody
            /\ run' = FALSE
            /\ Woken(t, "join")
            /\ UNCHANGED alife
    /\ UNCHANGED <<loggerVars, arefs, listVars, condLock, wakeUp, available>>

\* ~MatAppender by thread t: tell the flusher, if there is one, to exit ...
StopFlusher(t) ==
    /\ pc[t] = "stop"
    /\ IF pc[Flusher] = "none"
       THEN /\ alife' = "dead" /\ Goto(t, AfterAppender(t))
            /\ UNCHANGED <<run, wakeUp>>
       ELSE /\ condLock = Nobody
            /\ run' = FALSE /\ wakeUp' = TRUE
            /\ Woken(t, "join")
            /\ UNCHANGED alife
    /\ UNCHANGED <<loggerVars, arefs, listVars, condLock, available>>

\* ... and join with it.
Join(t) ==
    /\ pc[t] = "join" /\ pc[Flusher] = "exited"
    /\ alife' = "dead"
    /\ Goto(t, AfterAppender(t))
    /\ UNCHANGED <<loggerVars, arefs, listVars, condVars>>

-----------------------------------------------------------------------------
(* The flusher thread: flush_thread_main.                                   *)

\* while(_flush_thread_run)
FlusherLoop ==
    /\ pc[Flusher] = "loop"
    /\ Goto(Flusher, IF run THEN "lock" ELSE "exited")
    /\ UNCHANGED <<loggerVars, ownVars, listVars, condVars>>

\* Take _cond_mutex, after the flush or after a notification.
FlusherTakeCond ==
    /\ pc[Flusher] = "cond" /\ condLock = Nobody
    /\ condLock' = Flusher
    /\ Goto(Flusher, "test")
    /\ UNCHANGED <<loggerVars, ownVars, listVars, wakeUp, run, available>>

\* _cond.wait: load the flag ...
FlusherTest ==
    /\ pc[Flusher] = "test"
    /\ Goto(Flusher, IF wakeUp THEN "reset" ELSE "sleep")
    /\ UNCHANGED <<loggerVars, ownVars, listVars, condVars>>

\* ... and sleep, which releases the mutex and begins to wait at once ...
FlusherSleep ==
    /\ pc[Flusher] = "sleep"
    /\ condLock' = Nobody
    /\ Goto(Flusher, "waiting")
    /\ UNCHANGED <<loggerVars, ownVars, listVars, wakeUp, run, available>>

\* ... or reset the flag and release the mutex.
FlusherReset ==
    /\ pc[Flusher] = "reset"
    /\ wakeUp' = FALSE /\ condLock' = Nobody
    /\ Goto(Flusher, "loop")
    /\ UNCHANGED <<loggerVars, ownVars, listVars, run, available>>

\* A condition variable may wake up for no reason.
SpuriousWakeUp ==
    /\ pc[Flusher] = "waiting"
    /\ Goto(Flusher, "cond")
    /\ UNCHANGED <<loggerVars, ownVars, listVars, condVars>>

-----------------------------------------------------------------------------
\* A step of something thread t is in the middle of.
Continue(t) ==
    \/ ListLock(t) \/ ListNext(t) \/ FlushBlock(t) \/ ListRelease(t)
    \/ ListDestroy(t) \/ ListUnlock(t)
    \/ Join(t)
    \/ t \in Loggers /\ (\/ AddLogger(t) \/ CallbackLock(t) \/ CountLoad(t)
                         \/ CountStore(t) \/ CallbackTest(t)
                         \/ CallbackRelease(t) \/ DestroyByOwner(t))
    \/ t = Flusher /\ (\/ FlusherLoop \/ FlusherTakeCond \/ FlusherTest
                      \/ FlusherSleep \/ FlusherReset)

\* A wait for _cond_mutex, which the flusher takes again and again.
Notify(t) == (t \in Loggers /\ CallbackNotify(t)) \/ StopFlusher(t)

\* What a thread does only if its program wants to.
Begin ==
    \/ \E l \in Loggers : BeginAddLogger(l) \/ Log(l) \/ ResetLogger(l)
    \/ StartFlushThread \/ BeginFlush \/ ResetAppender

\* All threads of the program have ended.
Terminated ==
    /\ \A t \in Owners : pc[t] = "done"
    /\ pc[Flusher] \in {"none", "exited"}
    /\ UNCHANGED vars

Next ==
    \/ \E t \in Threads : Continue(t) \/ Notify(t)
    \/ Begin
    \/ SpuriousWakeUp
    \/ Terminated

Spec == Init /\ [][Next]_vars

\* The scheduler runs every thread that is inside a call or a destructor, and a
\* thread that waits for a mutex gets it when it is free again and again.
\* Nobody is obliged to log, to drop a pointer or to start the flusher.
FairSpec ==
    /\ Spec
    /\ \A t \in Threads : WF_vars(Continue(t)) /\ SF_vars(Notify(t))

-----------------------------------------------------------------------------
TypeOK ==
    /\ refs \in [Loggers -> SUBSET Threads]
    /\ life \in [Loggers -> {"alive", "dying", "dead"}]
    /\ open \in [Loggers -> 0..1] /\ queued \in [Loggers -> 0..(NumBlocks - 1)]
    /\ logged \in [Loggers -> 0..MaxBlocks] /\ dropped \in [Loggers -> Nat]
    /\ disk \in [Loggers -> Nat]
    /\ space \in [Loggers -> 0..NumBlocks] /\ sum \in [Loggers -> Nat]
    /\ arefs \subseteq Owners /\ alife \in {"alive", "dying", "dead"}
    /\ registered \in Seq(Loggers) /\ left \in Seq(Loggers)
    /\ listLock \in Threads \cup {Nobody} /\ condLock \in {Flusher, Nobody}
    /\ wakeUp \in BOOLEAN /\ run \in BOOLEAN /\ available \in Nat
    /\ pc \in [Threads ->
         {"none", "idle", "lock", "next", "held", "destroy", "run", "callback",
          "count", "store", "test", "notify", "release", "stop", "join", "loop",
          "cond", "sleep", "reset", "waiting", "exited", "done"}]

\* The threads that run ~MatLogger2 of l.
Destroyers(l) ==
    {t \in Threads : pc[t] = "destroy" /\ IF listLock = t THEN Current = l ELSE t = l}

\* A logger a thread works on is alive, its destructor is run by one thread
\* only and after every pointer is gone, and a dead logger had all it did not
\* drop on disk: nothing is lost to a destructor in an unexpected thread.
LoggerOutlivesUse ==
    /\ \A t \in Threads : pc[t] = "held" =>
         listLock = t /\ t \in refs[Current] /\ life[Current] = "alive"
    /\ \A l \in Loggers :
         /\ (life[l] = "alive") = (refs[l] # {})
         /\ IF life[l] = "dying" THEN \E t \in Threads : Destroyers(l) = {t}
                                 ELSE Destroyers(l) = {}
         /\ life[l] = "dead" => disk[l] + dropped[l] = logged[l]

\* Threads that use MatAppender::Impl on the strength of a shared pointer.
Using == {t \in Owners : \/ pc[t] \in {"count", "store", "test", "notify", "release"}
                         \/ pc[t] \in {"lock", "next", "held"}
                         \/ pc[t] = "destroy" /\ listLock = t}

\* The appender is not destroyed under a thread that is inside one of its
\* functions, its destructor runs once, and the flusher is gone before it is.
AppenderOutlivesUse ==
    /\ Using \subseteq arefs
    /\ (alife = "alive") = (arefs # {})
    /\ LET destroyers == {t \in Owners : pc[t] \in {"stop", "join"}}
       IN  IF alife = "dying" THEN \E t \in Owners : destroyers = {t}
                              ELSE destroyers = {}
    /\ alife = "dead" => pc[Flusher] \in {"none", "exited"}

\* The flusher does not sleep through a notification.
NoLostWakeUp == pc[Flusher] = "waiting" => ~ wakeUp

\* start_flush_thread "will automatically flush data to disk whenever ... some
\* buffer is about to fill" (mat_appender.h:57-58): while the appender lives, the
\* flusher does not sleep when a registered logger, out of its callback, has no
\* block left to queue.
NoticesFullQueue ==
    \A l \in ToSet(registered) :
        alife = "alive" /\ queued[l] = NumBlocks - 1 /\ pc[l] = "run"
            => pc[Flusher] # "waiting"

\* README.md:102, "manually destroy the logger in order to flush to disk": when
\* logger.reset() has returned, what was logged is on disk.
ResetFlushes == \A l \in Loggers : pc[l] = "done" => life[l] = "dead"

\* The last block queued left less than half of the queue free.
FillingUp(l) == pc[l] = "run" /\ 2 * (NumBlocks - queued[l] + 1) < NumBlocks

\* A logger that is filling up is emptied, unless the appender goes away.
BacklogFlushed ==
    \A l \in Loggers : (run /\ FillingUp(l)) ~> (queued[l] = 0 \/ ~ run)

\* ~MatAppender returns: the flusher hears of it and exits.
AppenderDies == (alife = "dying") ~> (alife = "dead")

\* A logger its owner has dropped is closed, by whichever thread is the last.
LoggerDies == \A l \in Loggers : (pc[l] = "done") ~> (life[l] = "dead")
=============================================================================
