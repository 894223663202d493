-------------------------- MODULE MatAppenderProofs --------------------------
(***************************************************************************)
(* Proofs, for any number of loggers: that loggers and the appender        *)
(* outlive their use, whichever thread drops the last pointer, and that    *)
(* the flusher sleeps neither through a notification nor while the queue   *)
(* of a registered logger is full.                                         *)
(*                                                                         *)
(* The inductive invariant has the control state of each thread (Base),    *)
(* who holds a pointer to the appender (AppenderInv), and who holds one to *)
(* a logger and where its blocks are (LoggerInv).                          *)
(*                                                                         *)
(* That no notification is lost is about _cond_mutex alone: whoever raises *)
(* the flag holds it, so that the flusher has either not yet tested the    *)
(* flag or already waits (WakeInv).  A full queue is followed from the     *)
(* push that filled it: its callback is going to notify, or the flag is    *)
(* up, or the flusher is on its way to the logger (NoticeInv).             *)
(***************************************************************************)
EXTENDS MatAppender, SequenceTheorems, TLAPS

\* Where threads of each kind can be.
MainPcs == {"idle", "lock", "next", "held", "destroy", "stop", "join", "done"}
FlusherPcs == {"none", "loop", "lock", "next", "held", "destroy", "cond", "test",
               "sleep", "reset", "waiting", "exited"}
LoggerPcs == {"idle", "lock", "next", "held", "destroy", "run", "callback", "count",
              "store", "test", "notify", "release", "stop", "join", "done"}

PcInv ==
    /\ pc[Main] \in MainPcs
    /\ pc[Flusher] \in FlusherPcs
    /\ \A l \in Loggers : pc[l] \in LoggerPcs

\* The mutex of the list is held during the walk, and only then; a thread that
\* works on an element has one; a logger not yet added is not in the list.
ListInv ==
    /\ \A t \in Threads :
          /\ pc[t] \in {"next", "held"} => listLock = t
          /\ listLock = t => pc[t] \in {"next", "held", "destroy"}
          /\ pc[t] = "destroy" /\ t \notin Loggers => listLock = t
          /\ listLock = t /\ pc[t] \in {"held", "destroy"} => left # << >>
    /\ listLock # Nobody => Len(left) <= Len(registered)
    /\ \A l \in Loggers :
          /\ pc[l] \in {"idle", "lock"} \/ listLock = l => l \notin ToSet(registered)
          /\ listLock = l => l \notin ToSet(left)

Base == TypeOK /\ PcInv /\ ListInv

\* The strong references to the appender that threads rely on.
AppenderInv ==
    /\ AppenderOutlivesUse
    /\ \A t \in Owners : pc[t] = "idle" => t \in arefs

\* The strong references to loggers that threads rely on, and where a logger's
\* blocks are.
LoggerInv ==
    /\ LoggerOutlivesUse
    /\ \A l \in Loggers :
          /\ l \in refs[l] \/ pc[l] = "done" \/ (pc[l] = "destroy" /\ listLock # l)
          /\ disk[l] + queued[l] + open[l] + dropped[l] = logged[l]
          /\ life[l] = "dead" => queued[l] = 0 /\ open[l] = 0

Inv == Base /\ AppenderInv /\ LoggerInv

-----------------------------------------------------------------------------
(* Facts about lists. *)

LEMMA HeadTail ==
    ASSUME NEW S, NEW s \in Seq(S), s # << >>
    PROVE  /\ Head(s) \in S /\ Head(s) \in ToSet(s)
           /\ Tail(s) \in Seq(S) /\ Len(Tail(s)) = Len(s) - 1
           /\ ToSet(Tail(s)) \subseteq ToSet(s)
<1>1. /\ Head(s) = s[1] /\ Len(s) \in Nat \ {0} /\ DOMAIN s = 1 .. Len(s)
      /\ Tail(s) \in Seq(S) /\ Len(Tail(s)) = Len(s) - 1
      /\ DOMAIN Tail(s) = 1 .. Len(s) - 1
      /\ \A i \in 1 .. Len(s) - 1 : Tail(s)[i] = s[i + 1]
  OBVIOUS
<1> QED BY <1>1 DEF ToSet

LEMMA RemovedAt ==
    ASSUME NEW S, NEW s \in Seq(S), NEW i \in 1 .. Len(s)
    PROVE  /\ RemoveAt(s, i) \in Seq(S)
           /\ Len(RemoveAt(s, i)) = Len(s) - 1
           /\ ToSet(RemoveAt(s, i)) \subseteq ToSet(s)
<1> DEFINE a == SubSeq(s, 1, i - 1)
           b == SubSeq(s, i + 1, Len(s))
           c == a \o b
<1>1. Len(s) \in Nat /\ i \in Nat /\ 1 <= i /\ i <= Len(s) /\ DOMAIN s = 1 .. Len(s)
  OBVIOUS
<1>2. /\ a \in Seq(S) /\ Len(a) = i - 1
      /\ \A k \in 1 .. i - 1 : a[k] = s[k]
  OBVIOUS
<1>3. /\ b \in Seq(S) /\ Len(b) = Len(s) - i
      /\ \A k \in 1 .. Len(s) - i : b[k] = s[i + k]
  OBVIOUS
<1>4. RemoveAt(s, i) = c
  BY DEF RemoveAt
<1> HIDE DEF a, b
<1>5. /\ c \in Seq(S) /\ Len(c) = Len(a) + Len(b)
      /\ \A k \in 1 .. Len(a) + Len(b) :
            c[k] = IF k <= Len(a) THEN a[k] ELSE b[k - Len(a)]
  BY <1>2, <1>3, ConcatProperties
<1> HIDE DEF c
<1>6. Len(c) = Len(s) - 1 /\ DOMAIN c = 1 .. Len(s) - 1
  BY <1>1, <1>2, <1>3, <1>5
<1>7. ASSUME NEW k \in DOMAIN c
      PROVE  c[k] \in ToSet(s)
  <2>1. CASE k <= i - 1
    <3>1. k \in 1 .. i - 1 /\ k \in DOMAIN s
      BY <1>1, <1>6, <2>1
    <3>2. c[k] = a[k]
      BY <1>1, <1>2, <1>3, <1>5, <1>6, <2>1
    <3> QED BY <1>2, <3>1, <3>2 DEF ToSet
  <2>2. CASE ~ (k <= i - 1)
    <3>1. k - (i - 1) \in 1 .. Len(s) - i /\ k + 1 \in DOMAIN s
      BY <1>1, <1>6, <2>2
    <3>2. c[k] = b[k - (i - 1)]
      BY <1>1, <1>2, <1>3, <1>5, <1>6, <2>2
    <3>3. b[k - (i - 1)] = s[i + (k - (i - 1))] /\ i + (k - (i - 1)) = k + 1
      BY <1>1, <1>3, <1>6, <3>1
    <3> QED BY <3>1, <3>2, <3>3 DEF ToSet
  <2> QED BY <2>1, <2>2
<1> QED BY <1>4, <1>5, <1>6, <1>7 DEF ToSet

LEMMA Appended ==
    ASSUME NEW S, NEW s \in Seq(S), NEW e \in S
    PROVE  /\ Append(s, e) \in Seq(S)
           /\ ToSet(Append(s, e)) = ToSet(s) \cup {e}
<1>1. /\ Append(s, e) \in Seq(S)
      /\ DOMAIN Append(s, e) = DOMAIN s \cup {Len(s) + 1}
      /\ \A i \in DOMAIN s : Append(s, e)[i] = s[i]
      /\ Append(s, e)[Len(s) + 1] = e
  OBVIOUS
<1> QED BY <1>1 DEF ToSet

-----------------------------------------------------------------------------
(* Steps and Base. *)

LEMMA BaseInit == Init => Base
<1> SUFFICES ASSUME Init PROVE Base
  OBVIOUS
<1> USE AppenderAssumption DEF Init, Owners, Threads, Nobody
<1>1. TypeOK
  <2>1. /\ refs \in [Loggers -> SUBSET (Loggers \cup {Main, Flusher})]
        /\ pc \in [Loggers \cup {Main, Flusher} -> {"none", "idle"}]
    OBVIOUS
  <2>2. /\ registered \in Seq(Loggers) /\ left \in Seq(Loggers)
        /\ 0 \in 0 .. NumBlocks - 1 /\ 0 \in 0 .. NumBlocks /\ 0 \in 0 .. MaxBlocks
    OBVIOUS
  <2>3. /\ queued \in [Loggers -> 0 .. NumBlocks - 1]
        /\ logged \in [Loggers -> 0 .. MaxBlocks] /\ space \in [Loggers -> 0 .. NumBlocks]
        /\ open \in [Loggers -> 0 .. 1]
    BY <2>2
  <2> QED BY <2>1, <2>2, <2>3 DEF TypeOK
<1>2. PcInv
  BY DEF PcInv, MainPcs, FlusherPcs, LoggerPcs
<1>3. ListInv
  BY DEF ListInv, ToSet
<1> QED BY <1>1, <1>2, <1>3 DEF Base

LEMMA CountTypes ==
    ASSUME TypeOK, NEW l \in Loggers
    PROVE  /\ queued[l] \in Nat /\ queued[l] <= NumBlocks - 1
           /\ open[l] \in {0, 1} /\ disk[l] \in Nat /\ dropped[l] \in Nat
           /\ logged[l] \in Nat /\ NumBlocks \in Nat
<1>1. queued[l] \in 0 .. NumBlocks - 1 /\ open[l] \in 0 .. 1 /\ logged[l] \in 0 .. MaxBlocks
  BY DEF TypeOK
<1>2. disk[l] \in Nat /\ dropped[l] \in Nat
  BY DEF TypeOK
<1> QED BY <1>1, <1>2, AppenderAssumption

LEMMA WalkFacts ==
    ASSUME Base, left # << >>
    PROVE  /\ Current \in Loggers /\ Current \in ToSet(left)
           /\ Tail(left) \in Seq(Loggers) /\ ToSet(Tail(left)) \subseteq ToSet(left)
           /\ Len(Tail(left)) = Len(left) - 1
           /\ Len(left) \in Nat /\ Len(registered) \in Nat
BY HeadTail DEF Base, TypeOK, Current

LEMMA RemovalFacts ==
    ASSUME Base, left # << >>, listLock # Nobody
    PROVE  LET rest == RemoveAt(registered, Len(registered) - Len(left) + 1)
           IN  /\ rest \in Seq(Loggers) /\ Len(rest) = Len(registered) - 1
               /\ ToSet(rest) \subseteq ToSet(registered)
<1>1. /\ registered \in Seq(Loggers) /\ left \in Seq(Loggers)
      /\ Len(left) <= Len(registered)
  BY DEF Base, TypeOK, ListInv
<1>2. Len(registered) - Len(left) + 1 \in 1 .. Len(registered)
  BY <1>1
<1> QED BY <1>1, <1>2, RemovedAt

LEMMA BaseStep == Base /\ [Next]_vars => Base'
<1> SUFFICES ASSUME Base, [Next]_vars PROVE Base'
  OBVIOUS
<1> USE AppenderAssumption DEF Base, Owners, Threads, Nobody, bufferVars,
        callbackVars, loggerVars, ownVars, listVars, condVars, Goto
<1>1. ASSUME NEW t \in Threads, ListLock(t) PROVE Base'
  <2>1. TypeOK'
    BY <1>1 DEF ListLock, TypeOK
  <2>2. PcInv'
    BY <1>1 DEF ListLock, TypeOK, PcInv, ListInv, MainPcs, FlusherPcs, LoggerPcs
  <2>3. ListInv'
    <3>1. /\ pc[t] = "lock" /\ listLock = Nobody /\ listLock' = t
          /\ left' = registered /\ registered' = registered
          /\ pc' = [pc EXCEPT ![t] = "next"]
      BY <1>1 DEF ListLock
    <3>2. pc'[t] = "next" /\ \A u \in Threads \ {t} : pc'[u] = pc[u]
      BY <3>1 DEF TypeOK
    <3>3. \A u \in Threads : pc[u] \notin {"next", "held"}
      BY <3>1 DEF ListInv
    <3>4. Len(left') <= Len(registered')
      BY <3>1 DEF TypeOK
    <3>5. t \in Loggers => t \notin ToSet(registered)
      BY <3>1 DEF ListInv
    <3> QED BY <3>1, <3>2, <3>3, <3>4, <3>5 DEF ListInv
  <2> QED BY <2>1, <2>2, <2>3
<1>2. ASSUME NEW t \in Threads, ListNext(t) PROVE Base'
  <2>1. /\ listLock = t /\ listLock # Nobody /\ left # << >> /\ pc[t] = "next"
        /\ UNCHANGED <<life, bufferVars, callbackVars, ownVars, listLock, condVars>>
    BY <1>2 DEF ListNext, ListInv
  <2>2. CASE refs[Current] = {}
    <3>1. /\ UNCHANGED <<refs, pc>> /\ left' = Tail(left)
          /\ \/ registered' = registered /\ t \in Loggers
             \/ registered' = RemoveAt(registered, Len(registered) - Len(left) + 1)
                /\ t \notin Loggers
      BY <1>2, <2>2 DEF ListNext
    <3>2. /\ registered' \in Seq(Loggers) /\ ToSet(registered') \subseteq ToSet(registered)
          /\ left' \in Seq(Loggers) /\ ToSet(left') \subseteq ToSet(left)
          /\ Len(left') <= Len(registered')
      <4>1. registered \in Seq(Loggers) /\ Len(left) <= Len(registered)
        BY <2>1 DEF TypeOK, ListInv
      <4> QED BY <2>1, <3>1, <4>1, WalkFacts, RemovalFacts
    <3>3. TypeOK'
      BY <2>1, <3>1, <3>2 DEF TypeOK
    <3>4. PcInv'
      BY <3>1 DEF PcInv
    <3>5. ListInv'
      BY <2>1, <3>1, <3>2 DEF ListInv
    <3> QED BY <3>3, <3>4, <3>5
  <2>3. CASE refs[Current] # {}
    <3>1. /\ UNCHANGED <<registered, left>>
          /\ refs' = [refs EXCEPT ![Current] = @ \cup {t}]
          /\ pc' = [pc EXCEPT ![t] = "held"]
      BY <1>2, <2>3 DEF ListNext
    <3>2. TypeOK'
      BY <2>1, <3>1, WalkFacts DEF TypeOK
    <3>3. PcInv'
      BY <2>1, <3>1 DEF TypeOK, PcInv, MainPcs, FlusherPcs, LoggerPcs
    <3>4. ListInv'
      BY <2>1, <3>1 DEF TypeOK, ListInv
    <3> QED BY <3>2, <3>3, <3>4
  <2> QED BY <2>2, <2>3
<1>3. ASSUME NEW t \in Threads, FlushBlock(t) PROVE Base'
  <2>1. listLock = t /\ left # << >> /\ Current \in Loggers
    BY <1>3, WalkFacts DEF FlushBlock, ListInv
  <2>2. /\ queued[Current] \in 1 .. NumBlocks - 1
        /\ queued' = [queued EXCEPT ![Current] = @ - 1]
        /\ disk' = [disk EXCEPT ![Current] = @ + 1]
        /\ UNCHANGED <<refs, life, open, logged, dropped, callbackVars, ownVars,
                       listVars, condVars, pc>>
    BY <1>3, <2>1 DEF FlushBlock, TypeOK
  <2>3. queued' \in [Loggers -> 0 .. NumBlocks - 1] /\ disk' \in [Loggers -> Nat]
    <3>1. queued[Current] - 1 \in 0 .. NumBlocks - 1 /\ disk[Current] + 1 \in Nat
      BY <2>1, <2>2, CountTypes
    <3> QED BY <2>1, <2>2, <3>1 DEF TypeOK
  <2>4. TypeOK'
    BY <2>2, <2>3 DEF TypeOK
  <2>5. PcInv' /\ ListInv'
    BY <2>2 DEF PcInv, ListInv
  <2> QED BY <2>4, <2>5
<1>4. ASSUME NEW t \in Threads, ListRelease(t) PROVE Base'
  <2>1. /\ listLock = t /\ left # << >> /\ pc[t] = "held" /\ Current \in Loggers
        /\ refs' = [refs EXCEPT ![Current] = @ \ {t}]
        /\ UNCHANGED <<bufferVars, callbackVars, ownVars, registered, listLock,
                       condVars>>
    BY <1>4, WalkFacts DEF ListRelease, DropLogger, ListInv
  <2>2. CASE refs'[Current] = {}
    <3>1. /\ life' = [life EXCEPT ![Current] = "dying"]
          /\ pc' = [pc EXCEPT ![t] = "destroy"]
          /\ pc'[t] = "destroy" /\ left' = left
      BY <1>4, <2>2 DEF ListRelease, DropLogger, TypeOK
    <3>2. TypeOK'
      BY <2>1, <3>1 DEF TypeOK
    <3>3. PcInv'
      BY <2>1, <3>1 DEF TypeOK, PcInv, MainPcs, FlusherPcs, LoggerPcs
    <3>4. ListInv'
      BY <2>1, <3>1 DEF TypeOK, ListInv
    <3> QED BY <3>2, <3>3, <3>4
  <2>3. CASE refs'[Current] # {}
    <3>1. /\ UNCHANGED life
          /\ pc' = [pc EXCEPT ![t] = "next"]
          /\ left' = Tail(left)
      BY <1>4, <2>3 DEF ListRelease, DropLogger, TypeOK
    <3>2. TypeOK'
      BY <2>1, <3>1, WalkFacts DEF TypeOK
    <3>3. PcInv'
      BY <2>1, <3>1 DEF TypeOK, PcInv, MainPcs, FlusherPcs, LoggerPcs
    <3>4. ListInv'
      <4>1. Len(left') <= Len(registered') /\ ToSet(left') \subseteq ToSet(left)
        BY <2>1, <3>1, WalkFacts DEF ListInv
      <4> QED BY <2>1, <3>1, <4>1 DEF TypeOK, ListInv
    <3> QED BY <3>2, <3>3, <3>4
  <2> QED BY <2>2, <2>3
<1>5. ASSUME NEW t \in Threads, ListDestroy(t) PROVE Base'
  <2>1. /\ listLock = t /\ left # << >> /\ pc[t] = "destroy" /\ Current \in Loggers
        /\ left' = Tail(left) /\ pc' = [pc EXCEPT ![t] = "next"]
        /\ UNCHANGED <<ownVars, registered, listLock, condVars>>
    BY <1>5, WalkFacts DEF ListDestroy, ListInv
  <2>2. /\ disk' = [disk EXCEPT ![Current] = @ + queued[Current] + open[Current]]
        /\ queued' = [queued EXCEPT ![Current] = 0] /\ open' = [open EXCEPT ![Current] = 0]
        /\ life' = [life EXCEPT ![Current] = "dead"]
        /\ UNCHANGED <<refs, logged, dropped, callbackVars>>
    BY <1>5 DEF ListDestroy, Destroy
  <2>3. /\ disk' \in [Loggers -> Nat] /\ queued' \in [Loggers -> 0 .. NumBlocks - 1]
        /\ open' \in [Loggers -> 0 .. 1]
    <3>1. disk[Current] + queued[Current] + open[Current] \in Nat
      BY <2>1, CountTypes
    <3>2. 0 \in 0 .. NumBlocks - 1
      OBVIOUS
    <3>3. disk' \in [Loggers -> Nat]
      BY <2>1, <2>2, <3>1 DEF TypeOK
    <3>4. queued' \in [Loggers -> 0 .. NumBlocks - 1]
      BY <2>1, <2>2, <3>2 DEF TypeOK
    <3>5. open' \in [Loggers -> 0 .. 1]
      BY <2>1, <2>2 DEF TypeOK
    <3> QED BY <3>3, <3>4, <3>5
  <2>4. TypeOK'
    BY <2>1, <2>2, <2>3, WalkFacts DEF TypeOK
  <2>5. PcInv'
    BY <2>1 DEF TypeOK, PcInv, MainPcs, FlusherPcs, LoggerPcs
  <2>6. ListInv'
    <3>1. Len(left') <= Len(registered') /\ ToSet(left') \subseteq ToSet(left)
      BY <2>1, WalkFacts DEF ListInv
    <3> QED BY <2>1, <3>1 DEF TypeOK, ListInv
  <2> QED BY <2>4, <2>5, <2>6
<1>6. ASSUME NEW t \in Threads, ListUnlock(t) PROVE Base'
  <2>1. TypeOK'
    BY <1>6 DEF ListUnlock, TypeOK
  <2>2. PcInv'
    BY <1>6 DEF ListUnlock, TypeOK, PcInv, ListInv, MainPcs, FlusherPcs, LoggerPcs
  <2>3. ListInv'
    BY <1>6 DEF ListUnlock, TypeOK, PcInv, ListInv, FlusherPcs
  <2> QED BY <2>1, <2>2, <2>3
<1>7. ASSUME NEW t \in Threads, Join(t) PROVE Base'
  <2>1. TypeOK'
    BY <1>7 DEF Join, AfterAppender, TypeOK
  <2>2. PcInv'
    BY <1>7 DEF Join, AfterAppender, TypeOK, PcInv, ListInv, MainPcs, FlusherPcs, LoggerPcs
  <2>3. ListInv'
    BY <1>7 DEF Join, AfterAppender, TypeOK, PcInv, ListInv, FlusherPcs
  <2> QED BY <2>1, <2>2, <2>3
<1>8. ASSUME NEW t \in Threads, StopFlusher(t) PROVE Base'
  <2>1. /\ t \in Owners /\ pc[t] = "stop" /\ AfterAppender(t) \in {"run", "done"}
        /\ t = Main => AfterAppender(t) = "done"
        /\ UNCHANGED <<loggerVars, arefs, listVars, condLock, available>>
    BY <1>8 DEF StopFlusher, AfterAppender, PcInv, FlusherPcs
  <2>2. CASE pc[Flusher] = "none"
    <3>1. /\ alife' = "dead" /\ pc' = [pc EXCEPT ![t] = AfterAppender(t)]
          /\ UNCHANGED <<run, wakeUp>>
      BY <1>8, <2>2 DEF StopFlusher
    <3>2. TypeOK'
      BY <2>1, <3>1 DEF TypeOK
    <3>3. PcInv'
      BY <2>1, <3>1 DEF TypeOK, PcInv, MainPcs, FlusherPcs, LoggerPcs, AfterAppender
    <3>4. ListInv'
      BY <2>1, <3>1 DEF TypeOK, ListInv
    <3> QED BY <3>2, <3>3, <3>4
  <2>3. CASE pc[Flusher] # "none"
    <3>1. /\ condLock = Nobody /\ run' = FALSE /\ wakeUp' = TRUE /\ UNCHANGED alife
          /\ pc' \in [Threads ->
                {"none", "idle", "lock", "next", "held", "destroy", "run", "callback",
                 "count", "store", "test", "notify", "release", "stop", "join",
                 "loop", "cond", "sleep", "reset", "waiting", "exited", "done"}]
          /\ \A u \in Threads : pc'[u] = IF u = t THEN "join"
                                ELSE IF u = Flusher /\ pc[u] = "waiting" THEN "cond"
                                ELSE pc[u]
      <4>1. /\ condLock = Nobody /\ run' = FALSE /\ wakeUp' = TRUE /\ UNCHANGED alife
            /\ pc' = [pc EXCEPT ![t] = "join",
                         ![Flusher] = IF @ = "waiting" THEN "cond" ELSE @]
        BY <1>8, <2>3 DEF StopFlusher, Woken
      <4> QED BY <2>1, <4>1 DEF TypeOK
    <3>2. TypeOK'
      BY <2>1, <3>1 DEF TypeOK
    <3>3. PcInv'
      BY <2>1, <3>1 DEF TypeOK, PcInv, MainPcs, FlusherPcs, LoggerPcs
    <3>4. ListInv'
      BY <2>1, <3>1 DEF TypeOK, ListInv
    <3> QED BY <3>2, <3>3, <3>4
  <2> QED BY <2>2, <2>3
<1>9. ASSUME NEW t \in Loggers, AddLogger(t) PROVE Base'
  <2>1. /\ pc[t] = "next" /\ listLock = t /\ left = << >> /\ left' = left
        /\ registered' = Append(registered, t) /\ listLock' = Nobody
        /\ arefs' = arefs \ {t} /\ alife' \in {"dying", alife}
        /\ UNCHANGED <<loggerVars, condVars>>
    BY <1>9 DEF AddLogger, DropAppender, ListInv
  <2>2. pc' = [pc EXCEPT ![t] = IF arefs' = {} THEN "stop" ELSE "run"]
    BY <1>9 DEF AddLogger, DropAppender
  <2>3. PICK where \in {"stop", "run"} : pc' = [pc EXCEPT ![t] = where]
    BY <2>2
  <2>4. /\ registered' \in Seq(Loggers)
        /\ ToSet(registered') = ToSet(registered) \cup {t}
    BY <2>1, Appended DEF TypeOK
  <2>5. TypeOK'
    BY <2>1, <2>3, <2>4 DEF TypeOK
  <2>6. PcInv'
    BY <2>1, <2>3 DEF TypeOK, PcInv, MainPcs, FlusherPcs, LoggerPcs
  <2>7. ListInv'
    BY <2>1, <2>3, <2>4 DEF TypeOK, ListInv
  <2> QED BY <2>5, <2>6, <2>7
<1>10. ASSUME NEW t \in Loggers, CallbackLock(t) PROVE Base'
  <2>1. TypeOK'
    BY <1>10 DEF CallbackLock, TypeOK
  <2>2. PcInv'
    BY <1>10 DEF CallbackLock, TypeOK, PcInv, ListInv, MainPcs, FlusherPcs, LoggerPcs
  <2>3. ListInv'
    BY <1>10 DEF CallbackLock, TypeOK, PcInv, ListInv, FlusherPcs
  <2> QED BY <2>1, <2>2, <2>3
<1>11. ASSUME NEW t \in Loggers, CountLoad(t) PROVE Base'
  <2>1. /\ pc[t] = "count" /\ sum' = [sum EXCEPT ![t] = available + 1]
        /\ pc' = [pc EXCEPT ![t] = "store"]
        /\ UNCHANGED <<refs, life, bufferVars, space, ownVars, listVars, condVars>>
    BY <1>11 DEF CountLoad
  <2>2. TypeOK'
    <3>1. sum' \in [Loggers -> Nat]
      BY <2>1 DEF TypeOK
    <3> QED BY <2>1, <3>1 DEF TypeOK
  <2>3. PcInv'
    BY <2>1 DEF TypeOK, PcInv, MainPcs, FlusherPcs, LoggerPcs
  <2>4. ListInv'
    BY <2>1 DEF TypeOK, ListInv
  <2> QED BY <2>2, <2>3, <2>4
<1>12. ASSUME NEW t \in Loggers, CountStore(t) PROVE Base'
  <2>1. TypeOK'
    BY <1>12 DEF CountStore, TypeOK
  <2>2. PcInv'
    BY <1>12 DEF CountStore, TypeOK, PcInv, ListInv, MainPcs, FlusherPcs, LoggerPcs
  <2>3. ListInv'
    BY <1>12 DEF CountStore, TypeOK, PcInv, ListInv, FlusherPcs
  <2> QED BY <2>1, <2>2, <2>3
<1>13. ASSUME NEW t \in Loggers, CallbackTest(t) PROVE Base'
  <2>1. /\ pc[t] = "test"
        /\ UNCHANGED <<loggerVars, ownVars, listVars, condVars>>
    BY <1>13 DEF CallbackTest
  <2>2. PICK where \in {"notify", "release"} : pc' = [pc EXCEPT ![t] = where]
    BY <1>13 DEF CallbackTest
  <2>3. TypeOK'
    BY <2>1, <2>2 DEF TypeOK
  <2>4. PcInv'
    BY <2>1, <2>2 DEF TypeOK, PcInv, MainPcs, FlusherPcs, LoggerPcs
  <2>5. ListInv'
    BY <2>1, <2>2 DEF TypeOK, ListInv
  <2> QED BY <2>3, <2>4, <2>5
<1>14. ASSUME NEW t \in Loggers, CallbackRelease(t) PROVE Base'
  <2>1. /\ pc[t] = "release" /\ arefs' = arefs \ {t} /\ alife' \in {"dying", alife}
        /\ space' = [space EXCEPT ![t] = 0] /\ sum' = [sum EXCEPT ![t] = 0]
        /\ UNCHANGED <<refs, life, bufferVars, listVars, condVars>>
    BY <1>14 DEF CallbackRelease, DropAppender
  <2>2. pc' = [pc EXCEPT ![t] = IF arefs' = {} THEN "stop" ELSE "run"]
    BY <1>14 DEF CallbackRelease, DropAppender
  <2>3. PICK where \in {"stop", "run"} : pc' = [pc EXCEPT ![t] = where]
    BY <2>2
  <2>4. TypeOK'
    <3>1. space' \in [Loggers -> 0 .. NumBlocks] /\ sum' \in [Loggers -> Nat]
      BY <2>1 DEF TypeOK
    <3> QED BY <2>1, <2>3, <3>1 DEF TypeOK
  <2>5. PcInv'
    BY <2>1, <2>3 DEF TypeOK, PcInv, MainPcs, FlusherPcs, LoggerPcs
  <2>6. ListInv'
    BY <2>1, <2>3 DEF TypeOK, ListInv
  <2> QED BY <2>4, <2>5, <2>6
<1>15. ASSUME NEW t \in Loggers, DestroyByOwner(t) PROVE Base'
  <2>1. /\ pc[t] = "destroy" /\ listLock # t /\ pc' = [pc EXCEPT ![t] = "done"]
        /\ UNCHANGED <<ownVars, listVars, condVars>>
    BY <1>15 DEF DestroyByOwner
  <2>2. /\ disk' = [disk EXCEPT ![t] = @ + queued[t] + open[t]]
        /\ queued' = [queued EXCEPT ![t] = 0] /\ open' = [open EXCEPT ![t] = 0]
        /\ life' = [life EXCEPT ![t] = "dead"]
        /\ UNCHANGED <<refs, logged, dropped, callbackVars>>
    BY <1>15 DEF DestroyByOwner, Destroy
  <2>3. /\ disk' \in [Loggers -> Nat] /\ queued' \in [Loggers -> 0 .. NumBlocks - 1]
        /\ open' \in [Loggers -> 0 .. 1]
    <3>1. disk[t] + queued[t] + open[t] \in Nat
      BY <2>1, CountTypes
    <3>2. 0 \in 0 .. NumBlocks - 1
      OBVIOUS
    <3>3. disk' \in [Loggers -> Nat]
      BY <2>1, <2>2, <3>1 DEF TypeOK
    <3>4. queued' \in [Loggers -> 0 .. NumBlocks - 1]
      BY <2>1, <2>2, <3>2 DEF TypeOK
    <3>5. open' \in [Loggers -> 0 .. 1]
      BY <2>1, <2>2 DEF TypeOK
    <3> QED BY <3>3, <3>4, <3>5
  <2>4. TypeOK'
    BY <2>1, <2>2, <2>3 DEF TypeOK
  <2>5. PcInv'
    BY <2>1 DEF TypeOK, PcInv, MainPcs, FlusherPcs, LoggerPcs
  <2>6. ListInv'
    BY <2>1 DEF TypeOK, ListInv
  <2> QED BY <2>4, <2>5, <2>6
<1>16. ASSUME NEW t \in Loggers, CallbackNotify(t) PROVE Base'
  <2>1. TypeOK'
    BY <1>16 DEF CallbackNotify, Woken, TypeOK
  <2>2. PcInv'
    BY <1>16 DEF CallbackNotify, Woken, TypeOK, PcInv, ListInv, MainPcs, FlusherPcs, LoggerPcs
  <2>3. ListInv'
    <3>1. /\ UNCHANGED <<registered, left, listLock>> /\ pc[t] = "notify"
          /\ Woken(t, "release")
      BY <1>16 DEF CallbackNotify
    <3>2. /\ pc'[t] = "release"
          /\ \A u \in Threads \ {t} :
                pc'[u] = pc[u] \/ (u = Flusher /\ pc[u] = "waiting" /\ pc'[u] = "cond")
      BY <3>1 DEF Woken, TypeOK
    <3> QED BY <3>1, <3>2 DEF ListInv
  <2> QED BY <2>1, <2>2, <2>3
<1>17. ASSUME NEW t \in Loggers, BeginAddLogger(t) PROVE Base'
  <2>1. TypeOK'
    BY <1>17 DEF BeginAddLogger, TypeOK
  <2>2. PcInv'
    BY <1>17 DEF BeginAddLogger, TypeOK, PcInv, ListInv, MainPcs, FlusherPcs, LoggerPcs
  <2>3. ListInv'
    BY <1>17 DEF BeginAddLogger, TypeOK, PcInv, ListInv, FlusherPcs
  <2> QED BY <2>1, <2>2, <2>3
<1>18. ASSUME NEW t \in Loggers, Log(t) PROVE Base'
  <2>1. /\ pc[t] \in {"run", "idle"} /\ logged[t] < MaxBlocks
        /\ logged' = [logged EXCEPT ![t] = @ + 1] /\ open' = [open EXCEPT ![t] = 1]
        /\ UNCHANGED <<refs, life, disk, sum, ownVars, listVars, condVars>>
    BY <1>18 DEF Log
  <2>2. logged' \in [Loggers -> 0 .. MaxBlocks] /\ open' \in [Loggers -> 0 .. 1]
    BY <2>1 DEF TypeOK
  <2>3. CASE open[t] = 0
    <3>1. UNCHANGED <<queued, dropped, space, pc>>
      BY <1>18, <2>3 DEF Log
    <3> QED BY <2>1, <2>2, <3>1 DEF TypeOK, PcInv, ListInv
  <2>4. CASE open[t] = 1 /\ BlockFree(t)
    <3>1. /\ queued' = [queued EXCEPT ![t] = @ + 1] /\ UNCHANGED dropped
          /\ \/ UNCHANGED <<space, pc>>
             \/ /\ pc[t] = "run"
                /\ space' = [space EXCEPT ![t] = NumBlocks - queued[t]]
                /\ pc' = [pc EXCEPT ![t] = "callback"]
      BY <1>18, <2>4 DEF Log
    <3>2. /\ queued' \in [Loggers -> 0 .. NumBlocks - 1]
          /\ NumBlocks - queued[t] \in 0 .. NumBlocks
      <4>1. /\ queued \in [Loggers -> 0 .. NumBlocks - 1] /\ NumBlocks \in Nat
            /\ queued[t] < NumBlocks - 1
        BY <2>4 DEF TypeOK, BlockFree
      <4>2. queued[t] + 1 \in 0 .. NumBlocks - 1
        BY <4>1
      <4> QED BY <3>1, <4>1, <4>2
    <3>3. TypeOK'
      <4>1. space' \in [Loggers -> 0 .. NumBlocks]
        <5>1. space \in [Loggers -> 0 .. NumBlocks]
          BY DEF TypeOK
        <5> QED BY <3>1, <3>2, <5>1
      <4>2. CASE UNCHANGED pc
        BY <2>1, <2>2, <3>1, <3>2, <4>1, <4>2 DEF TypeOK
      <4>3. CASE pc' = [pc EXCEPT ![t] = "callback"]
        BY <2>1, <2>2, <3>1, <3>2, <4>1, <4>3 DEF TypeOK
      <4> QED BY <3>1, <4>2, <4>3
    <3>4. PcInv'
      BY <2>1, <3>1 DEF TypeOK, PcInv, MainPcs, FlusherPcs, LoggerPcs
    <3>5. ListInv'
      BY <2>1, <3>1 DEF TypeOK, ListInv
    <3> QED BY <3>3, <3>4, <3>5
  <2>5. CASE open[t] # 0 /\ ~ (open[t] = 1 /\ BlockFree(t))
    <3>1. /\ dropped' = [dropped EXCEPT ![t] = @ + 1]
          /\ UNCHANGED <<queued, space, pc>>
      BY <1>18, <2>5 DEF Log
    <3>2. dropped' \in [Loggers -> Nat]
      <4>1. dropped[t] + 1 \in Nat
        BY CountTypes
      <4> QED BY <3>1, <4>1 DEF TypeOK
    <3> QED BY <2>1, <2>2, <3>1, <3>2 DEF TypeOK, PcInv, ListInv
  <2> QED BY <2>3, <2>4, <2>5
<1>19. ASSUME NEW t \in Loggers, ResetLogger(t) PROVE Base'
  <2>1. /\ pc[t] = "run" /\ refs' = [refs EXCEPT ![t] = @ \ {t}]
        /\ life' \in {life, [life EXCEPT ![t] = "dying"]}
        /\ UNCHANGED <<bufferVars, callbackVars, ownVars, listVars, condVars>>
    BY <1>19 DEF ResetLogger, DropLogger
  <2>2. PICK where \in {"destroy", "done"} : pc' = [pc EXCEPT ![t] = where]
    BY <1>19 DEF ResetLogger, DropLogger
  <2>3. TypeOK'
    BY <2>1, <2>2 DEF TypeOK
  <2>4. PcInv'
    BY <2>1, <2>2 DEF TypeOK, PcInv, MainPcs, FlusherPcs, LoggerPcs
  <2>5. ListInv'
    BY <2>1, <2>2 DEF TypeOK, ListInv
  <2> QED BY <2>3, <2>4, <2>5
<1>20. CASE FlusherLoop
  <2>1. TypeOK'
    BY <1>20 DEF FlusherLoop, TypeOK
  <2>2. PcInv'
    BY <1>20 DEF FlusherLoop, TypeOK, PcInv, ListInv, MainPcs, FlusherPcs, LoggerPcs
  <2>3. ListInv'
    BY <1>20 DEF FlusherLoop, TypeOK, PcInv, ListInv, FlusherPcs
  <2> QED BY <2>1, <2>2, <2>3
<1>21. CASE FlusherTakeCond
  <2>1. TypeOK'
    BY <1>21 DEF FlusherTakeCond, TypeOK
  <2>2. PcInv'
    BY <1>21 DEF FlusherTakeCond, TypeOK, PcInv, ListInv, MainPcs, FlusherPcs, LoggerPcs
  <2>3. ListInv'
    BY <1>21 DEF FlusherTakeCond, TypeOK, PcInv, ListInv, FlusherPcs
  <2> QED BY <2>1, <2>2, <2>3
<1>22. CASE FlusherTest
  <2>1. TypeOK'
    BY <1>22 DEF FlusherTest, TypeOK
  <2>2. PcInv'
    BY <1>22 DEF FlusherTest, TypeOK, PcInv, ListInv, MainPcs, FlusherPcs, LoggerPcs
  <2>3. ListInv'
    BY <1>22 DEF FlusherTest, TypeOK, PcInv, ListInv, FlusherPcs
  <2> QED BY <2>1, <2>2, <2>3
<1>23. CASE FlusherSleep
  <2>1. TypeOK'
    BY <1>23 DEF FlusherSleep, TypeOK
  <2>2. PcInv'
    BY <1>23 DEF FlusherSleep, TypeOK, PcInv, ListInv, MainPcs, FlusherPcs, LoggerPcs
  <2>3. ListInv'
    BY <1>23 DEF FlusherSleep, TypeOK, PcInv, ListInv, FlusherPcs
  <2> QED BY <2>1, <2>2, <2>3
<1>24. CASE FlusherReset
  <2>1. TypeOK'
    BY <1>24 DEF FlusherReset, TypeOK
  <2>2. PcInv'
    BY <1>24 DEF FlusherReset, TypeOK, PcInv, ListInv, MainPcs, FlusherPcs, LoggerPcs
  <2>3. ListInv'
    BY <1>24 DEF FlusherReset, TypeOK, PcInv, ListInv, FlusherPcs
  <2> QED BY <2>1, <2>2, <2>3
<1>25. CASE StartFlushThread
  <2>1. TypeOK'
    BY <1>25 DEF StartFlushThread, TypeOK
  <2>2. PcInv'
    BY <1>25 DEF StartFlushThread, TypeOK, PcInv, ListInv, MainPcs, FlusherPcs, LoggerPcs
  <2>3. ListInv'
    BY <1>25 DEF StartFlushThread, TypeOK, PcInv, ListInv, FlusherPcs
  <2> QED BY <2>1, <2>2, <2>3
<1>26. CASE BeginFlush
  <2>1. TypeOK'
    BY <1>26 DEF BeginFlush, TypeOK
  <2>2. PcInv'
    BY <1>26 DEF BeginFlush, TypeOK, PcInv, ListInv, MainPcs, FlusherPcs, LoggerPcs
  <2>3. ListInv'
    BY <1>26 DEF BeginFlush, TypeOK, PcInv, ListInv, FlusherPcs
  <2> QED BY <2>1, <2>2, <2>3
<1>27. CASE ResetAppender
  <2>1. /\ pc[Main] = "idle" /\ arefs' = arefs \ {Main} /\ alife' \in {"dying", alife}
        /\ UNCHANGED <<loggerVars, listVars, condVars>>
    BY <1>27 DEF ResetAppender, DropAppender
  <2>2. pc' = [pc EXCEPT ![Main] = IF arefs' = {} THEN "stop" ELSE "done"]
    BY <1>27 DEF ResetAppender, DropAppender
  <2>3. PICK where \in {"stop", "done"} : pc' = [pc EXCEPT ![Main] = where]
    BY <2>2
  <2>4. TypeOK'
    BY <2>1, <2>3 DEF TypeOK
  <2>5. PcInv'
    BY <2>1, <2>3 DEF TypeOK, PcInv, MainPcs, FlusherPcs, LoggerPcs
  <2>6. ListInv'
    BY <2>1, <2>3 DEF TypeOK, ListInv
  <2> QED BY <2>4, <2>5, <2>6
<1>28. CASE SpuriousWakeUp
  <2>1. TypeOK'
    BY <1>28 DEF SpuriousWakeUp, TypeOK
  <2>2. PcInv'
    BY <1>28 DEF SpuriousWakeUp, TypeOK, PcInv, ListInv, MainPcs, FlusherPcs, LoggerPcs
  <2>3. ListInv'
    BY <1>28 DEF SpuriousWakeUp, TypeOK, PcInv, ListInv, FlusherPcs
  <2> QED BY <2>1, <2>2, <2>3
<1>29. CASE UNCHANGED vars
  BY <1>29 DEF vars, TypeOK, PcInv, ListInv
<1> QED BY <1>1, <1>2, <1>3, <1>4, <1>5, <1>6, <1>7, <1>8, <1>9, <1>10, <1>11, <1>12, <1>13, <1>14, <1>15, <1>16, <1>17, <1>18, <1>19, <1>20, <1>21, <1>22, <1>23, <1>24, <1>25, <1>26, <1>27, <1>28, <1>29
       DEF Next, Continue, Notify, Begin, Terminated

-----------------------------------------------------------------------------
(* Steps and AppenderInv. *)

\* A step that moves no pointer to the appender, and starts and ends nobody's
\* turn in its destructor.
LEMMA QuietAppender ==
    ASSUME AppenderInv, UNCHANGED ownVars,
           \A u \in Owners :
              /\ (pc'[u] \in {"stop", "join"}) = (pc[u] \in {"stop", "join"})
              /\ u \in Using' \/ pc'[u] = "idle" => u \in arefs,
           alife = "dead" => pc'[Flusher] \in {"none", "exited"}
    PROVE  AppenderInv'
<1> USE DEF AppenderInv, AppenderOutlivesUse, ownVars
<1>1. Using' \subseteq arefs'
  BY DEF Using
<1>2. (alife' = "alive") = (arefs' # {})
  OBVIOUS
<1>3. {t \in Owners : pc'[t] \in {"stop", "join"}} = {t \in Owners : pc[t] \in {"stop", "join"}}
  OBVIOUS
<1> QED BY <1>1, <1>2, <1>3

\* Thread t, which has a pointer to the appender, drops it and goes on elsewhere.
LEMMA DropsAppender ==
    ASSUME Base, AppenderInv, NEW t \in Owners, t \in arefs,
           NEW where \in {"run", "done"}, DropAppender(t, where),
           \A u \in Owners \ {t} : listLock' = u => listLock = u
    PROVE  AppenderInv'
<1> USE DEF AppenderInv, AppenderOutlivesUse
<1>1. alife = "alive" /\ \A u \in Owners : pc[u] \notin {"stop", "join"}
  OBVIOUS
<1>2. /\ pc = [u \in Threads |-> pc[u]] /\ t \in Threads /\ arefs \subseteq Owners
      /\ Flusher \notin Owners
  BY AppenderAssumption DEF Base, TypeOK, Threads, Owners
<1>3. arefs' = arefs \ {t}
  BY DEF DropAppender
<1>4. \A u \in Owners \ {t} : u \in Using' \/ pc'[u] = "idle" => u \in arefs'
  <2>1. \A u \in Owners \ {t} : pc'[u] = pc[u]
    BY <1>2 DEF DropAppender, Goto, Threads
  <2> QED BY <1>3, <2>1 DEF Using
<1>5. CASE arefs' = {}
  <2>1. alife' = "dying" /\ pc' = [pc EXCEPT ![t] = "stop"]
    BY <1>5 DEF DropAppender, Goto
  <2>2. /\ pc'[t] = "stop" /\ \A u \in Owners \ {t} : pc'[u] \notin {"stop", "join"}
    BY <1>1, <1>2, <2>1 DEF Threads
  <2>3. {u \in Owners : pc'[u] \in {"stop", "join"}} = {t}
    BY <2>2
  <2> QED BY <1>4, <1>5, <2>1, <2>2, <2>3 DEF Using
<1>6. CASE arefs' # {}
  <2>1. alife' = alife /\ pc' = [pc EXCEPT ![t] = where]
    BY <1>6 DEF DropAppender, Goto
  <2>2. pc'[t] = where /\ \A u \in Owners : pc'[u] \notin {"stop", "join"}
    BY <1>1, <1>2, <2>1 DEF Threads
  <2>3. {u \in Owners : pc'[u] \in {"stop", "join"}} = {}
    BY <2>2
  <2> QED BY <1>1, <1>4, <1>6, <2>1, <2>2, <2>3 DEF Using
<1> QED BY <1>5, <1>6

LEMMA AppenderStep == Base /\ AppenderInv /\ [Next]_vars => AppenderInv'
<1> SUFFICES ASSUME Base, AppenderInv, [Next]_vars PROVE AppenderInv'
  OBVIOUS
<1> DEFINE Held(u) == \/ pc[u] \in {"count", "store", "test", "notify", "release",
                                    "lock", "next", "held", "idle"}
                      \/ pc[u] = "destroy" /\ listLock = u
<1>0. /\ pc = [u \in Threads |-> pc[u]] /\ Owners = Loggers \cup {Main}
      /\ Threads = Owners \cup {Flusher} /\ Flusher \notin Owners /\ Main \notin Loggers
      /\ Nobody \notin Threads
      /\ \A u \in Owners : Held(u) => u \in arefs
  BY AppenderAssumption DEF Base, TypeOK, Threads, Owners, Nobody, AppenderInv,
     AppenderOutlivesUse, Using
<1>1. ASSUME NEW t \in Threads, ListLock(t) PROVE AppenderInv'
  <2>1. UNCHANGED ownVars
    BY <1>1 DEF ListLock
  <2>2. \A u \in Owners :
           /\ (pc'[u] \in {"stop", "join"}) = (pc[u] \in {"stop", "join"})
           /\ u \in Using' \/ pc'[u] = "idle" => Held(u)
    BY <1>0, <1>1 DEF ListLock, Goto, Using, listVars, Base, ListInv
  <2>3. pc[Flusher] \in {"none", "exited"} => pc'[Flusher] \in {"none", "exited"}
    BY <1>0, <1>1 DEF ListLock, Goto
  <2> QED BY <1>0, <2>1, <2>2, <2>3, QuietAppender DEF AppenderInv, AppenderOutlivesUse
<1>2. ASSUME NEW t \in Threads, ListNext(t) PROVE AppenderInv'
  <2>1. UNCHANGED <<ownVars, listLock>>
    BY <1>0, <1>2 DEF ListNext, listVars
  <2>2. pc[t] = "next" /\ (pc' = pc \/ pc' = [pc EXCEPT ![t] = "held"])
    BY <1>0, <1>2 DEF ListNext, Goto, Base, ListInv
  <2>3. \A u \in Owners :
           /\ (pc'[u] \in {"stop", "join"}) = (pc[u] \in {"stop", "join"})
           /\ u \in Using' \/ pc'[u] = "idle" => Held(u)
    BY <1>0, <2>1, <2>2 DEF Using
  <2>4. pc[Flusher] \in {"none", "exited"} => pc'[Flusher] \in {"none", "exited"}
    BY <1>0, <2>2
  <2> QED BY <1>0, <2>1, <2>3, <2>4, QuietAppender DEF AppenderInv, AppenderOutlivesUse
<1>3. ASSUME NEW t \in Threads, FlushBlock(t) PROVE AppenderInv'
  <2>1. UNCHANGED ownVars
    BY <1>3 DEF FlushBlock
  <2>2. \A u \in Owners :
           /\ (pc'[u] \in {"stop", "join"}) = (pc[u] \in {"stop", "join"})
           /\ u \in Using' \/ pc'[u] = "idle" => Held(u)
    BY <1>0, <1>3 DEF FlushBlock, Goto, Using, listVars, Base, ListInv
  <2>3. pc[Flusher] \in {"none", "exited"} => pc'[Flusher] \in {"none", "exited"}
    BY <1>0, <1>3 DEF FlushBlock, Goto
  <2> QED BY <1>0, <2>1, <2>2, <2>3, QuietAppender DEF AppenderInv, AppenderOutlivesUse
<1>4. ASSUME NEW t \in Threads, ListRelease(t) PROVE AppenderInv'
  <2>1. UNCHANGED <<ownVars, listLock>>
    BY <1>0, <1>4 DEF ListRelease, listVars
  <2>2. /\ pc[t] = "held" /\ listLock = t
        /\ pc' = [pc EXCEPT ![t] = "destroy"] \/ pc' = [pc EXCEPT ![t] = "next"]
    BY <1>0, <1>4 DEF ListRelease, DropLogger, Goto, Base, ListInv
  <2>3. \A u \in Owners :
           /\ (pc'[u] \in {"stop", "join"}) = (pc[u] \in {"stop", "join"})
           /\ u \in Using' \/ pc'[u] = "idle" => Held(u)
    BY <1>0, <2>1, <2>2 DEF Using
  <2>4. pc[Flusher] \in {"none", "exited"} => pc'[Flusher] \in {"none", "exited"}
    BY <1>0, <2>2
  <2> QED BY <1>0, <2>1, <2>3, <2>4, QuietAppender DEF AppenderInv, AppenderOutlivesUse
<1>5. ASSUME NEW t \in Threads, ListDestroy(t) PROVE AppenderInv'
  <2>1. UNCHANGED ownVars
    BY <1>5 DEF ListDestroy
  <2>2. \A u \in Owners :
           /\ (pc'[u] \in {"stop", "join"}) = (pc[u] \in {"stop", "join"})
           /\ u \in Using' \/ pc'[u] = "idle" => Held(u)
    BY <1>0, <1>5 DEF ListDestroy, Destroy, Goto, Using, listVars, Base, ListInv
  <2>3. pc[Flusher] \in {"none", "exited"} => pc'[Flusher] \in {"none", "exited"}
    BY <1>0, <1>5 DEF ListDestroy, Destroy, Goto
  <2> QED BY <1>0, <2>1, <2>2, <2>3, QuietAppender DEF AppenderInv, AppenderOutlivesUse
<1>6. ASSUME NEW t \in Threads, ListUnlock(t) PROVE AppenderInv'
  <2>1. UNCHANGED ownVars
    BY <1>6 DEF ListUnlock
  <2>2. \A u \in Owners :
           /\ (pc'[u] \in {"stop", "join"}) = (pc[u] \in {"stop", "join"})
           /\ u \in Using' \/ pc'[u] = "idle" => Held(u)
    BY <1>0, <1>6 DEF ListUnlock, Goto, Using, listVars, Base, ListInv
  <2>3. pc[Flusher] \in {"none", "exited"} => pc'[Flusher] \in {"none", "exited"}
    BY <1>0, <1>6 DEF ListUnlock, Goto
  <2> QED BY <1>0, <2>1, <2>2, <2>3, QuietAppender DEF AppenderInv, AppenderOutlivesUse
<1>7. ASSUME NEW t \in Threads, Join(t) PROVE AppenderInv'
  <2>1. /\ pc[t] = "join" /\ t \in Owners /\ pc[Flusher] = "exited"
        /\ arefs' = arefs /\ alife' = "dead" /\ UNCHANGED listLock
        /\ pc' = [pc EXCEPT ![t] = AfterAppender(t)]
    BY <1>0, <1>7 DEF Join, Goto, ownVars, listVars
  <2>2. alife = "dying" /\ \A u \in Owners \ {t} : pc[u] \notin {"stop", "join"}
    BY <2>1 DEF AppenderInv, AppenderOutlivesUse
  <2>3. /\ pc'[t] \in {"run", "done"} /\ \A u \in Threads \ {t} : pc'[u] = pc[u]
    BY <1>0, <2>1 DEF AfterAppender
  <2>4. {u \in Owners : pc'[u] \in {"stop", "join"}} = {}
    BY <1>0, <2>2, <2>3
  <2> QED BY <1>0, <2>1, <2>2, <2>3, <2>4 DEF AppenderInv, AppenderOutlivesUse, Using
<1>8. ASSUME NEW t \in Threads, StopFlusher(t) PROVE AppenderInv'
  <2>1. /\ pc[t] = "stop" /\ t \in Owners /\ arefs' = arefs /\ UNCHANGED listLock
    BY <1>0, <1>8 DEF StopFlusher, listVars, Base, PcInv, FlusherPcs
  <2>2. alife = "dying" /\ \A u \in Owners \ {t} : pc[u] \notin {"stop", "join"}
    BY <2>1 DEF AppenderInv, AppenderOutlivesUse
  <2>3. CASE pc[Flusher] = "none"
    <3>1. alife' = "dead" /\ pc' = [pc EXCEPT ![t] = AfterAppender(t)]
      BY <1>8, <2>3 DEF StopFlusher, Goto
    <3>2. /\ pc'[t] \in {"run", "done"} /\ \A u \in Threads \ {t} : pc'[u] = pc[u]
      BY <1>0, <2>1, <3>1 DEF AfterAppender
    <3>3. {u \in Owners : pc'[u] \in {"stop", "join"}} = {}
      BY <1>0, <2>2, <3>2
    <3> QED BY <1>0, <2>1, <2>2, <2>3, <3>1, <3>2, <3>3
            DEF AppenderInv, AppenderOutlivesUse, Using
  <2>4. CASE pc[Flusher] # "none"
    <3>1. UNCHANGED ownVars
      BY <1>8, <2>1, <2>4 DEF StopFlusher, ownVars
    <3>2. pc'[t] = "join" /\ \A u \in Owners \ {t} : pc'[u] = pc[u]
      BY <1>0, <1>8, <2>1, <2>4 DEF StopFlusher, Woken
    <3>3. \A u \in Owners :
             /\ (pc'[u] \in {"stop", "join"}) = (pc[u] \in {"stop", "join"})
             /\ u \in Using' \/ pc'[u] = "idle" => Held(u)
      BY <2>1, <3>2 DEF Using
    <3> QED BY <1>0, <2>2, <3>1, <3>3, QuietAppender
  <2> QED BY <2>3, <2>4
<1>9. ASSUME NEW t \in Loggers, AddLogger(t) PROVE AppenderInv'
  <2>1. t \in Owners /\ t \in arefs /\ DropAppender(t, "run") /\ listLock' = Nobody
    BY <1>0, <1>9 DEF AddLogger
  <2> QED BY <1>0, <2>1, DropsAppender
<1>10. ASSUME NEW t \in Loggers, CallbackLock(t) PROVE AppenderInv'
  <2>1. /\ alife' = alife /\ UNCHANGED listLock /\ pc[t] = "callback"
        /\ \A u \in Threads \ {t} : pc'[u] = pc[u]
        /\ IF arefs = {} THEN arefs' = {} /\ pc'[t] = "run"
           ELSE arefs' = arefs \cup {t} /\ pc'[t] = "count"
    BY <1>0, <1>10 DEF CallbackLock, Goto, listVars
  <2>2. {u \in Owners : pc'[u] \in {"stop", "join"}} = {u \in Owners : pc[u] \in {"stop", "join"}}
    BY <1>0, <2>1
  <2>3. /\ Using' \subseteq arefs'
        /\ \A u \in Owners : pc'[u] = "idle" => u \in arefs'
    BY <1>0, <2>1 DEF AppenderInv, AppenderOutlivesUse, Using
  <2>4. (alife' = "alive") = (arefs' # {})
    BY <1>0, <2>1 DEF AppenderInv, AppenderOutlivesUse
  <2>5. alife' = "dead" => pc'[Flusher] \in {"none", "exited"}
    BY <1>0, <2>1 DEF AppenderInv, AppenderOutlivesUse
  <2> QED BY <1>0, <2>1, <2>2, <2>3, <2>4, <2>5 DEF AppenderInv, AppenderOutlivesUse
<1>11. ASSUME NEW t \in Loggers, CountLoad(t) PROVE AppenderInv'
  <2>1. UNCHANGED ownVars
    BY <1>11 DEF CountLoad
  <2>2. \A u \in Owners :
           /\ (pc'[u] \in {"stop", "join"}) = (pc[u] \in {"stop", "join"})
           /\ u \in Using' \/ pc'[u] = "idle" => Held(u)
    BY <1>0, <1>11 DEF CountLoad, Goto, Using, listVars, Base, ListInv
  <2>3. pc[Flusher] \in {"none", "exited"} => pc'[Flusher] \in {"none", "exited"}
    BY <1>0, <1>11 DEF CountLoad, Goto
  <2> QED BY <1>0, <2>1, <2>2, <2>3, QuietAppender DEF AppenderInv, AppenderOutlivesUse
<1>12. ASSUME NEW t \in Loggers, CountStore(t) PROVE AppenderInv'
  <2>1. UNCHANGED ownVars
    BY <1>12 DEF CountStore
  <2>2. \A u \in Owners :
           /\ (pc'[u] \in {"stop", "join"}) = (pc[u] \in {"stop", "join"})
           /\ u \in Using' \/ pc'[u] = "idle" => Held(u)
    BY <1>0, <1>12 DEF CountStore, Goto, Using, listVars, Base, ListInv
  <2>3. pc[Flusher] \in {"none", "exited"} => pc'[Flusher] \in {"none", "exited"}
    BY <1>0, <1>12 DEF CountStore, Goto
  <2> QED BY <1>0, <2>1, <2>2, <2>3, QuietAppender DEF AppenderInv, AppenderOutlivesUse
<1>13. ASSUME NEW t \in Loggers, CallbackTest(t) PROVE AppenderInv'
  <2>1. UNCHANGED ownVars
    BY <1>13 DEF CallbackTest
  <2>2. \A u \in Owners :
           /\ (pc'[u] \in {"stop", "join"}) = (pc[u] \in {"stop", "join"})
           /\ u \in Using' \/ pc'[u] = "idle" => Held(u)
    BY <1>0, <1>13 DEF CallbackTest, Goto, Using, listVars, Base, ListInv
  <2>3. pc[Flusher] \in {"none", "exited"} => pc'[Flusher] \in {"none", "exited"}
    BY <1>0, <1>13 DEF CallbackTest, Goto
  <2> QED BY <1>0, <2>1, <2>2, <2>3, QuietAppender DEF AppenderInv, AppenderOutlivesUse
<1>14. ASSUME NEW t \in Loggers, CallbackRelease(t) PROVE AppenderInv'
  <2>1. t \in Owners /\ t \in arefs /\ DropAppender(t, "run") /\ UNCHANGED listLock
    BY <1>0, <1>14 DEF CallbackRelease, listVars
  <2> QED BY <1>0, <2>1, DropsAppender
<1>15. ASSUME NEW t \in Loggers, DestroyByOwner(t) PROVE AppenderInv'
  <2>1. UNCHANGED ownVars
    BY <1>15 DEF DestroyByOwner
  <2>2. \A u \in Owners :
           /\ (pc'[u] \in {"stop", "join"}) = (pc[u] \in {"stop", "join"})
           /\ u \in Using' \/ pc'[u] = "idle" => Held(u)
    BY <1>0, <1>15 DEF DestroyByOwner, Destroy, Goto, Using, listVars, Base, ListInv
  <2>3. pc[Flusher] \in {"none", "exited"} => pc'[Flusher] \in {"none", "exited"}
    BY <1>0, <1>15 DEF DestroyByOwner, Destroy, Goto
  <2> QED BY <1>0, <2>1, <2>2, <2>3, QuietAppender DEF AppenderInv, AppenderOutlivesUse
<1>16. ASSUME NEW t \in Loggers, CallbackNotify(t) PROVE AppenderInv'
  <2>1. UNCHANGED ownVars
    BY <1>16 DEF CallbackNotify
  <2>2. \A u \in Owners :
           /\ (pc'[u] \in {"stop", "join"}) = (pc[u] \in {"stop", "join"})
           /\ u \in Using' \/ pc'[u] = "idle" => Held(u)
    BY <1>0, <1>16 DEF CallbackNotify, Woken, Goto, Using, listVars, Base, ListInv
  <2>3. pc[Flusher] \in {"none", "exited"} => pc'[Flusher] \in {"none", "exited"}
    BY <1>0, <1>16 DEF CallbackNotify, Woken, Goto
  <2> QED BY <1>0, <2>1, <2>2, <2>3, QuietAppender DEF AppenderInv, AppenderOutlivesUse
<1>17. ASSUME NEW t \in Loggers, BeginAddLogger(t) PROVE AppenderInv'
  <2>1. UNCHANGED ownVars
    BY <1>17 DEF BeginAddLogger
  <2>2. \A u \in Owners :
           /\ (pc'[u] \in {"stop", "join"}) = (pc[u] \in {"stop", "join"})
           /\ u \in Using' \/ pc'[u] = "idle" => Held(u)
    BY <1>0, <1>17 DEF BeginAddLogger, Goto, Using, listVars, Base, ListInv
  <2>3. pc[Flusher] \in {"none", "exited"} => pc'[Flusher] \in {"none", "exited"}
    BY <1>0, <1>17 DEF BeginAddLogger, Goto
  <2> QED BY <1>0, <2>1, <2>2, <2>3, QuietAppender DEF AppenderInv, AppenderOutlivesUse
<1>18. ASSUME NEW t \in Loggers, Log(t) PROVE AppenderInv'
  <2>1. UNCHANGED <<ownVars, listLock>>
    BY <1>0, <1>18 DEF Log, listVars
  <2>2. pc' = pc \/ (pc[t] = "run" /\ pc' = [pc EXCEPT ![t] = "callback"])
    BY <1>0, <1>18 DEF Log, Goto, Base, ListInv
  <2>3. \A u \in Owners :
           /\ (pc'[u] \in {"stop", "join"}) = (pc[u] \in {"stop", "join"})
           /\ u \in Using' \/ pc'[u] = "idle" => Held(u)
    BY <1>0, <2>1, <2>2 DEF Using
  <2>4. pc[Flusher] \in {"none", "exited"} => pc'[Flusher] \in {"none", "exited"}
    BY <1>0, <2>2
  <2> QED BY <1>0, <2>1, <2>3, <2>4, QuietAppender DEF AppenderInv, AppenderOutlivesUse
<1>19. ASSUME NEW t \in Loggers, ResetLogger(t) PROVE AppenderInv'
  <2>1. UNCHANGED <<ownVars, listLock>>
    BY <1>0, <1>19 DEF ResetLogger, listVars
  <2>2. /\ pc[t] = "run" /\ listLock # t
        /\ pc' = [pc EXCEPT ![t] = "destroy"] \/ pc' = [pc EXCEPT ![t] = "done"]
    BY <1>0, <1>19 DEF ResetLogger, DropLogger, Goto, Base, ListInv
  <2>3. \A u \in Owners :
           /\ (pc'[u] \in {"stop", "join"}) = (pc[u] \in {"stop", "join"})
           /\ u \in Using' \/ pc'[u] = "idle" => Held(u)
    BY <1>0, <2>1, <2>2 DEF Using
  <2>4. pc[Flusher] \in {"none", "exited"} => pc'[Flusher] \in {"none", "exited"}
    BY <1>0, <2>2
  <2> QED BY <1>0, <2>1, <2>3, <2>4, QuietAppender DEF AppenderInv, AppenderOutlivesUse
<1>20. CASE FlusherLoop
  <2>1. UNCHANGED ownVars
    BY <1>20 DEF FlusherLoop
  <2>2. \A u \in Owners :
           /\ (pc'[u] \in {"stop", "join"}) = (pc[u] \in {"stop", "join"})
           /\ u \in Using' \/ pc'[u] = "idle" => Held(u)
    BY <1>0, <1>20 DEF FlusherLoop, Goto, Using, listVars, Base, ListInv
  <2>3. pc[Flusher] \in {"none", "exited"} => pc'[Flusher] \in {"none", "exited"}
    BY <1>0, <1>20 DEF FlusherLoop, Goto
  <2> QED BY <1>0, <2>1, <2>2, <2>3, QuietAppender DEF AppenderInv, AppenderOutlivesUse
<1>21. CASE FlusherTakeCond
  <2>1. UNCHANGED ownVars
    BY <1>21 DEF FlusherTakeCond
  <2>2. \A u \in Owners :
           /\ (pc'[u] \in {"stop", "join"}) = (pc[u] \in {"stop", "join"})
           /\ u \in Using' \/ pc'[u] = "idle" => Held(u)
    BY <1>0, <1>21 DEF FlusherTakeCond, Goto, Using, listVars, Base, ListInv
  <2>3. pc[Flusher] \in {"none", "exited"} => pc'[Flusher] \in {"none", "exited"}
    BY <1>0, <1>21 DEF FlusherTakeCond, Goto
  <2> QED BY <1>0, <2>1, <2>2, <2>3, QuietAppender DEF AppenderInv, AppenderOutlivesUse
<1>22. CASE FlusherTest
  <2>1. UNCHANGED ownVars
    BY <1>22 DEF FlusherTest
  <2>2. \A u \in Owners :
           /\ (pc'[u] \in {"stop", "join"}) = (pc[u] \in {"stop", "join"})
           /\ u \in Using' \/ pc'[u] = "idle" => Held(u)
    BY <1>0, <1>22 DEF FlusherTest, Goto, Using, listVars, Base, ListInv
  <2>3. pc[Flusher] \in {"none", "exited"} => pc'[Flusher] \in {"none", "exited"}
    BY <1>0, <1>22 DEF FlusherTest, Goto
  <2> QED BY <1>0, <2>1, <2>2, <2>3, QuietAppender DEF AppenderInv, AppenderOutlivesUse
<1>23. CASE FlusherSleep
  <2>1. UNCHANGED ownVars
    BY <1>23 DEF FlusherSleep
  <2>2. \A u \in Owners :
           /\ (pc'[u] \in {"stop", "join"}) = (pc[u] \in {"stop", "join"})
           /\ u \in Using' \/ pc'[u] = "idle" => Held(u)
    BY <1>0, <1>23 DEF FlusherSleep, Goto, Using, listVars, Base, ListInv
  <2>3. pc[Flusher] \in {"none", "exited"} => pc'[Flusher] \in {"none", "exited"}
    BY <1>0, <1>23 DEF FlusherSleep, Goto
  <2> QED BY <1>0, <2>1, <2>2, <2>3, QuietAppender DEF AppenderInv, AppenderOutlivesUse
<1>24. CASE FlusherReset
  <2>1. UNCHANGED ownVars
    BY <1>24 DEF FlusherReset
  <2>2. \A u \in Owners :
           /\ (pc'[u] \in {"stop", "join"}) = (pc[u] \in {"stop", "join"})
           /\ u \in Using' \/ pc'[u] = "idle" => Held(u)
    BY <1>0, <1>24 DEF FlusherReset, Goto, Using, listVars, Base, ListInv
  <2>3. pc[Flusher] \in {"none", "exited"} => pc'[Flusher] \in {"none", "exited"}
    BY <1>0, <1>24 DEF FlusherReset, Goto
  <2> QED BY <1>0, <2>1, <2>2, <2>3, QuietAppender DEF AppenderInv, AppenderOutlivesUse
<1>25. CASE StartFlushThread
  <2>1. /\ UNCHANGED ownVars /\ UNCHANGED listLock /\ pc[Main] = "idle"
        /\ \A u \in Owners : pc'[u] = pc[u]
    BY <1>0, <1>25 DEF StartFlushThread, Goto, ownVars, listVars
  <2>2. alife = "alive"
    BY <1>0, <2>1 DEF AppenderInv, AppenderOutlivesUse
  <2>3. \A u \in Owners :
           /\ (pc'[u] \in {"stop", "join"}) = (pc[u] \in {"stop", "join"})
           /\ u \in Using' \/ pc'[u] = "idle" => Held(u)
    BY <2>1 DEF Using
  <2> QED BY <1>0, <2>1, <2>2, <2>3, QuietAppender
<1>26. CASE BeginFlush
  <2>1. UNCHANGED ownVars
    BY <1>26 DEF BeginFlush
  <2>2. \A u \in Owners :
           /\ (pc'[u] \in {"stop", "join"}) = (pc[u] \in {"stop", "join"})
           /\ u \in Using' \/ pc'[u] = "idle" => Held(u)
    BY <1>0, <1>26 DEF BeginFlush, Goto, Using, listVars, Base, ListInv
  <2>3. pc[Flusher] \in {"none", "exited"} => pc'[Flusher] \in {"none", "exited"}
    BY <1>0, <1>26 DEF BeginFlush, Goto
  <2> QED BY <1>0, <2>1, <2>2, <2>3, QuietAppender DEF AppenderInv, AppenderOutlivesUse
<1>27. CASE ResetAppender
  <2>1. Main \in Owners /\ Main \in arefs /\ DropAppender(Main, "done") /\ UNCHANGED listLock
    BY <1>0, <1>27 DEF ResetAppender, listVars
  <2> QED BY <1>0, <2>1, DropsAppender
<1>28. CASE SpuriousWakeUp
  <2>1. UNCHANGED ownVars
    BY <1>28 DEF SpuriousWakeUp
  <2>2. \A u \in Owners :
           /\ (pc'[u] \in {"stop", "join"}) = (pc[u] \in {"stop", "join"})
           /\ u \in Using' \/ pc'[u] = "idle" => Held(u)
    BY <1>0, <1>28 DEF SpuriousWakeUp, Goto, Using, listVars, Base, ListInv
  <2>3. pc[Flusher] \in {"none", "exited"} => pc'[Flusher] \in {"none", "exited"}
    BY <1>0, <1>28 DEF SpuriousWakeUp, Goto
  <2> QED BY <1>0, <2>1, <2>2, <2>3, QuietAppender DEF AppenderInv, AppenderOutlivesUse
<1>29. CASE UNCHANGED vars
  BY <1>29 DEF vars, AppenderInv, AppenderOutlivesUse, Using
<1> QED BY <1>1, <1>2, <1>3, <1>4, <1>5, <1>6, <1>7, <1>8, <1>9, <1>10, <1>11, <1>12, <1>13, <1>14, <1>15, <1>16, <1>17, <1>18, <1>19, <1>20, <1>21, <1>22, <1>23, <1>24, <1>25, <1>26, <1>27, <1>28, <1>29
       DEF Next, Continue, Notify, Begin, Terminated

-----------------------------------------------------------------------------
(* Steps and LoggerInv. *)

\* A step that moves no pointer to a logger and after which no thread, but those
\* that did, holds or destroys one; blocks may move.
LEMMA QuietLogger ==
    ASSUME LoggerInv, TypeOK', UNCHANGED <<refs, life>>,
           \A l \in Loggers :
              /\ disk'[l] + queued'[l] + open'[l] + dropped'[l] = logged'[l]
              /\ life[l] = "dead" => queued'[l] = 0 /\ open'[l] = 0,
           \A u \in Threads :
              \/ /\ pc'[u] = pc[u]
                 /\ pc[u] \in {"held", "destroy"} =>
                       /\ (listLock' = u) = (listLock = u)
                       /\ listLock = u => left' = left
              \/ /\ pc[u] \notin {"held", "destroy", "done"}
                 /\ pc'[u] \notin {"held", "destroy"}
    PROVE  LoggerInv'
<1> USE DEF LoggerInv, LoggerOutlivesUse
<1>1. \A t \in Threads : pc'[t] = "held" =>
         listLock' = t /\ t \in refs'[Current'] /\ life'[Current'] = "alive"
  BY DEF Current
<1>2. \A l \in Loggers : Destroyers(l)' = Destroyers(l)
  BY DEF Destroyers, Current
<1>3. \A l \in Loggers :
         l \in refs'[l] \/ pc'[l] = "done" \/ (pc'[l] = "destroy" /\ listLock' # l)
  BY DEF Threads, Owners
<1>4. ASSUME NEW l \in Loggers, life[l] = "dead"
      PROVE  disk'[l] + dropped'[l] = logged'[l]
  <2>1. disk'[l] \in Nat /\ dropped'[l] \in Nat
    BY DEF TypeOK
  <2> QED BY <1>4, <2>1
<1> QED BY <1>1, <1>2, <1>3, <1>4

LEMMA LoggerStep == Base /\ LoggerInv /\ [Next]_vars => LoggerInv'
<1> SUFFICES ASSUME Base, LoggerInv, [Next]_vars PROVE LoggerInv'
  OBVIOUS
<1>0. /\ pc = [u \in Threads |-> pc[u]] /\ Owners = Loggers \cup {Main}
      /\ Threads = Owners \cup {Flusher} /\ Flusher \notin Owners /\ Main \notin Loggers
      /\ Nobody \notin Threads
      /\ TypeOK /\ TypeOK'
  BY AppenderAssumption, BaseStep DEF Base, TypeOK, Threads, Owners, Nobody
<1> DEFINE QuietThreads ==
      \A u \in Threads :
         \/ /\ pc'[u] = pc[u]
            /\ pc[u] \in {"held", "destroy"} =>
                  /\ (listLock' = u) = (listLock = u)
                  /\ listLock = u => left' = left
         \/ /\ pc[u] \notin {"held", "destroy", "done"}
            /\ pc'[u] \notin {"held", "destroy"}
<1>q. ASSUME UNCHANGED <<refs, life, bufferVars>>, QuietThreads
      PROVE  LoggerInv'
  BY <1>0, <1>q, QuietLogger DEF bufferVars, LoggerInv
<1>1. ASSUME NEW t \in Threads, ListLock(t) PROVE LoggerInv'
  <2>1. UNCHANGED <<refs, life, bufferVars>>
    BY <1>1 DEF ListLock, loggerVars
  <2>2. QuietThreads
    BY <1>0, <1>1 DEF ListLock, Goto, listVars, Base, ListInv
  <2> QED BY <1>q, <2>1, <2>2
<1>2. ASSUME NEW t \in Threads, ListNext(t) PROVE LoggerInv'
  <2>1. /\ pc[t] = "next" /\ listLock = t /\ listLock' = t /\ left # << >>
        /\ Current \in Loggers /\ UNCHANGED <<life, bufferVars>>
    BY <1>2, WalkFacts DEF ListNext, Base, ListInv
  <2>2. CASE refs[Current] = {}
    <3>1. UNCHANGED <<refs, pc>>
      BY <1>2, <2>2 DEF ListNext
    <3>2. QuietThreads
      BY <2>1, <3>1
    <3> QED BY <1>q, <2>1, <3>1, <3>2
  <2>3. CASE refs[Current] # {}
    <3>1. /\ left' = left /\ refs' = [refs EXCEPT ![Current] = @ \cup {t}]
          /\ pc'[t] = "held" /\ \A u \in Threads \ {t} : pc'[u] = pc[u]
      BY <1>0, <1>2, <2>3 DEF ListNext, Goto
    <3>2. /\ refs'[Current] = refs[Current] \cup {t}
          /\ \A l \in Loggers \ {Current} : refs'[l] = refs[l]
      BY <1>0, <2>1, <3>1 DEF TypeOK
    <3>3. \A u \in Threads : pc'[u] = "held" =>
             listLock' = u /\ u \in refs'[Current'] /\ life'[Current'] = "alive"
      BY <2>1, <2>3, <3>1, <3>2 DEF LoggerInv, LoggerOutlivesUse, Current
    <3>4. \A l \in Loggers : Destroyers(l)' = Destroyers(l)
      BY <2>1, <3>1 DEF Destroyers, Current
    <3>5. \A l \in Loggers :
             l \in refs'[l] \/ pc'[l] = "done" \/ (pc'[l] = "destroy" /\ listLock' # l)
      <4>1. t \in Loggers => t \in refs[t]
        BY <2>1 DEF LoggerInv
      <4> QED BY <1>0, <2>1, <3>1, <3>2, <4>1 DEF LoggerInv
    <3>6. \A l \in Loggers : (refs'[l] # {}) = (refs[l] # {})
      BY <2>3, <3>2
    <3> QED BY <2>1, <3>3, <3>4, <3>5, <3>6 DEF LoggerInv, LoggerOutlivesUse, bufferVars
  <2> QED BY <2>2, <2>3
<1>3. ASSUME NEW t \in Threads, FlushBlock(t) PROVE LoggerInv'
  <2>1. /\ pc[t] = "held" /\ UNCHANGED <<refs, life, open, logged, dropped, pc, listLock, left>>
        /\ queued[Current] > 0
        /\ queued' = [queued EXCEPT ![Current] = @ - 1]
        /\ disk' = [disk EXCEPT ![Current] = @ + 1]
    BY <1>3 DEF FlushBlock, listVars
  <2>2. Current \in Loggers /\ life[Current] = "alive"
    <3>1. left # << >>
      BY <2>1 DEF Base, ListInv
    <3> QED BY <2>1, <3>1, WalkFacts DEF LoggerInv, LoggerOutlivesUse
  <2>3. ASSUME NEW l \in Loggers
        PROVE  /\ disk'[l] + queued'[l] + open'[l] + dropped'[l] = logged'[l]
               /\ life[l] = "dead" => queued'[l] = 0 /\ open'[l] = 0
    <3>1. /\ queued' [l] = IF l = Current THEN queued[l] - 1 ELSE queued[l]
          /\ disk'[l] = IF l = Current THEN disk[l] + 1 ELSE disk[l]
      BY <1>0, <2>1 DEF TypeOK
    <3> QED BY <1>0, <2>1, <2>2, <3>1, CountTypes DEF LoggerInv
  <2> QED BY <1>0, <2>1, <2>3, QuietLogger
<1>4. ASSUME NEW t \in Threads, ListRelease(t) PROVE LoggerInv'
  <2>0. PICK c \in Loggers : c = Current
    BY <1>4, WalkFacts DEF ListRelease, Base, ListInv
  <2>1. /\ pc[t] = "held" /\ listLock = t /\ listLock' = t /\ left # << >>
        /\ UNCHANGED bufferVars
        /\ refs' = [refs EXCEPT ![c] = @ \ {t}]
    BY <2>0, <1>4, WalkFacts DEF ListRelease, DropLogger, Base, ListInv
  <2>2. /\ refs'[c] = refs[c] \ {t}
        /\ \A l \in Loggers \ {c} : refs'[l] = refs[l]
    BY <1>0, <2>1 DEF TypeOK
  <2>3. t \in refs[c] /\ life[c] = "alive" /\ Destroyers(c) = {}
    BY <2>0, <2>1 DEF LoggerInv, LoggerOutlivesUse
  <2>4. /\ \A u \in Threads \ {t} : pc'[u] = pc[u] /\ pc[u] # "held"
        /\ t \in Loggers => t \in refs[t] /\ t # c
    <3>1. \A u \in Threads \ {t} : pc'[u] = pc[u]
      BY <1>0, <2>0, <1>4 DEF ListRelease, DropLogger, Goto
    <3>2. \A u \in Threads \ {t} : pc[u] # "held"
      BY <2>0, <2>1 DEF LoggerInv, LoggerOutlivesUse
    <3>3. t \in Loggers => t # c
      BY <2>0, <2>1, WalkFacts DEF Base, ListInv
    <3> QED BY <2>0, <2>1, <3>1, <3>2, <3>3 DEF LoggerInv
  <2>5. \A l \in Loggers :
           l \in refs'[l] \/ pc'[l] = "done" \/ (pc'[l] = "destroy" /\ listLock' # l)
    BY <1>0, <2>0, <2>1, <2>2, <2>4 DEF LoggerInv
  <2>6. CASE refs'[c] = {}
    <3>1. /\ life' = [life EXCEPT ![c] = "dying"] /\ left' = left
          /\ pc'[t] = "destroy"
      BY <1>0, <2>0, <1>4, <2>6 DEF ListRelease, DropLogger, Goto
    <3>2. /\ life'[c] = "dying"
          /\ \A l \in Loggers \ {c} : life'[l] = life[l]
      BY <1>0, <2>0, <2>1, <3>1 DEF TypeOK
    <3>3. /\ Destroyers(c)' = {t}
          /\ \A l \in Loggers \ {c} : Destroyers(l)' = Destroyers(l)
      BY <2>0, <2>1, <2>3, <2>4, <3>1 DEF Destroyers, Current
    <3> QED BY <2>0, <2>1, <2>2, <2>4, <2>5, <2>6, <3>1, <3>2, <3>3
            DEF LoggerInv, LoggerOutlivesUse, bufferVars
  <2>7. CASE refs'[c] # {}
    <3>1. life' = life /\ pc'[t] = "next"
      BY <1>0, <2>0, <1>4, <2>7 DEF ListRelease, DropLogger, Goto
    <3>2. \A l \in Loggers : Destroyers(l)' = Destroyers(l)
      BY <2>0, <2>1, <2>4, <3>1 DEF Destroyers
    <3> QED BY <2>0, <2>1, <2>2, <2>3, <2>4, <2>5, <2>7, <3>1, <3>2
            DEF LoggerInv, LoggerOutlivesUse, bufferVars
  <2> QED BY <2>6, <2>7
<1>5. ASSUME NEW t \in Threads, ListDestroy(t) PROVE LoggerInv'
  <2>0. PICK c \in Loggers : c = Current
    BY <1>5, WalkFacts DEF ListDestroy, Base, ListInv
  <2>1. /\ pc[t] = "destroy" /\ listLock = t /\ listLock' = t /\ left # << >>
        /\ pc'[t] = "next"
        /\ \A u \in Threads \ {t} : pc'[u] = pc[u]
    BY <1>0, <1>5, WalkFacts DEF ListDestroy, Goto, Base, ListInv
  <2>2. /\ life' = [life EXCEPT ![c] = "dead"] /\ UNCHANGED <<refs, logged, dropped>>
        /\ disk' = [disk EXCEPT ![c] = @ + queued[c] + open[c]]
        /\ queued' = [queued EXCEPT ![c] = 0] /\ open' = [open EXCEPT ![c] = 0]
    BY <2>0, <1>5 DEF ListDestroy, Destroy
  <2>3. /\ life'[c] = "dead" /\ queued'[c] = 0 /\ open'[c] = 0
        /\ disk'[c] = disk[c] + queued[c] + open[c]
        /\ \A l \in Loggers \ {c} :
              /\ life'[l] = life[l] /\ queued'[l] = queued[l] /\ open'[l] = open[l]
              /\ disk'[l] = disk[l]
    BY <1>0, <2>0, <2>1, <2>2 DEF TypeOK
  <2>4. Destroyers(c) = {t} /\ life[c] = "dying"
    <3>1. t \in Destroyers(c)
      BY <1>0, <2>0, <2>1 DEF Destroyers
    <3> QED BY <2>0, <2>1, <3>1 DEF LoggerInv, LoggerOutlivesUse
  <2>5. Destroyers(c)' = {} /\ \A l \in Loggers \ {c} : Destroyers(l)' = Destroyers(l)
    BY <1>0, <2>0, <2>1, <2>4 DEF Destroyers, Current
  <2>6. ASSUME NEW l \in Loggers
        PROVE  /\ disk'[l] + queued'[l] + open'[l] + dropped'[l] = logged'[l]
               /\ life'[l] = "dead" =>
                     queued'[l] = 0 /\ open'[l] = 0 /\ disk'[l] + dropped'[l] = logged'[l]
    BY <1>0, <2>0, <2>1, <2>2, <2>3, CountTypes DEF LoggerInv, LoggerOutlivesUse
  <2>7. \A u \in Threads : pc'[u] # "held"
    BY <2>1 DEF LoggerInv, LoggerOutlivesUse
  <2>8. \A l \in Loggers :
           l \in refs'[l] \/ pc'[l] = "done" \/ (pc'[l] = "destroy" /\ listLock' # l)
    BY <1>0, <2>1, <2>2 DEF LoggerInv
  <2>9. \A l \in Loggers : (life'[l] = "alive") = (life[l] = "alive")
    BY <2>3, <2>4
  <2> QED BY <2>2, <2>3, <2>4, <2>5, <2>6, <2>7, <2>8, <2>9 DEF LoggerInv, LoggerOutlivesUse
<1>6. ASSUME NEW t \in Threads, ListUnlock(t) PROVE LoggerInv'
  <2>1. UNCHANGED <<refs, life, bufferVars>>
    BY <1>6 DEF ListUnlock, loggerVars
  <2>2. QuietThreads
    BY <1>0, <1>6 DEF ListUnlock, Goto, listVars, Base, ListInv
  <2> QED BY <1>q, <2>1, <2>2
<1>7. ASSUME NEW t \in Threads, Join(t) PROVE LoggerInv'
  <2>1. UNCHANGED <<refs, life, bufferVars>>
    BY <1>7 DEF Join, loggerVars
  <2>2. QuietThreads
    BY <1>0, <1>7 DEF Join, AfterAppender, Goto, listVars, Base, ListInv
  <2> QED BY <1>q, <2>1, <2>2
<1>8. ASSUME NEW t \in Threads, StopFlusher(t) PROVE LoggerInv'
  <2>1. UNCHANGED <<refs, life, bufferVars>>
    BY <1>8 DEF StopFlusher, loggerVars
  <2>2. /\ pc[t] = "stop" /\ UNCHANGED <<listLock, left>>
        /\ pc' = [pc EXCEPT ![t] = AfterAppender(t)] \/ Woken(t, "join")
    BY <1>8 DEF StopFlusher, Goto, listVars
  <2>3. ASSUME pc' = [pc EXCEPT ![t] = AfterAppender(t)] PROVE QuietThreads
    BY <1>0, <2>2, <2>3 DEF AfterAppender
  <2>4. ASSUME Woken(t, "join") PROVE QuietThreads
    BY <1>0, <2>2, <2>4 DEF Woken
  <2> QED BY <1>q, <2>1, <2>2, <2>3, <2>4
<1>9. ASSUME NEW t \in Loggers, AddLogger(t) PROVE LoggerInv'
  <2>1. UNCHANGED <<refs, life, bufferVars>>
    BY <1>9 DEF AddLogger, loggerVars
  <2>2. QuietThreads
    BY <1>0, <1>9 DEF AddLogger, DropAppender, Goto, listVars, Base, ListInv
  <2> QED BY <1>q, <2>1, <2>2
<1>10. ASSUME NEW t \in Loggers, CallbackLock(t) PROVE LoggerInv'
  <2>1. UNCHANGED <<refs, life, bufferVars>>
    BY <1>10 DEF CallbackLock, loggerVars
  <2>2. QuietThreads
    BY <1>0, <1>10 DEF CallbackLock, Goto, listVars, Base, ListInv
  <2> QED BY <1>q, <2>1, <2>2
<1>11. ASSUME NEW t \in Loggers, CountLoad(t) PROVE LoggerInv'
  <2>1. UNCHANGED <<refs, life, bufferVars>>
    BY <1>11 DEF CountLoad, loggerVars
  <2>2. QuietThreads
    BY <1>0, <1>11 DEF CountLoad, Goto, listVars, Base, ListInv
  <2> QED BY <1>q, <2>1, <2>2
<1>12. ASSUME NEW t \in Loggers, CountStore(t) PROVE LoggerInv'
  <2>1. UNCHANGED <<refs, life, bufferVars>>
    BY <1>12 DEF CountStore, loggerVars
  <2>2. QuietThreads
    BY <1>0, <1>12 DEF CountStore, Goto, listVars, Base, ListInv
  <2> QED BY <1>q, <2>1, <2>2
<1>13. ASSUME NEW t \in Loggers, CallbackTest(t) PROVE LoggerInv'
  <2>1. UNCHANGED <<refs, life, bufferVars>>
    BY <1>13 DEF CallbackTest, loggerVars
  <2>2. QuietThreads
    BY <1>0, <1>13 DEF CallbackTest, Goto, listVars, Base, ListInv
  <2> QED BY <1>q, <2>1, <2>2
<1>14. ASSUME NEW t \in Loggers, CallbackRelease(t) PROVE LoggerInv'
  <2>1. UNCHANGED <<refs, life, bufferVars>>
    BY <1>14 DEF CallbackRelease, loggerVars
  <2>2. QuietThreads
    BY <1>0, <1>14 DEF CallbackRelease, DropAppender, Goto, listVars, Base, ListInv
  <2> QED BY <1>q, <2>1, <2>2
<1>15. ASSUME NEW t \in Loggers, DestroyByOwner(t) PROVE LoggerInv'
  <2>1. /\ pc[t] = "destroy" /\ listLock # t /\ UNCHANGED <<listLock, left>>
        /\ t \in Threads /\ pc'[t] = "done" /\ \A u \in Threads \ {t} : pc'[u] = pc[u]
    BY <1>0, <1>15 DEF DestroyByOwner, Goto, listVars
  <2>2. /\ life' = [life EXCEPT ![t] = "dead"] /\ UNCHANGED <<refs, logged, dropped>>
        /\ disk' = [disk EXCEPT ![t] = @ + queued[t] + open[t]]
        /\ queued' = [queued EXCEPT ![t] = 0] /\ open' = [open EXCEPT ![t] = 0]
    BY <1>15 DEF DestroyByOwner, Destroy
  <2>3. /\ life'[t] = "dead" /\ queued'[t] = 0 /\ open'[t] = 0
        /\ disk'[t] = disk[t] + queued[t] + open[t]
        /\ \A l \in Loggers \ {t} :
              /\ life'[l] = life[l] /\ queued'[l] = queued[l] /\ open'[l] = open[l]
              /\ disk'[l] = disk[l]
    BY <1>0, <2>1, <2>2 DEF TypeOK
  <2>4. Destroyers(t) = {t} /\ life[t] = "dying"
    <3>1. t \in Destroyers(t)
      BY <1>0, <2>1 DEF Destroyers
    <3> QED BY <2>1, <3>1 DEF LoggerInv, LoggerOutlivesUse
  <2>5. Destroyers(t)' = {} /\ \A l \in Loggers \ {t} : Destroyers(l)' = Destroyers(l)
    BY <1>0, <2>1, <2>4 DEF Destroyers, Current
  <2>6. ASSUME NEW l \in Loggers
        PROVE  /\ disk'[l] + queued'[l] + open'[l] + dropped'[l] = logged'[l]
               /\ life'[l] = "dead" =>
                     queued'[l] = 0 /\ open'[l] = 0 /\ disk'[l] + dropped'[l] = logged'[l]
    BY <1>0, <2>1, <2>2, <2>3, CountTypes DEF LoggerInv, LoggerOutlivesUse
  <2>7. \A u \in Threads : pc'[u] = "held" =>
           listLock' = u /\ u \in refs'[Current'] /\ life'[Current'] = "alive"
    <3>1. SUFFICES ASSUME NEW u \in Threads, pc'[u] = "held"
          PROVE  listLock' = u /\ u \in refs'[Current'] /\ life'[Current'] = "alive"
      OBVIOUS
    <3>2. /\ pc[u] = "held" /\ listLock = u /\ u \in refs[Current] /\ life[Current] = "alive"
          /\ left # << >>
      BY <2>1, <3>1 DEF LoggerInv, LoggerOutlivesUse, Base, ListInv
    <3>3. Current \in Loggers /\ Current # t
      BY <2>4, <3>2, WalkFacts
    <3> QED BY <2>1, <2>2, <2>3, <3>2, <3>3 DEF Current
  <2>8. \A l \in Loggers :
           l \in refs'[l] \/ pc'[l] = "done" \/ (pc'[l] = "destroy" /\ listLock' # l)
    BY <1>0, <2>1, <2>2 DEF LoggerInv
  <2>9. \A l \in Loggers : (life'[l] = "alive") = (life[l] = "alive")
    BY <2>3, <2>4
  <2> QED BY <2>2, <2>3, <2>4, <2>5, <2>6, <2>7, <2>8, <2>9 DEF LoggerInv, LoggerOutlivesUse
<1>16. ASSUME NEW t \in Loggers, CallbackNotify(t) PROVE LoggerInv'
  <2>1. UNCHANGED <<refs, life, bufferVars>>
    BY <1>16 DEF CallbackNotify, loggerVars
  <2>2. QuietThreads
    BY <1>0, <1>16 DEF CallbackNotify, Woken, Goto, listVars, Base, ListInv
  <2> QED BY <1>q, <2>1, <2>2
<1>17. ASSUME NEW t \in Loggers, BeginAddLogger(t) PROVE LoggerInv'
  <2>1. UNCHANGED <<refs, life, bufferVars>>
    BY <1>17 DEF BeginAddLogger, loggerVars
  <2>2. QuietThreads
    BY <1>0, <1>17 DEF BeginAddLogger, Goto, listVars, Base, ListInv
  <2> QED BY <1>q, <2>1, <2>2
<1>18. ASSUME NEW t \in Loggers, Log(t) PROVE LoggerInv'
  <2>1. /\ pc[t] \in {"run", "idle"} /\ UNCHANGED <<refs, life, disk, listLock, left>>
        /\ logged' = [logged EXCEPT ![t] = @ + 1] /\ open' = [open EXCEPT ![t] = 1]
        /\ pc' = pc \/ (pc[t] = "run" /\ pc' = [pc EXCEPT ![t] = "callback"])
    BY <1>18 DEF Log, listVars, Goto
  <2>2. life[t] = "alive"
    BY <2>1 DEF LoggerInv, LoggerOutlivesUse
  <2>3. /\ logged'[t] = logged[t] + 1 /\ open'[t] = 1
        /\ \A l \in Loggers \ {t} : logged'[l] = logged[l] /\ open'[l] = open[l]
    BY <1>0, <2>1 DEF TypeOK
  <2>4. /\ \A l \in Loggers \ {t} : queued'[l] = queued[l] /\ dropped'[l] = dropped[l]
        /\ \/ open[t] = 0 /\ queued'[t] = queued[t] /\ dropped'[t] = dropped[t]
           \/ open[t] = 1 /\ queued'[t] = queued[t] + 1 /\ dropped'[t] = dropped[t]
           \/ open[t] = 1 /\ queued'[t] = queued[t] /\ dropped'[t] = dropped[t] + 1
    <3>1. CASE open[t] = 0
      BY <1>18, <3>1 DEF Log
    <3>2. CASE open[t] = 1 /\ BlockFree(t)
      <4>1. queued' = [queued EXCEPT ![t] = @ + 1] /\ dropped' = dropped
        BY <1>18, <3>2 DEF Log
      <4> QED BY <1>0, <3>2, <4>1 DEF TypeOK
    <3>3. CASE open[t] = 1 /\ ~ BlockFree(t)
      <4>1. dropped' = [dropped EXCEPT ![t] = @ + 1] /\ queued' = queued
        BY <1>18, <3>3 DEF Log
      <4> QED BY <1>0, <3>3, <4>1 DEF TypeOK
    <3> QED BY <1>0, <3>1, <3>2, <3>3, CountTypes
  <2>5. ASSUME NEW l \in Loggers
        PROVE  /\ disk'[l] + queued'[l] + open'[l] + dropped'[l] = logged'[l]
               /\ life[l] = "dead" => queued'[l] = 0 /\ open'[l] = 0
    BY <1>0, <2>1, <2>2, <2>3, <2>4, CountTypes DEF LoggerInv
  <2>6. QuietThreads
    BY <1>0, <2>1
  <2> QED BY <1>0, <2>1, <2>5, <2>6, QuietLogger
<1>19. ASSUME NEW t \in Loggers, ResetLogger(t) PROVE LoggerInv'
  <2>1. /\ pc[t] = "run" /\ listLock # t /\ UNCHANGED <<listLock, left, bufferVars>>
        /\ t \in Threads /\ refs' = [refs EXCEPT ![t] = @ \ {t}]
        /\ \A u \in Threads \ {t} : pc'[u] = pc[u]
    BY <1>0, <1>19 DEF ResetLogger, DropLogger, Goto, listVars, Base, ListInv
  <2>2. /\ refs'[t] = refs[t] \ {t} /\ \A l \in Loggers \ {t} : refs'[l] = refs[l]
    BY <1>0, <2>1 DEF TypeOK
  <2>3. life[t] = "alive" /\ Destroyers(t) = {}
    BY <2>1 DEF LoggerInv, LoggerOutlivesUse
  <2>4. \A u \in Threads : pc'[u] = "held" =>
           /\ u # t /\ listLock' = u /\ Current' = Current /\ Current \in Loggers
           /\ u \in refs'[Current] /\ life[Current] = "alive"
    <3>1. SUFFICES ASSUME NEW u \in Threads, pc'[u] = "held"
          PROVE  /\ u # t /\ listLock' = u /\ Current' = Current /\ Current \in Loggers
                 /\ u \in refs'[Current] /\ life[Current] = "alive"
      OBVIOUS
    <3>2. u # t
      BY <1>0, <1>19, <3>1 DEF ResetLogger, DropLogger, Goto
    <3>3. /\ listLock = u /\ u \in refs[Current] /\ life[Current] = "alive"
          /\ left # << >>
      BY <2>1, <3>1, <3>2 DEF LoggerInv, LoggerOutlivesUse, Base, ListInv
    <3>4. Current \in Loggers
      BY <3>3, WalkFacts
    <3> QED BY <2>1, <2>2, <3>2, <3>3, <3>4 DEF Current
  <2>5. CASE refs'[t] = {}
    <3>1. life' = [life EXCEPT ![t] = "dying"] /\ pc'[t] = "destroy"
      BY <1>0, <1>19, <2>5 DEF ResetLogger, DropLogger, Goto
    <3>2. life'[t] = "dying" /\ \A l \in Loggers \ {t} : life'[l] = life[l]
      BY <1>0, <3>1 DEF TypeOK
    <3>3. Destroyers(t)' = {t} /\ \A l \in Loggers \ {t} : Destroyers(l)' = Destroyers(l)
      BY <1>0, <2>1, <2>3, <3>1 DEF Destroyers, Current
    <3>4. \A u \in Threads : pc'[u] = "held" =>
             listLock' = u /\ u \in refs'[Current'] /\ life'[Current'] = "alive"
      BY <2>4, <2>5, <3>2
    <3>5. \A l \in Loggers :
             l \in refs'[l] \/ pc'[l] = "done" \/ (pc'[l] = "destroy" /\ listLock' # l)
      BY <1>0, <2>1, <2>2, <3>1 DEF LoggerInv
    <3> QED BY <2>1, <2>2, <2>3, <2>5, <3>1, <3>2, <3>3, <3>4, <3>5
            DEF LoggerInv, LoggerOutlivesUse, bufferVars
  <2>6. CASE refs'[t] # {}
    <3>1. life' = life /\ pc'[t] = "done"
      BY <1>0, <1>19, <2>6 DEF ResetLogger, DropLogger, Goto
    <3>2. \A l \in Loggers : Destroyers(l)' = Destroyers(l)
      BY <1>0, <2>1, <3>1 DEF Destroyers, Current
    <3>3. \A u \in Threads : pc'[u] = "held" =>
             listLock' = u /\ u \in refs'[Current'] /\ life'[Current'] = "alive"
      BY <2>4, <3>1
    <3>4. \A l \in Loggers :
             l \in refs'[l] \/ pc'[l] = "done" \/ (pc'[l] = "destroy" /\ listLock' # l)
      BY <1>0, <2>1, <2>2, <3>1 DEF LoggerInv
    <3> QED BY <2>1, <2>2, <2>3, <2>6, <3>1, <3>2, <3>3, <3>4
            DEF LoggerInv, LoggerOutlivesUse, bufferVars
  <2> QED BY <2>5, <2>6
<1>20. CASE FlusherLoop
  <2>1. UNCHANGED <<refs, life, bufferVars>>
    BY <1>20 DEF FlusherLoop, loggerVars
  <2>2. QuietThreads
    BY <1>0, <1>20 DEF FlusherLoop, Goto, listVars, Base, ListInv
  <2> QED BY <1>q, <2>1, <2>2
<1>21. CASE FlusherTakeCond
  <2>1. UNCHANGED <<refs, life, bufferVars>>
    BY <1>21 DEF FlusherTakeCond, loggerVars
  <2>2. QuietThreads
    BY <1>0, <1>21 DEF FlusherTakeCond, Goto, listVars, Base, ListInv
  <2> QED BY <1>q, <2>1, <2>2
<1>22. CASE FlusherTest
  <2>1. UNCHANGED <<refs, life, bufferVars>>
    BY <1>22 DEF FlusherTest, loggerVars
  <2>2. QuietThreads
    BY <1>0, <1>22 DEF FlusherTest, Goto, listVars, Base, ListInv
  <2> QED BY <1>q, <2>1, <2>2
<1>23. CASE FlusherSleep
  <2>1. UNCHANGED <<refs, life, bufferVars>>
    BY <1>23 DEF FlusherSleep, loggerVars
  <2>2. QuietThreads
    BY <1>0, <1>23 DEF FlusherSleep, Goto, listVars, Base, ListInv
  <2> QED BY <1>q, <2>1, <2>2
<1>24. CASE FlusherReset
  <2>1. UNCHANGED <<refs, life, bufferVars>>
    BY <1>24 DEF FlusherReset, loggerVars
  <2>2. QuietThreads
    BY <1>0, <1>24 DEF FlusherReset, Goto, listVars, Base, ListInv
  <2> QED BY <1>q, <2>1, <2>2
<1>25. CASE StartFlushThread
  <2>1. UNCHANGED <<refs, life, bufferVars>>
    BY <1>25 DEF StartFlushThread, loggerVars
  <2>2. QuietThreads
    BY <1>0, <1>25 DEF StartFlushThread, Goto, listVars, Base, ListInv
  <2> QED BY <1>q, <2>1, <2>2
<1>26. CASE BeginFlush
  <2>1. UNCHANGED <<refs, life, bufferVars>>
    BY <1>26 DEF BeginFlush, loggerVars
  <2>2. QuietThreads
    BY <1>0, <1>26 DEF BeginFlush, Goto, listVars, Base, ListInv
  <2> QED BY <1>q, <2>1, <2>2
<1>27. CASE ResetAppender
  <2>1. UNCHANGED <<refs, life, bufferVars>>
    BY <1>27 DEF ResetAppender, loggerVars
  <2>2. QuietThreads
    BY <1>0, <1>27 DEF ResetAppender, DropAppender, Goto, listVars, Base, ListInv
  <2> QED BY <1>q, <2>1, <2>2
<1>28. CASE SpuriousWakeUp
  <2>1. UNCHANGED <<refs, life, bufferVars>>
    BY <1>28 DEF SpuriousWakeUp, loggerVars
  <2>2. QuietThreads
    BY <1>0, <1>28 DEF SpuriousWakeUp, Goto, listVars, Base, ListInv
  <2> QED BY <1>q, <2>1, <2>2
<1>29. CASE UNCHANGED vars
  BY <1>29, <1>q DEF vars, bufferVars
<1> QED BY <1>1, <1>2, <1>3, <1>4, <1>5, <1>6, <1>7, <1>8, <1>9, <1>10, <1>11, <1>12, <1>13, <1>14, <1>15, <1>16, <1>17, <1>18, <1>19, <1>20, <1>21, <1>22, <1>23, <1>24, <1>25, <1>26, <1>27, <1>28, <1>29
       DEF Next, Continue, Notify, Begin, Terminated

-----------------------------------------------------------------------------
(* The theorems. *)

LEMMA InvInit == Init => Inv
<1> SUFFICES ASSUME Init PROVE Inv
  OBVIOUS
<1>1. Base
  BY BaseInit
<1>2. pc = [t \in Owners \cup {Flusher} |-> IF t = Flusher THEN "none" ELSE "idle"]
      /\ arefs = Owners /\ alife = "alive" /\ listLock = Nobody
  BY DEF Init, Threads
<1>3. AppenderInv
  BY <1>2, AppenderAssumption DEF AppenderInv, AppenderOutlivesUse, Using, Owners
<1>4. \A l \in Loggers : Destroyers(l) = {}
  BY <1>2 DEF Destroyers, Threads
<1>5. LoggerInv
  BY <1>2, <1>4, AppenderAssumption
     DEF LoggerInv, LoggerOutlivesUse, Init, Threads, Owners
<1> QED BY <1>1, <1>3, <1>5 DEF Inv

LEMMA InvAlways == Spec => []Inv
<1>1. Inv /\ [Next]_vars => Inv'
  BY BaseStep, AppenderStep, LoggerStep DEF Inv
<1> QED BY InvInit, <1>1, PTL DEF Spec

\* Every variable has its type: no queue is longer than its capacity, and the
\* flusher alone ever keeps _cond_mutex.
THEOREM TypeCorrect == Spec => []TypeOK
<1>1. Inv => TypeOK
  BY DEF Inv, Base
<1> QED BY InvAlways, <1>1, PTL

\* ~MatAppender runs once, under nobody who is inside a function of the
\* appender, and after the flusher thread: for any number of loggers, and
\* whichever thread drops the last pointer, a callback's included.
THEOREM AppenderLifetime == Spec => []AppenderOutlivesUse
<1>1. Inv => AppenderOutlivesUse
  BY DEF Inv, AppenderInv
<1> QED BY InvAlways, <1>1, PTL

\* ~MatLogger2 runs once, under nobody who works on the logger, and leaves
\* nothing that was logged and not dropped out of the file, whichever of the
\* producer, the flusher and a thread in add_logger runs it.
THEOREM LoggerLifetime == Spec => []LoggerOutlivesUse
<1>1. Inv => LoggerOutlivesUse
  BY DEF Inv, LoggerInv
<1> QED BY InvAlways, <1>1, PTL

-----------------------------------------------------------------------------
(* Waking the flusher. *)

\* The flusher keeps _cond_mutex from its test of the flag until it sleeps or
\* resets the flag.
WakeInv ==
    /\ (condLock = Flusher) = (pc[Flusher] \in {"test", "sleep", "reset"})
    /\ pc[Flusher] \in {"sleep", "waiting"} => ~ wakeUp

\* Where a logger's thread may be once the logger is registered, until it is
\* dropped.
Active == {"run", "callback", "count", "store", "test", "notify", "release"}

\* The next thing the flusher does is to visit logger l.
Heard(l) ==
    \/ wakeUp
    \/ pc[Flusher] \in {"none", "loop", "lock", "reset", "exited"}
    \/ pc[Flusher] \in {"next", "held", "destroy"} /\ l \in ToSet(left)

\* Logger l is inside a callback that will raise the flag.
WillNotify(l) ==
    \/ pc[l] \in {"callback", "count", "store", "test"} /\ 2 * space[l] < NumBlocks
    \/ pc[l] = "notify"

Full(l) ==
    /\ alife = "alive" /\ l \in ToSet(registered)
    /\ pc[l] \in Active /\ queued[l] = NumBlocks - 1

\* A logger not yet registered has logged nothing.
FreshInv ==
    \A l \in Loggers :
        pc[l] \in {"idle", "lock"} \/ listLock = l => queued[l] = 0 /\ open[l] = 0

NoticeInv == \A l \in Loggers : Full(l) => WillNotify(l) \/ Heard(l)

-----------------------------------------------------------------------------
(* The flag and its mutex. *)

LEMMA WakeStep == Base /\ WakeInv /\ [Next]_vars => WakeInv'
<1> SUFFICES ASSUME Base, WakeInv, [Next]_vars PROVE WakeInv'
  OBVIOUS
<1> USE AppenderAssumption DEF Owners, Threads, Goto
<1>0. /\ pc = [t \in Threads |-> pc[t]] /\ Flusher \in Threads /\ Nobody # Flusher
      /\ \A l \in Loggers : pc[l] \in LoggerPcs /\ l # Flusher
      /\ pc[Main] \in MainPcs /\ pc[Flusher] \in FlusherPcs
      /\ condLock \in {Flusher, Nobody} /\ wakeUp \in BOOLEAN
  BY DEF Base, TypeOK, PcInv, Nobody
\* A step of the flusher outside of its wait, or of somebody else, that leaves
\* the flag and the mutex alone.
<1> DEFINE Aside == \/ pc'[Flusher] = pc[Flusher]
                    \/ /\ pc[Flusher] \notin {"test", "sleep", "reset"}
                       /\ pc'[Flusher] \notin {"test", "sleep", "reset", "waiting"}
<1>q. ASSUME UNCHANGED <<condLock, wakeUp>>, Aside PROVE WakeInv'
  BY <1>q DEF WakeInv
<1>1. ASSUME NEW t \in Threads, ListLock(t) PROVE WakeInv'
  BY <1>0, <1>1, <1>q DEF ListLock, condVars
<1>2. ASSUME NEW t \in Threads, ListNext(t) PROVE WakeInv'
  BY <1>0, <1>2, <1>q DEF ListNext, condVars
<1>3. ASSUME NEW t \in Threads, FlushBlock(t) PROVE WakeInv'
  BY <1>0, <1>3, <1>q DEF FlushBlock, condVars
<1>4. ASSUME NEW t \in Threads, ListRelease(t) PROVE WakeInv'
  BY <1>0, <1>4, <1>q DEF ListRelease, DropLogger, condVars
<1>5. ASSUME NEW t \in Threads, ListDestroy(t) PROVE WakeInv'
  BY <1>0, <1>5, <1>q DEF ListDestroy, condVars
<1>6. ASSUME NEW t \in Threads, ListUnlock(t) PROVE WakeInv'
  BY <1>0, <1>6, <1>q DEF ListUnlock, condVars
<1>7. ASSUME NEW t \in Threads, Join(t) PROVE WakeInv'
  BY <1>0, <1>7, <1>q DEF Join, AfterAppender, condVars
<1>8. ASSUME NEW t \in Threads, StopFlusher(t) PROVE WakeInv'
  <2>1. CASE pc[Flusher] = "none"
    BY <1>0, <1>8, <2>1, <1>q DEF StopFlusher, AfterAppender
  <2>2. CASE pc[Flusher] # "none"
    BY <1>0, <1>8, <2>2 DEF StopFlusher, Woken, WakeInv
  <2> QED BY <2>1, <2>2
<1>9. ASSUME NEW t \in Loggers, AddLogger(t) PROVE WakeInv'
  BY <1>0, <1>9, <1>q DEF AddLogger, DropAppender, condVars
<1>10. ASSUME NEW t \in Loggers, CallbackLock(t) PROVE WakeInv'
  BY <1>0, <1>10, <1>q DEF CallbackLock, condVars
<1>11. ASSUME NEW t \in Loggers, CountLoad(t) PROVE WakeInv'
  BY <1>0, <1>11, <1>q DEF CountLoad, condVars
<1>12. ASSUME NEW t \in Loggers, CountStore(t) PROVE WakeInv'
  BY <1>0, <1>12, <1>q DEF CountStore
<1>13. ASSUME NEW t \in Loggers, CallbackTest(t) PROVE WakeInv'
  BY <1>0, <1>13, <1>q DEF CallbackTest, condVars
<1>14. ASSUME NEW t \in Loggers, CallbackRelease(t) PROVE WakeInv'
  BY <1>0, <1>14, <1>q DEF CallbackRelease, DropAppender, condVars
<1>15. ASSUME NEW t \in Loggers, DestroyByOwner(t) PROVE WakeInv'
  BY <1>0, <1>15, <1>q DEF DestroyByOwner, condVars
<1>16. ASSUME NEW t \in Loggers, CallbackNotify(t) PROVE WakeInv'
  BY <1>0, <1>16 DEF CallbackNotify, Woken, WakeInv
<1>17. ASSUME NEW t \in Loggers, BeginAddLogger(t) PROVE WakeInv'
  BY <1>0, <1>17, <1>q DEF BeginAddLogger, condVars
<1>18. ASSUME NEW t \in Loggers, Log(t) PROVE WakeInv'
  BY <1>0, <1>18, <1>q DEF Log, condVars
<1>19. ASSUME NEW t \in Loggers, ResetLogger(t) PROVE WakeInv'
  BY <1>0, <1>19, <1>q DEF ResetLogger, DropLogger, condVars
<1>20. CASE FlusherLoop
  BY <1>0, <1>20, <1>q DEF FlusherLoop, condVars
<1>21. CASE FlusherTakeCond
  BY <1>0, <1>21 DEF FlusherTakeCond, WakeInv
<1>22. CASE FlusherTest
  <2>1. condLock' = condLock /\ wakeUp' = wakeUp
    BY <1>22 DEF FlusherTest, condVars
  <2>2. CASE wakeUp
    BY <1>0, <1>22, <2>1, <2>2 DEF FlusherTest, WakeInv
  <2>3. CASE ~ wakeUp
    BY <1>0, <1>22, <2>1, <2>3 DEF FlusherTest, WakeInv
  <2> QED BY <2>2, <2>3
<1>23. CASE FlusherSleep
  BY <1>0, <1>23 DEF FlusherSleep, WakeInv
<1>24. CASE FlusherReset
  BY <1>0, <1>24 DEF FlusherReset, WakeInv
<1>25. CASE StartFlushThread
  BY <1>0, <1>25, <1>q DEF StartFlushThread
<1>26. CASE BeginFlush
  BY <1>0, <1>26, <1>q DEF BeginFlush, condVars
<1>27. CASE ResetAppender
  BY <1>0, <1>27, <1>q DEF ResetAppender, DropAppender, condVars
<1>28. CASE SpuriousWakeUp
  BY <1>0, <1>28, <1>q DEF SpuriousWakeUp, condVars
<1>29. CASE UNCHANGED vars
  BY <1>29, <1>q DEF vars
<1> QED BY <1>1, <1>2, <1>3, <1>4, <1>5, <1>6, <1>7, <1>8, <1>9, <1>10, <1>11, <1>12,
           <1>13, <1>14, <1>15, <1>16, <1>17, <1>18, <1>19, <1>20, <1>21, <1>22, <1>23,
           <1>24, <1>25, <1>26, <1>27, <1>28, <1>29
       DEF Next, Continue, Notify, Begin, Terminated

LEMMA WakeAlways == Spec => []WakeInv
<1>1. Init => WakeInv
  BY AppenderAssumption DEF Init, WakeInv, Owners, Threads, Nobody
<1>2. Inv => Base
  BY DEF Inv
<1> QED BY InvAlways, WakeStep, <1>1, <1>2, PTL DEF Spec

\* The flusher does not wait while _flush_thread_wake_up is set: whoever sets it
\* holds _cond_mutex, and the flusher releases that mutex only by waiting.
THEOREM NoNotificationLost == Spec => []NoLostWakeUp
<1>1. WakeInv => NoLostWakeUp
  BY DEF WakeInv, NoLostWakeUp
<1> QED BY WakeAlways, <1>1, PTL

-----------------------------------------------------------------------------
(* The full queue. *)

LEMMA Remaining ==
    ASSUME NEW S, NEW s \in Seq(S), s # << >>, NEW x \in ToSet(s), x # Head(s)
    PROVE  x \in ToSet(Tail(s))
<1>1. /\ Head(s) = s[1] /\ DOMAIN s = 1 .. Len(s) /\ Len(s) \in Nat
      /\ DOMAIN Tail(s) = 1 .. Len(s) - 1
      /\ \A i \in 1 .. Len(s) - 1 : Tail(s)[i] = s[i + 1]
  OBVIOUS
<1>2. PICK i \in 1 .. Len(s) : s[i] = x
  BY <1>1 DEF ToSet
<1>3. i - 1 \in 1 .. Len(s) - 1 /\ Tail(s)[i - 1] = x
  BY <1>1, <1>2
<1> QED BY <1>1, <1>3 DEF ToSet

LEMMA FreshStep ==
    ASSUME EarlyLog = FALSE, Base, FreshInv, [Next]_vars
    PROVE  FreshInv'
<1> USE AppenderAssumption DEF Owners, Threads, Goto
<1>0. /\ pc = [t \in Threads |-> pc[t]] /\ Flusher \in Threads
      /\ \A l \in Loggers : l # Flusher /\ l # Main /\ l # Nobody /\ l \in Threads
      /\ queued = [l \in Loggers |-> queued[l]] /\ open = [l \in Loggers |-> open[l]]
  BY DEF Base, TypeOK, Nobody
<1>b. /\ \A t \in Threads : pc[t] \in {"next", "held"} => listLock = t
      /\ \A t \in Threads : listLock = t => pc[t] \in {"next", "held", "destroy"}
  BY DEF Base, ListInv
<1> DEFINE Quiet == \A l \in Loggers :
                       /\ \/ queued'[l] = queued[l] /\ open'[l] = open[l]
                          \/ queued'[l] = 0 /\ open'[l] = 0
                       /\ (pc'[l] \in {"idle", "lock"} \/ listLock' = l)
                             => (pc[l] \in {"idle", "lock"} \/ listLock = l)
<1>q. ASSUME Quiet PROVE FreshInv'
  BY <1>q DEF FreshInv
<1> HIDE DEF Quiet
<1>1. ASSUME NEW t \in Threads, ListLock(t) PROVE FreshInv'
  BY <1>0, <1>b, <1>q, <1>1 DEF ListLock, loggerVars, bufferVars, Quiet
<1>2. ASSUME NEW t \in Threads, ListNext(t) PROVE FreshInv'
  BY <1>0, <1>b, <1>q, <1>2 DEF ListNext, bufferVars, Quiet
<1>3. ASSUME NEW t \in Threads, FlushBlock(t) PROVE FreshInv'
  <2>1. left # << >> /\ queued[Current] > 0
    BY <1>0, <1>b, <1>3 DEF FlushBlock, Base, ListInv
  <2>2. Current \in Loggers
    BY <2>1, WalkFacts
  <2>3. /\ UNCHANGED <<open, listLock, pc>>
        /\ \A l \in Loggers \ {Current} : queued'[l] = queued[l]
    BY <1>0, <1>3, <2>2 DEF FlushBlock, listVars
  <2>4. ~ (pc[Current] \in {"idle", "lock"} \/ listLock = Current)
    BY <2>1, <2>2 DEF FreshInv
  <2> QED BY <2>2, <2>3, <2>4 DEF FreshInv
<1>4. ASSUME NEW t \in Threads, ListRelease(t) PROVE FreshInv'
  BY <1>0, <1>b, <1>q, <1>4 DEF ListRelease, DropLogger, bufferVars, Quiet
<1>5. ASSUME NEW t \in Threads, ListDestroy(t) PROVE FreshInv'
  <2>1. left # << >>
    BY <1>0, <1>b, <1>5 DEF ListDestroy, Base, ListInv
  <2>2. Current \in Loggers
    BY <2>1, WalkFacts
  <2> QED BY <1>0, <1>b, <1>q, <1>5, <2>2 DEF ListDestroy, Destroy, Quiet
<1>6. ASSUME NEW t \in Threads, ListUnlock(t) PROVE FreshInv'
  BY <1>0, <1>b, <1>q, <1>6 DEF ListUnlock, loggerVars, bufferVars, Quiet
<1>7. ASSUME NEW t \in Threads, Join(t) PROVE FreshInv'
  BY <1>0, <1>b, <1>q, <1>7
     DEF Join, AfterAppender, loggerVars, bufferVars, listVars, Quiet
<1>8. ASSUME NEW t \in Threads, StopFlusher(t) PROVE FreshInv'
  <2>1. /\ pc[t] = "stop" /\ UNCHANGED <<queued, open, listLock>>
        /\ \A l \in Loggers : pc'[l] = pc[l] \/ pc'[l] \notin {"idle", "lock"}
    BY <1>0, <1>8
       DEF StopFlusher, AfterAppender, Woken, loggerVars, bufferVars, listVars
  <2> QED BY <1>q, <2>1 DEF Quiet
<1>9. ASSUME NEW t \in Loggers, AddLogger(t) PROVE FreshInv'
  BY <1>0, <1>b, <1>q, <1>9 DEF AddLogger, DropAppender, loggerVars, bufferVars, Quiet
<1>10. ASSUME NEW t \in Loggers, CallbackLock(t) PROVE FreshInv'
  BY <1>0, <1>b, <1>q, <1>10 DEF CallbackLock, loggerVars, bufferVars, listVars, Quiet
<1>11. ASSUME NEW t \in Loggers, CountLoad(t) PROVE FreshInv'
  BY <1>0, <1>b, <1>q, <1>11 DEF CountLoad, bufferVars, listVars, Quiet
<1>12. ASSUME NEW t \in Loggers, CountStore(t) PROVE FreshInv'
  BY <1>0, <1>b, <1>q, <1>12 DEF CountStore, loggerVars, bufferVars, listVars, Quiet
<1>13. ASSUME NEW t \in Loggers, CallbackTest(t) PROVE FreshInv'
  BY <1>0, <1>b, <1>q, <1>13 DEF CallbackTest, loggerVars, bufferVars, listVars, Quiet
<1>14. ASSUME NEW t \in Loggers, CallbackRelease(t) PROVE FreshInv'
  BY <1>0, <1>b, <1>q, <1>14
     DEF CallbackRelease, DropAppender, bufferVars, listVars, Quiet
<1>15. ASSUME NEW t \in Loggers, DestroyByOwner(t) PROVE FreshInv'
  BY <1>0, <1>b, <1>q, <1>15 DEF DestroyByOwner, Destroy, listVars, Quiet
<1>16. ASSUME NEW t \in Loggers, CallbackNotify(t) PROVE FreshInv'
  BY <1>0, <1>b, <1>q, <1>16
     DEF CallbackNotify, Woken, loggerVars, bufferVars, listVars, Quiet
<1>17. ASSUME NEW t \in Loggers, BeginAddLogger(t) PROVE FreshInv'
  BY <1>0, <1>b, <1>q, <1>17 DEF BeginAddLogger, loggerVars, bufferVars, listVars, Quiet
<1>18. ASSUME NEW t \in Loggers, Log(t) PROVE FreshInv'
  <2>1. /\ pc[t] = "run" /\ listLock # t /\ UNCHANGED listLock
        /\ \A l \in Loggers \ {t} : queued'[l] = queued[l] /\ open'[l] = open[l] /\ pc'[l] = pc[l]
        /\ pc'[t] \in {"run", "callback"}
    BY <1>0, <1>b, <1>18 DEF Log, listVars
  <2> QED BY <2>1 DEF FreshInv
<1>19. ASSUME NEW t \in Loggers, ResetLogger(t) PROVE FreshInv'
  BY <1>0, <1>b, <1>q, <1>19 DEF ResetLogger, DropLogger, bufferVars, listVars, Quiet
<1>20. CASE FlusherLoop
  BY <1>0, <1>b, <1>q, <1>20 DEF FlusherLoop, loggerVars, bufferVars, listVars, Quiet
<1>21. CASE FlusherTakeCond
  BY <1>0, <1>b, <1>q, <1>21
     DEF FlusherTakeCond, loggerVars, bufferVars, listVars, Quiet
<1>22. CASE FlusherTest
  BY <1>0, <1>b, <1>q, <1>22 DEF FlusherTest, loggerVars, bufferVars, listVars, Quiet
<1>23. CASE FlusherSleep
  BY <1>0, <1>b, <1>q, <1>23 DEF FlusherSleep, loggerVars, bufferVars, listVars, Quiet
<1>24. CASE FlusherReset
  BY <1>0, <1>b, <1>q, <1>24 DEF FlusherReset, loggerVars, bufferVars, listVars, Quiet
<1>25. CASE StartFlushThread
  BY <1>0, <1>b, <1>q, <1>25
     DEF StartFlushThread, loggerVars, bufferVars, listVars, Quiet
<1>26. CASE BeginFlush
  BY <1>0, <1>b, <1>q, <1>26 DEF BeginFlush, loggerVars, bufferVars, listVars, Quiet
<1>27. CASE ResetAppender
  BY <1>0, <1>b, <1>q, <1>27
     DEF ResetAppender, DropAppender, loggerVars, bufferVars, listVars, Quiet
<1>28. CASE SpuriousWakeUp
  BY <1>0, <1>b, <1>q, <1>28 DEF SpuriousWakeUp, loggerVars, bufferVars, listVars, Quiet
<1>29. CASE UNCHANGED vars
  BY <1>29, <1>q DEF vars, Quiet
<1> QED BY <1>1, <1>2, <1>3, <1>4, <1>5, <1>6, <1>7, <1>8, <1>9, <1>10, <1>11, <1>12,
           <1>13, <1>14, <1>15, <1>16, <1>17, <1>18, <1>19, <1>20, <1>21, <1>22, <1>23,
           <1>24, <1>25, <1>26, <1>27, <1>28, <1>29
       DEF Next, Continue, Notify, Begin, Terminated

LEMMA NoticeStep ==
    ASSUME EarlyLog = FALSE, NumBlocks >= 5, Inv, FreshInv, NoticeInv, [Next]_vars
    PROVE  NoticeInv'
<1> SUFFICES ASSUME NEW l \in Loggers, Full(l)' PROVE WillNotify(l)' \/ Heard(l)'
  BY DEF NoticeInv
<1> USE AppenderAssumption DEF Owners, Threads, Goto
<1>a. /\ pc = [t \in Threads |-> pc[t]] /\ Flusher \in Threads /\ Main \in Threads
      /\ l # Flusher /\ l # Main /\ l \in Threads /\ Main # Flusher
      /\ \A t \in Loggers : t # Flusher /\ t # Main /\ t \in Threads
      /\ queued = [k \in Loggers |-> queued[k]] /\ space = [k \in Loggers |-> space[k]]
  BY DEF Inv, Base, TypeOK
<1>b. /\ \A t \in Threads : pc[t] \in {"next", "held"} => listLock = t
      /\ \A t \in Threads : listLock = t => pc[t] \in {"next", "held", "destroy"}
      /\ pc[Flusher] = "destroy" => listLock = Flusher
      /\ \A t \in Threads : listLock = t /\ pc[t] \in {"held", "destroy"} => left # << >>
  BY <1>a DEF Inv, Base, ListInv
<1>c. /\ alife' = "alive" /\ l \in ToSet(registered')
      /\ pc'[l] \in Active /\ queued'[l] = NumBlocks - 1
  BY DEF Full
<1>d. /\ Full(l) => WillNotify(l) \/ Heard(l)
      /\ queued[l] \in Nat /\ queued[l] <= NumBlocks - 1 /\ NumBlocks \in Nat
  BY CountTypes DEF NoticeInv, Inv, Base
\* While a logger is in use, the walk cannot pass it by as expired.
<1>e. pc[l] \in Active => l \in refs[l]
  BY DEF Inv, LoggerInv, Active
<1>f. ASSUME left # << >>, l \in ToSet(left), l # Current PROVE l \in ToSet(Tail(left))
  BY <1>f, Remaining DEF Inv, Base, TypeOK, Current
\* A step that leaves the logger and the flusher where they are.
<1>q. ASSUME UNCHANGED <<alife, queued, registered, space, left, wakeUp>>,
             pc'[l] = pc[l],
             \/ pc'[Flusher] = pc[Flusher]
             \/ /\ pc[Flusher] \notin {"next", "held", "destroy", "none", "loop", "lock",
                                       "reset", "exited"}
             \/ pc'[Flusher] \in {"none", "loop", "lock", "reset", "exited"}
             \/ /\ pc[Flusher] \in {"next", "held", "destroy"}
                /\ pc'[Flusher] \in {"next", "held", "destroy"}
      PROVE  WillNotify(l)' \/ Heard(l)'
  <2>1. Full(l)
    BY <1>c, <1>q DEF Full
  <2>2. CASE WillNotify(l)
    BY <1>q, <2>2 DEF WillNotify
  <2>3. CASE Heard(l)
    BY <1>q, <2>3 DEF Heard
  <2> QED BY <1>d, <2>1, <2>2, <2>3
<1>1. ASSUME NEW t \in Threads, ListLock(t) PROVE WillNotify(l)' \/ Heard(l)'
  <2>1. /\ pc[t] = "lock" /\ listLock = Nobody /\ left' = registered
        /\ UNCHANGED <<alife, queued, registered, space, wakeUp>>
        /\ pc' = [pc EXCEPT ![t] = "next"]
    BY <1>1 DEF ListLock, loggerVars, bufferVars, callbackVars, ownVars, condVars
  <2>2. l # t
    BY <1>a, <1>c, <2>1 DEF Active
  <2>3. CASE t = Flusher
    BY <1>a, <1>c, <2>1, <2>3 DEF Heard
  <2>4. CASE t # Flusher
    <3>1. Full(l) /\ pc'[l] = pc[l] /\ pc'[Flusher] = pc[Flusher]
      BY <1>a, <1>c, <2>1, <2>2, <2>4 DEF Full
    <3>2. pc[Flusher] \notin {"next", "held", "destroy"}
      BY <1>a, <1>b, <2>1 DEF Nobody
    <3> QED BY <1>d, <2>1, <3>1, <3>2 DEF WillNotify, Heard
  <2> QED BY <2>3, <2>4
<1>2. ASSUME NEW t \in Threads, ListNext(t) PROVE WillNotify(l)' \/ Heard(l)'
  <2>1. /\ pc[t] = "next" /\ left # << >> /\ listLock = t /\ listLock # Nobody
        /\ UNCHANGED <<alife, queued, space, wakeUp>>
    BY <1>a, <1>b, <1>2
       DEF ListNext, bufferVars, callbackVars, ownVars, condVars, Nobody
  <2>2. CASE refs[Current] = {}
    <3>1. /\ pc' = pc /\ left' = Tail(left)
          /\ \/ registered' = registered
             \/ registered' = RemoveAt(registered, Len(registered) - Len(left) + 1)
      BY <1>2, <2>2 DEF ListNext
    <3>2. ToSet(registered') \subseteq ToSet(registered)
      BY <2>1, <3>1, RemovalFacts DEF Inv
    <3>3. Full(l) /\ l # Current
      BY <1>c, <1>e, <2>1, <2>2, <3>1, <3>2 DEF Full
    <3>4. l \in ToSet(left) => l \in ToSet(left')
      BY <1>f, <2>1, <3>1, <3>3
    <3> QED BY <1>d, <2>1, <3>1, <3>3, <3>4 DEF WillNotify, Heard
  <2>3. CASE refs[Current] # {}
    <3>1. UNCHANGED <<registered, left>> /\ pc' = [pc EXCEPT ![t] = "held"]
      BY <1>2, <2>3 DEF ListNext
    <3>2. l # t
      BY <1>a, <1>c, <3>1 DEF Active
    <3> QED BY <1>a, <1>q, <2>1, <3>1, <3>2
  <2> QED BY <2>2, <2>3
<1>3. ASSUME NEW t \in Threads, FlushBlock(t) PROVE WillNotify(l)' \/ Heard(l)'
  <2>1. left # << >> /\ queued[Current] > 0
    BY <1>a, <1>b, <1>3 DEF FlushBlock
  <2>2. Current \in Loggers
    BY <2>1, WalkFacts DEF Inv
  <2>3. /\ UNCHANGED <<alife, registered, space, left, wakeUp, pc>>
        /\ queued' = [queued EXCEPT ![Current] = @ - 1]
    BY <1>3 DEF FlushBlock, callbackVars, ownVars, listVars, condVars
  <2>4. l # Current
    BY <1>a, <1>c, <1>d, <2>3
  <2>5. queued'[l] = queued[l]
    BY <1>a, <2>3, <2>4
  <2>6. Full(l)
    BY <1>c, <2>3, <2>5 DEF Full
  <2> QED BY <1>d, <2>3, <2>6 DEF WillNotify, Heard
<1>4. ASSUME NEW t \in Threads, ListRelease(t) PROVE WillNotify(l)' \/ Heard(l)'
  <2>1. /\ pc[t] = "held" /\ left # << >> /\ listLock = t
        /\ UNCHANGED <<alife, queued, registered, space, wakeUp>>
        /\ pc' = [pc EXCEPT ![t] = "next"] \/ pc' = [pc EXCEPT ![t] = "destroy"]
        /\ left' = left \/ left' = Tail(left)
        /\ pc'[Flusher] = "destroy" => left' = left \/ t # Flusher
    BY <1>a, <1>b, <1>4
       DEF ListRelease, DropLogger, bufferVars, callbackVars, ownVars, condVars
  <2>2. l # t
    BY <1>a, <1>c, <2>1 DEF Active
  <2>3. Full(l) /\ pc'[l] = pc[l]
    BY <1>a, <1>c, <2>1, <2>2 DEF Full
  <2>4. CASE t = Flusher
    <3>1. queued[Current] = 0
      BY <1>a, <1>4, <2>4 DEF ListRelease
    <3>2. l # Current
      BY <1>d, <2>3, <3>1 DEF Full
    <3>3. l \in ToSet(left) => l \in ToSet(left')
      BY <1>f, <2>1, <3>2
    <3>4. pc[Flusher] = "held" /\ pc'[Flusher] \in {"next", "destroy"}
      BY <1>a, <2>1, <2>4
    <3> QED BY <1>d, <2>1, <2>3, <3>3, <3>4 DEF WillNotify, Heard
  <2>5. CASE t # Flusher
    <3>1. pc[Flusher] \notin {"next", "held", "destroy"} /\ pc'[Flusher] = pc[Flusher]
      BY <1>a, <1>b, <2>1, <2>5
    <3> QED BY <1>d, <2>1, <2>3, <3>1 DEF WillNotify, Heard
  <2> QED BY <2>4, <2>5
<1>5. ASSUME NEW t \in Threads, ListDestroy(t) PROVE WillNotify(l)' \/ Heard(l)'
  <2>1. /\ pc[t] = "destroy" /\ left # << >> /\ listLock = t
        /\ UNCHANGED <<alife, registered, space, wakeUp>>
        /\ pc' = [pc EXCEPT ![t] = "next"] /\ left' = Tail(left)
        /\ queued' = [queued EXCEPT ![Current] = 0]
    BY <1>a, <1>b, <1>5 DEF ListDestroy, Destroy, callbackVars, ownVars, condVars
  <2>2. Current \in Loggers
    BY <2>1, WalkFacts DEF Inv
  <2>3. l # t /\ l # Current
    BY <1>a, <1>c, <1>d, <2>1, <2>2 DEF Active
  <2>4. Full(l) /\ pc'[l] = pc[l]
    BY <1>a, <1>c, <2>1, <2>3 DEF Full
  <2>5. l \in ToSet(left) => l \in ToSet(left')
    BY <1>f, <2>1, <2>3
  <2>6. pc'[Flusher] = pc[Flusher] \/ pc'[Flusher] = "next"
    BY <1>a, <2>1
  <2>7. pc'[Flusher] = pc[Flusher] \/ pc[Flusher] = "destroy"
    BY <1>a, <2>1
  <2> QED BY <1>d, <2>1, <2>4, <2>5, <2>6, <2>7 DEF WillNotify, Heard
<1>6. ASSUME NEW t \in Threads, ListUnlock(t) PROVE WillNotify(l)' \/ Heard(l)'
  <2>1. /\ pc[t] = "next" /\ left = << >> /\ t # l
        /\ UNCHANGED <<alife, queued, registered, space, left, wakeUp>>
        /\ \A u \in Threads \ {t} : pc'[u] = pc[u]
    BY <1>a, <1>6
       DEF ListUnlock, loggerVars, bufferVars, callbackVars, ownVars, condVars
  <2>2. Full(l) /\ pc'[l] = pc[l] /\ l \notin ToSet(left)
    <3>1. ToSet(left) = {}
      BY <2>1 DEF ToSet
    <3> QED BY <1>a, <1>c, <2>1, <3>1 DEF Full
  <2>3. pc[Flusher] = pc'[Flusher] \/ pc[Flusher] = "next"
    BY <1>a, <2>1
  <2> QED BY <1>d, <2>1, <2>2, <2>3 DEF WillNotify, Heard
<1>7. ASSUME NEW t \in Threads, Join(t) PROVE WillNotify(l)' \/ Heard(l)'
  BY <1>c, <1>7 DEF Join
<1>8. ASSUME NEW t \in Threads, StopFlusher(t) PROVE WillNotify(l)' \/ Heard(l)'
  <2>1. CASE pc[Flusher] = "none"
    BY <1>c, <1>8, <2>1 DEF StopFlusher
  <2>2. CASE pc[Flusher] # "none"
    BY <1>8, <2>2 DEF StopFlusher, Heard
  <2> QED BY <2>1, <2>2
<1>9. ASSUME NEW t \in Loggers, AddLogger(t) PROVE WillNotify(l)' \/ Heard(l)'
  <2>1. /\ listLock = t /\ UNCHANGED <<queued, space, left, wakeUp>>
        /\ registered' = Append(registered, t)
        /\ \A u \in Threads \ {t} : pc'[u] = pc[u]
        /\ alife' = alife \/ alife' = "dying"
    BY <1>a, <1>b, <1>9
       DEF AddLogger, DropAppender, loggerVars, bufferVars, callbackVars,
           condVars
  <2>2. queued[t] = 0
    BY <2>1 DEF FreshInv
  <2>3. l # t
    BY <1>c, <1>d, <2>1, <2>2
  <2>4. l \in ToSet(registered)
    BY <1>c, <2>1, <2>3, Appended DEF Inv, Base, TypeOK
  <2>5. Full(l) /\ pc'[l] = pc[l] /\ pc'[Flusher] = pc[Flusher]
    BY <1>a, <1>c, <2>1, <2>3, <2>4 DEF Full
  <2> QED BY <1>d, <2>1, <2>5 DEF WillNotify, Heard
<1>10. ASSUME NEW t \in Loggers, CallbackLock(t) PROVE WillNotify(l)' \/ Heard(l)'
  <2>1. /\ pc[t] = "callback"
        /\ UNCHANGED <<alife, queued, registered, space, left, wakeUp>>
    BY <1>10 DEF CallbackLock, loggerVars, bufferVars, callbackVars, listVars, condVars
  <2>2. arefs # {}
    BY <1>c, <2>1 DEF Inv, AppenderInv, AppenderOutlivesUse
  <2>3. pc' = [pc EXCEPT ![t] = "count"]
    BY <1>10, <2>2 DEF CallbackLock
  <2>4. Full(l)
    BY <1>a, <1>c, <2>1, <2>3 DEF Full, Active
  <2> QED BY <1>a, <1>d, <2>1, <2>3, <2>4 DEF WillNotify, Heard
<1>11. ASSUME NEW t \in Loggers, CountLoad(t) PROVE WillNotify(l)' \/ Heard(l)'
  <2>1. /\ pc[t] = "count" /\ pc' = [pc EXCEPT ![t] = "store"]
        /\ UNCHANGED <<alife, queued, registered, space, left, wakeUp>>
    BY <1>11 DEF CountLoad, bufferVars, ownVars, listVars, condVars
  <2>2. Full(l)
    BY <1>a, <1>c, <2>1 DEF Full, Active
  <2> QED BY <1>a, <1>d, <2>1, <2>2 DEF WillNotify, Heard
<1>12. ASSUME NEW t \in Loggers, CountStore(t) PROVE WillNotify(l)' \/ Heard(l)'
  <2>1. /\ pc[t] = "store" /\ pc' = [pc EXCEPT ![t] = "test"]
        /\ UNCHANGED <<alife, queued, registered, space, left, wakeUp>>
    BY <1>12 DEF CountStore, loggerVars, bufferVars, callbackVars, ownVars, listVars
  <2>2. Full(l)
    BY <1>a, <1>c, <2>1 DEF Full, Active
  <2> QED BY <1>a, <1>d, <2>1, <2>2 DEF WillNotify, Heard
<1>13. ASSUME NEW t \in Loggers, CallbackTest(t) PROVE WillNotify(l)' \/ Heard(l)'
  <2>1. /\ pc[t] = "test"
        /\ UNCHANGED <<alife, queued, registered, space, left, wakeUp>>
        /\ \/ pc' = [pc EXCEPT ![t] = "notify"]
           \/ pc' = [pc EXCEPT ![t] = "release"] /\ ~ (2 * space[t] < NumBlocks)
    BY <1>13
       DEF CallbackTest, loggerVars, bufferVars, callbackVars, ownVars, listVars,
           condVars
  <2>2. Full(l)
    BY <1>a, <1>c, <2>1 DEF Full, Active
  <2>3. pc'[Flusher] = pc[Flusher]
    BY <1>a, <2>1
  <2>4. CASE l # t
    BY <1>a, <1>q, <2>1, <2>3, <2>4
  <2>5. CASE l = t
    BY <1>a, <1>d, <2>1, <2>2, <2>3, <2>5 DEF WillNotify, Heard
  <2> QED BY <2>4, <2>5
<1>14. ASSUME NEW t \in Loggers, CallbackRelease(t) PROVE WillNotify(l)' \/ Heard(l)'
  <2>1. /\ pc[t] = "release"
        /\ UNCHANGED <<queued, registered, left, wakeUp>>
        /\ \A u \in Threads \ {t} : pc'[u] = pc[u]
        /\ \A k \in Loggers \ {t} : space'[k] = space[k]
        /\ alife' = alife \/ alife' = "dying"
    BY <1>a, <1>14 DEF CallbackRelease, DropAppender, bufferVars, listVars, condVars
  <2>2. Full(l) /\ pc'[Flusher] = pc[Flusher]
    BY <1>a, <1>c, <2>1 DEF Full, Active
  <2>3. CASE l # t
    BY <1>a, <1>d, <2>1, <2>2, <2>3 DEF WillNotify, Heard
  <2>4. CASE l = t
    BY <1>d, <2>1, <2>2, <2>4 DEF WillNotify, Heard
  <2> QED BY <2>3, <2>4
<1>15. ASSUME NEW t \in Loggers, DestroyByOwner(t) PROVE WillNotify(l)' \/ Heard(l)'
  <2>1. /\ UNCHANGED <<alife, registered, space, left, wakeUp>>
        /\ queued' = [queued EXCEPT ![t] = 0] /\ pc' = [pc EXCEPT ![t] = "done"]
    BY <1>15 DEF DestroyByOwner, Destroy, callbackVars, ownVars, listVars, condVars
  <2>2. l # t
    BY <1>a, <1>c, <2>1 DEF Active
  <2>3. /\ queued'[l] = queued[l] /\ pc'[l] = pc[l] /\ pc'[Flusher] = pc[Flusher]
    BY <1>a, <2>1, <2>2
  <2>4. Full(l)
    BY <1>c, <2>1, <2>3 DEF Full
  <2> QED BY <1>d, <2>1, <2>3, <2>4 DEF WillNotify, Heard
<1>16. ASSUME NEW t \in Loggers, CallbackNotify(t) PROVE WillNotify(l)' \/ Heard(l)'
  BY <1>16 DEF CallbackNotify, Heard
<1>17. ASSUME NEW t \in Loggers, BeginAddLogger(t) PROVE WillNotify(l)' \/ Heard(l)'
  <2>1. /\ UNCHANGED <<alife, queued, registered, space, left, wakeUp>>
        /\ pc' = [pc EXCEPT ![t] = "lock"]
    BY <1>17
       DEF BeginAddLogger, loggerVars, bufferVars, callbackVars, ownVars,
           listVars, condVars
  <2>2. l # t
    BY <1>a, <1>c, <2>1 DEF Active
  <2> QED BY <1>a, <1>q, <2>1, <2>2
<1>18. ASSUME NEW t \in Loggers, Log(t) PROVE WillNotify(l)' \/ Heard(l)'
  <2>1. /\ pc[t] = "run"
        /\ UNCHANGED <<alife, registered, left, wakeUp>>
    BY <1>18 DEF Log, ownVars, listVars, condVars
  <2>2. CASE /\ queued' = [queued EXCEPT ![t] = @ + 1]
             /\ space' = [space EXCEPT ![t] = NumBlocks - queued[t]]
             /\ pc' = [pc EXCEPT ![t] = "callback"]
    <3>1. CASE l = t
      <4>1. queued[l] + 1 = NumBlocks - 1 /\ space'[l] = NumBlocks - queued[l]
        BY <1>a, <1>c, <2>2, <3>1
      <4>2. 2 * space'[l] < NumBlocks
        BY <1>d, <4>1
      <4> QED BY <1>a, <2>2, <3>1, <4>2 DEF WillNotify
    <3>2. CASE l # t
      <4>1. /\ queued'[l] = queued[l] /\ pc'[l] = pc[l] /\ space'[l] = space[l]
            /\ pc'[Flusher] = pc[Flusher]
        BY <1>a, <2>2, <3>2
      <4>2. Full(l)
        BY <1>c, <2>1, <4>1 DEF Full
      <4> QED BY <1>d, <2>1, <4>1, <4>2 DEF WillNotify, Heard
    <3> QED BY <3>1, <3>2
  <2>3. CASE UNCHANGED <<queued, space, pc>>
    BY <1>q, <2>1, <2>3
  <2>4. open[t] = 0 \/ (open[t] = 1 /\ BlockFree(t)) \/ (open[t] = 1 /\ ~ BlockFree(t))
    BY CountTypes DEF Inv, Base
  <2> QED BY <1>18, <2>1, <2>2, <2>3, <2>4 DEF Log
<1>19. ASSUME NEW t \in Loggers, ResetLogger(t) PROVE WillNotify(l)' \/ Heard(l)'
  <2>1. /\ UNCHANGED <<alife, queued, registered, space, left, wakeUp>>
        /\ pc' = [pc EXCEPT ![t] = "done"] \/ pc' = [pc EXCEPT ![t] = "destroy"]
    BY <1>19
       DEF ResetLogger, DropLogger, bufferVars, callbackVars, ownVars, listVars,
           condVars
  <2>2. l # t
    BY <1>a, <1>c, <2>1 DEF Active
  <2> QED BY <1>a, <1>q, <2>1, <2>2
<1>20. CASE FlusherLoop
  <2>1. /\ pc'[l] = pc[l] /\ UNCHANGED <<alife, queued, registered, space, left, wakeUp>>
    BY <1>a, <1>20
       DEF FlusherLoop, loggerVars, bufferVars, callbackVars, ownVars, listVars,
           condVars
  <2> QED BY <1>a, <1>q, <1>20, <2>1 DEF FlusherLoop
<1>21. CASE FlusherTakeCond
  <2>1. /\ pc'[l] = pc[l] /\ UNCHANGED <<alife, queued, registered, space, left, wakeUp>>
    BY <1>a, <1>21
       DEF FlusherTakeCond, loggerVars, bufferVars, callbackVars, ownVars,
           listVars
  <2> QED BY <1>a, <1>q, <1>21, <2>1 DEF FlusherTakeCond
<1>22. CASE FlusherTest
  <2>1. /\ pc[Flusher] = "test" /\ pc'[l] = pc[l]
        /\ UNCHANGED <<alife, queued, registered, space, left, wakeUp>>
    BY <1>a, <1>22
       DEF FlusherTest, loggerVars, bufferVars, callbackVars, ownVars, listVars,
           condVars
  <2> QED BY <1>q, <2>1
<1>23. CASE FlusherSleep
  <2>1. /\ pc'[l] = pc[l] /\ UNCHANGED <<alife, queued, registered, space, left, wakeUp>>
    BY <1>a, <1>23
       DEF FlusherSleep, loggerVars, bufferVars, callbackVars, ownVars, listVars
  <2> QED BY <1>a, <1>q, <1>23, <2>1 DEF FlusherSleep
<1>24. CASE FlusherReset
  <2>1. pc'[Flusher] = "loop"
    BY <1>a, <1>24 DEF FlusherReset
  <2> QED BY <2>1 DEF Heard
<1>25. CASE StartFlushThread
  <2>1. /\ pc'[l] = pc[l] /\ UNCHANGED <<alife, queued, registered, space, left, wakeUp>>
    BY <1>a, <1>25
       DEF StartFlushThread, loggerVars, bufferVars, callbackVars, ownVars,
           listVars
  <2> QED BY <1>a, <1>q, <1>25, <2>1 DEF StartFlushThread
<1>26. CASE BeginFlush
  <2>1. /\ pc'[l] = pc[l] /\ UNCHANGED <<alife, queued, registered, space, left, wakeUp>>
    BY <1>a, <1>26
       DEF BeginFlush, loggerVars, bufferVars, callbackVars, ownVars, listVars,
           condVars
  <2> QED BY <1>a, <1>q, <1>26, <2>1 DEF BeginFlush
<1>27. CASE ResetAppender
  <2>1. /\ UNCHANGED <<queued, registered, space, left, wakeUp>>
        /\ \A u \in Threads \ {Main} : pc'[u] = pc[u]
        /\ alife' = alife \/ alife' = "dying"
    BY <1>a, <1>27
       DEF ResetAppender, DropAppender, loggerVars, bufferVars, callbackVars,
           listVars, condVars
  <2> QED BY <1>a, <1>c, <1>q, <2>1
<1>28. CASE SpuriousWakeUp
  <2>1. /\ pc'[l] = pc[l] /\ UNCHANGED <<alife, queued, registered, space, left, wakeUp>>
    BY <1>a, <1>28
       DEF SpuriousWakeUp, loggerVars, bufferVars, callbackVars, ownVars,
           listVars, condVars
  <2> QED BY <1>a, <1>q, <1>28, <2>1 DEF SpuriousWakeUp
<1>29. CASE UNCHANGED vars
  BY <1>29, <1>q DEF vars
<1> QED BY <1>1, <1>2, <1>3, <1>4, <1>5, <1>6, <1>7, <1>8, <1>9, <1>10, <1>11, <1>12,
           <1>13, <1>14, <1>15, <1>16, <1>17, <1>18, <1>19, <1>20, <1>21, <1>22, <1>23,
           <1>24, <1>25, <1>26, <1>27, <1>28, <1>29
       DEF Next, Continue, Notify, Begin, Terminated

\* While the appender lives and a registered logger is out of its callback, the
\* flusher does not wait as long as that logger has no block left to queue.
\* VariableBuffer has 20 blocks (NUM_BLOCKS); with less than five, the last
\* block that fits would not leave less than half of the queue free, and need
\* not notify.  EarlyLog is the misuse the other run is about.
THEOREM FullQueueNoticed ==
    ASSUME EarlyLog = FALSE, NumBlocks >= 5
    PROVE  Spec => []NoticesFullQueue
<1>1. Init => FreshInv /\ NoticeInv
  BY AppenderAssumption
     DEF Init, FreshInv, NoticeInv, Full, Active, Owners, Threads, Nobody, ToSet
<1>2. Inv /\ FreshInv /\ NoticeInv /\ [Next]_vars => FreshInv' /\ NoticeInv'
  BY FreshStep, NoticeStep DEF Inv
<1>3. Inv /\ WakeInv /\ NoticeInv => NoticesFullQueue
  <2>1. SUFFICES ASSUME Inv, WakeInv, NoticeInv, NEW l \in ToSet(registered),
                        alife = "alive", queued[l] = NumBlocks - 1, pc[l] = "run"
                 PROVE  pc[Flusher] # "waiting"
    BY DEF NoticesFullQueue
  <2>2. l \in Loggers
    <3>1. registered \in Seq(Loggers)
      BY <2>1 DEF Inv, Base, TypeOK
    <3>2. PICK i \in DOMAIN registered : l = registered[i]
      BY DEF ToSet
    <3> QED BY <3>1, <3>2
  <2>3. Heard(l)
    BY <2>1, <2>2 DEF NoticeInv, Full, Active, WillNotify
  <2> QED BY <2>1, <2>3 DEF Heard, WakeInv
<1> QED BY InvAlways, WakeAlways, <1>1, <1>2, <1>3, PTL DEF Spec
=============================================================================
