-------------------------- MODULE MatLoggerProofs --------------------------
(***************************************************************************)
(* Proofs about MatLogger for every set of variables and structures, every *)
(* size of buffers and blocks, with and without a callback set late.       *)
(*                                                                         *)
(* ControlInv (UniformInv, FlagInv, DataInv) has the mutexes, where each   *)
(* thread can be and what it holds there, and the types.  On it rest       *)
(*   FlowInv     every sample is in the file, between, lost or refused,    *)
(*               and none has overtaken another;                           *)
(*   SizesInv    which blocks may be short, hence the rank of an entry;    *)
(*   StructInv   what became of the structures, and                        *)
(*   DrainInv    what the rounds of the destructor have dealt with;        *)
(*   CircularInv that a buffer which overwrites keeps the latest samples,  *)
(*               from the first round to the file.                         *)
(***************************************************************************)
EXTENDS MatLogger, FlattenTheorems

USE LoggerAssumption

-----------------------------------------------------------------------------
LEMMA UniformInit == Init => UniformInv
BY DEF Init, UniformInv, LockInv, CallbackInv, ModeInv, Nobody

LEMMA UniformNext == UniformInv /\ [Next]_allVars => UniformInv'
<1> SUFFICES ASSUME UniformInv, [Next]_allVars PROVE UniformInv'
  OBVIOUS
<1> USE DEF UniformInv, LockInv, CallbackInv, ModeInv, mapVars, matVars, bufVars,
            prodVars, ownerVars, flushVars, fileVars, producerFrame, flusherFrame,
            ownerFrame
<1>1. ASSUME NEW v \in Vars, Create(v) PROVE UniformInv'
  BY <1>1 DEF Create, NewVariable, Nobody
<1>2. ASSUME NEW v \in Vars, Add(v) PROVE UniformInv'
  BY <1>2 DEF Add
<1>3. CASE CreateOnAdd
  BY <1>3 DEF CreateOnAdd, NewVariable, Nobody
<1>4. CASE AddSample
  BY <1>4 DEF AddSample
<1>5. CASE SealBlock
  BY <1>5 DEF SealBlock
<1>6. CASE CallBack
  BY <1>6 DEF CallBack
<1>7. ASSUME NEW s \in Structs, Save(s) PROVE UniformInv'
  BY <1>7 DEF Save
<1>8. CASE Flush
  BY <1>8 DEF Flush, StartFlush
<1>9. CASE WriteStruct
  BY <1>9 DEF WriteStruct
<1>10. CASE LeaveStructs
  BY <1>10 DEF LeaveStructs
<1>11. CASE LockVars
  BY <1>11 DEF LockVars, Nobody
<1>12. ASSUME NEW v \in Vars, PickVar(v) PROVE UniformInv'
  BY <1>12 DEF PickVar
<1>13. CASE ReadBlock
  BY <1>13 DEF ReadBlock
<1>14. CASE StopReading
  BY <1>14 DEF StopReading
<1>15. CASE WriteBlock
  BY <1>15 DEF WriteBlock
<1>16. CASE LeaveVars
  BY <1>16 DEF LeaveVars, Nobody
<1>17. CASE BeginSetCallback
  BY <1>17 DEF BeginSetCallback, Nobody
<1>18. ASSUME NEW v \in Vars, AssignCallback(v) PROVE UniformInv'
  BY <1>18 DEF AssignCallback
<1>19. CASE EndSetCallback
  BY <1>19 DEF EndSetCallback, Nobody
<1>20. ASSUME NEW m \in Modes, SetMode(m) PROVE UniformInv'
  BY <1>20 DEF SetMode, Nobody
<1>21. CASE BeginDestroy
  BY <1>21 DEF BeginDestroy
<1>22. CASE SealAll
  BY <1>22 DEF SealAll, Sealing
<1>23. CASE DestructorFlush
  BY <1>23 DEF DestructorFlush, StartFlush
<1>24. CASE Close
  BY <1>24 DEF Close
<1>25. CASE Terminated
  BY <1>25 DEF Terminated, allVars
<1>26. CASE UNCHANGED allVars
  BY <1>26 DEF allVars
<1> QED
  BY <1>1, <1>2, <1>3, <1>4, <1>5, <1>6, <1>7, <1>8, <1>9, <1>10, <1>11, <1>12, <1>13, <1>14, <1>15, <1>16, <1>17, <1>18, <1>19, <1>20, <1>21, <1>22, <1>23, <1>24, <1>25, <1>26
  DEF Next, Producer, FlushStep, Owner, Destructor

\* The inductive invariant of mutex, callbacks and modes.
THEOREM UniformInvariant == Spec => []UniformInv
<1>1. Init => UniformInv
  BY UniformInit
<1>2. UniformInv /\ [Next]_allVars => UniformInv'
  BY UniformNext
<1> QED
  BY <1>1, <1>2, PTL DEF Spec

\* Whenever the mutex is free, every variable has the logger's callback and mode.
THEOREM UniformVariables == Spec => []Uniform
<1>1. UniformInv => Uniform
  BY DEF UniformInv, LockInv, CallbackInv, ModeInv, Uniform, Nobody
<1> QED
  BY <1>1, UniformInvariant, PTL

\* read_block never throws: no flush meets a variable in circular mode.
THEOREM NoThrow == Spec => []NeverThrows
<1>1. UniformInv => NeverThrows
  BY DEF UniformInv, ModeInv, NeverThrows
<1> QED
  BY <1>1, UniformInvariant, PTL

-----------------------------------------------------------------------------
(* Where the threads are, and what they hold there.                         *)

FlagInv ==
    /\ varsLock \in {Nobody, "flush", "owner"} /\ matLock \in {Nobody, "flush"}
    /\ life \in {"alive", "seal", "room", "drain", "drained", "closed"}
    /\ prodPc \in {"idle", "add", "create", "callback"} /\ target \in Vars \cup {None}
    /\ flushPc \in {"idle", "structs", "lock", "walk", "read", "write", "threw"}
    /\ todo \subseteq vars /\ at \in Vars \cup {None} /\ bytes \in BOOLEAN
    /\ wasCircular \in BOOLEAN
    /\ added \in [Vars -> 0 .. MaxSamples]
    /\ prodPc # "idle" => target \in Vars /\ added[target] < MaxSamples
    /\ prodPc \in {"add", "callback"} => target \in vars
    /\ life \in {"room", "drain", "closed"} => flushPc = "idle"
    /\ flushPc \in {"read", "write"} => at \notin todo
    /\ flushPc # "write" => block = << >>
    /\ \A v \in Vars \ vars : added[v] = 0

LEMMA FlagInit == Init => FlagInv
<1>1. Init => added \in [Vars -> 0 .. MaxSamples]
  BY DEF Init
<1> QED BY <1>1 DEF Init, FlagInv, Nobody, None

LEMMA FlagNext == UniformInv /\ FlagInv /\ [Next]_allVars => FlagInv'
<1> SUFFICES ASSUME UniformInv, FlagInv, [Next]_allVars PROVE FlagInv'
  OBVIOUS
<1> USE DEF UniformInv, LockInv, CallbackInv, ModeInv, mapVars, matVars, bufVars,
            prodVars, ownerVars, flushVars, fileVars, producerFrame, flusherFrame,
            ownerFrame, FlagInv, Nobody, None
<1>1. ASSUME NEW v \in Vars, Create(v) PROVE FlagInv'
  BY <1>1 DEF Create, NewVariable
<1>2. ASSUME NEW v \in Vars, Add(v) PROVE FlagInv'
  BY <1>2 DEF Add
<1>3. CASE CreateOnAdd
  BY <1>3 DEF CreateOnAdd, NewVariable
<1>4. CASE AddSample
  BY <1>4 DEF AddSample
<1>5. CASE SealBlock
  BY <1>5 DEF SealBlock
<1>6. CASE CallBack
  BY <1>6 DEF CallBack
<1>7. ASSUME NEW s \in Structs, Save(s) PROVE FlagInv'
  BY <1>7 DEF Save
<1>8. CASE Flush
  BY <1>8 DEF Flush, StartFlush
<1>9. CASE WriteStruct
  BY <1>9 DEF WriteStruct
<1>10. CASE LeaveStructs
  BY <1>10 DEF LeaveStructs
<1>11. CASE LockVars
  BY <1>11 DEF LockVars
<1>12. ASSUME NEW v \in Vars, PickVar(v) PROVE FlagInv'
  BY <1>12 DEF PickVar
<1>13. CASE ReadBlock
  BY <1>13 DEF ReadBlock
<1>14. CASE StopReading
  BY <1>14 DEF StopReading
<1>15. CASE WriteBlock
  BY <1>15 DEF WriteBlock
<1>16. CASE LeaveVars
  BY <1>16 DEF LeaveVars
<1>17. CASE BeginSetCallback
  BY <1>17 DEF BeginSetCallback
<1>18. ASSUME NEW v \in Vars, AssignCallback(v) PROVE FlagInv'
  BY <1>18 DEF AssignCallback
<1>19. CASE EndSetCallback
  BY <1>19 DEF EndSetCallback
<1>20. ASSUME NEW m \in Modes, SetMode(m) PROVE FlagInv'
  BY <1>20 DEF SetMode
<1>21. CASE BeginDestroy
  BY <1>21 DEF BeginDestroy
<1>22. CASE SealAll
  BY <1>22 DEF SealAll, Sealing
<1>23. CASE DestructorFlush
  BY <1>23 DEF DestructorFlush, StartFlush
<1>24. CASE Close
  BY <1>24 DEF Close
<1>25. CASE Terminated
  BY <1>25 DEF Terminated, allVars
<1>26. CASE UNCHANGED allVars
  BY <1>26 DEF allVars
<1> QED
  BY <1>1, <1>2, <1>3, <1>4, <1>5, <1>6, <1>7, <1>8, <1>9, <1>10, <1>11, <1>12, <1>13, <1>14, <1>15, <1>16, <1>17, <1>18, <1>19, <1>20, <1>21, <1>22, <1>23, <1>24, <1>25, <1>26
  DEF Next, Producer, FlushStep, Owner, Destructor

-----------------------------------------------------------------------------
(* What the steps do to the samples.                                        *)

\* A step that leaves samples and entries where they are.
Quiet ==
    /\ UNCHANGED <<open, sealed, block, file, added, lost, refused>>
    /\ at' = at \/ block = << >>
    /\ vars \subseteq vars'
    /\ life # "alive" => life' # "alive"
    /\ flushPc' = "write" => flushPc = "write"
    /\ prodPc \in {"add", "callback"} => prodPc' \in {"add", "callback"} /\ target' = target

LEMMA DataSteps ==
    ASSUME UniformInv, FlagInv, [Next]_allVars
    PROVE  Quiet \/ AddSample \/ SealBlock \/ WriteStruct \/ ReadBlock \/ WriteBlock \/ SealAll
<1> USE DEF mapVars, matVars, bufVars, prodVars, ownerVars, flushVars, fileVars,
            producerFrame, flusherFrame, ownerFrame, Quiet
<1>1. ASSUME NEW v \in Vars, Create(v) PROVE Quiet
  BY <1>1 DEF Create, NewVariable
<1>2. ASSUME NEW v \in Vars, Add(v) PROVE Quiet
  BY <1>2 DEF Add
<1>3. CreateOnAdd => Quiet
  BY DEF CreateOnAdd, NewVariable
<1>4. CallBack => Quiet
  BY DEF CallBack
<1>5. ASSUME NEW s \in Structs, Save(s) PROVE Quiet
  BY <1>5 DEF Save
<1>6. Flush => Quiet
  BY DEF Flush, StartFlush
<1>7. LeaveStructs => Quiet
  BY DEF LeaveStructs
<1>8. LockVars => Quiet
  BY DEF LockVars
<1>9. ASSUME NEW v \in Vars, PickVar(v) PROVE Quiet
  BY <1>9 DEF PickVar, FlagInv
<1>10. StopReading => Quiet
  BY DEF StopReading, FlagInv
<1>11. LeaveVars => Quiet
  BY DEF LeaveVars
<1>12. BeginSetCallback => Quiet
  BY DEF BeginSetCallback
<1>13. ASSUME NEW v \in Vars, AssignCallback(v) PROVE Quiet
  BY <1>13 DEF AssignCallback
<1>14. EndSetCallback => Quiet
  BY DEF EndSetCallback
<1>15. ASSUME NEW m \in Modes, SetMode(m) PROVE Quiet
  BY <1>15 DEF SetMode
<1>16. BeginDestroy => Quiet
  BY DEF BeginDestroy
<1>17. DestructorFlush => Quiet
  BY DEF DestructorFlush, StartFlush
<1>18. Close => Quiet
  BY DEF Close
<1>19. Terminated => Quiet
  BY DEF Terminated, allVars
<1>20. UNCHANGED allVars => Quiet
  BY DEF allVars
<1> HIDE DEF mapVars, matVars, bufVars, prodVars, ownerVars, flushVars, fileVars,
            producerFrame, flusherFrame, ownerFrame, Quiet
<1> QED
  BY <1>1, <1>2, <1>3, <1>4, <1>5, <1>6, <1>7, <1>8, <1>9, <1>10, <1>11, <1>12, <1>13, <1>14, <1>15, <1>16, <1>17, <1>18, <1>19, <1>20
  DEF Next, Producer, FlushStep, Owner, Destructor

Entries == [kind : {"absent", "growing", "whole"}, dims : Seq(Nat), samples : Seq(Nat)]

DataTypes ==
    /\ open \in [Vars -> Seq(Nat)] /\ sealed \in [Vars -> Seq(Seq(Nat))]
    /\ block \in Seq(Nat) /\ file \in [Names -> Entries]
    /\ lost \in [Vars -> Nat] /\ refused \in [Vars -> Nat]

\* Blocks and queues keep to their sizes; a variable nobody created has none.
SizeInv ==
    /\ \A v \in Vars :
          /\ Len(open[v]) <= ChunkSize /\ Len(sealed[v]) < Chunks
          /\ \A i \in 1 .. Len(sealed[v]) : Len(sealed[v][i]) \in 1 .. ChunkSize
    /\ flushPc = "write" => Len(block) \in 1 .. ChunkSize
    /\ \A v \in Vars \ vars : open[v] = << >> /\ sealed[v] = << >>

\* Only blocks that were appended have samples.
EntryInv == \A n \in Names : file[n].kind # "growing" => file[n].samples = << >>

DataInv == DataTypes /\ SizeInv /\ EntryInv

LEMMA DataInit == Init => DataInv
<1> SUFFICES ASSUME Init PROVE DataInv
  OBVIOUS
<1>1. Absent \in Entries
  BY DEF Absent, Entries
<1>2. << >> \in Seq(Nat) /\ << >> \in Seq(Seq(Nat)) /\ Len(<< >>) = 0
  OBVIOUS
<1>3. DataTypes
  BY <1>1, <1>2 DEF Init, DataTypes
<1>4. SizeInv
  BY <1>2 DEF Init, SizeInv
<1>5. EntryInv
  BY DEF Init, EntryInv, Absent
<1> QED BY <1>3, <1>4, <1>5 DEF DataInv

\* What a block makes of an entry that accepts it.
Extended(r, e, d, s) ==
    /\ r \in Entries /\ r.kind = "growing" /\ r.samples = e.samples \o s
    /\ r.dims = IF e.kind = "absent" THEN d ELSE [e.dims EXCEPT ![Len(d)] = @ + d[Len(d)]]

LEMMA AppendedEntry ==
    ASSUME NEW e \in Entries, NEW s \in Seq(Nat), NEW d \in Seq(Nat), d # << >>,
           e.kind # "growing" => e.samples = << >>, CanAppend(e, d)
    PROVE  Extended(Appended(e, d, s), e, d, s)
<1> SUFFICES /\ Appended(e, d, s) \in Entries
             /\ Appended(e, d, s).kind = "growing"
             /\ Appended(e, d, s).samples = e.samples \o s
             /\ Appended(e, d, s).dims =
                   IF e.kind = "absent" THEN d
                   ELSE [e.dims EXCEPT ![Len(d)] = @ + d[Len(d)]]
  BY DEF Extended
<1>1. e.dims \in Seq(Nat) /\ e.samples \in Seq(Nat)
  BY DEF Entries
<1>2. e.samples \o s \in Seq(Nat)
  BY <1>1, ConcatProperties
<1>3. CASE e.kind = "absent"
  <2>1. e.samples = << >> /\ << >> \o s = s
    BY <1>3, ConcatEmptySeq
  <2> QED BY <1>3, <2>1 DEF Appended, Entries
<1>4. CASE e.kind # "absent"
  <2>1. e.kind = "growing" /\ Len(d) = Len(e.dims) /\ Len(d) \in 1 .. Len(e.dims)
    BY <1>1, <1>4, EmptySeq DEF CanAppend
  <2> DEFINE ds == [e.dims EXCEPT ![Len(d)] = @ + d[Len(d)]]
  <2>2. ds \in Seq(Nat)
    BY <1>1, <2>1
  <2>3. Appended(e, d, s) = [kind |-> "growing", dims |-> ds, samples |-> e.samples \o s]
    BY <1>4, <2>1 DEF Appended, Entries
  <2>4. ds = IF e.kind = "absent" THEN d ELSE [e.dims EXCEPT ![Len(d)] = @ + d[Len(d)]]
    BY <1>4
  <2> DEFINE r == [kind |-> "growing", dims |-> ds, samples |-> e.samples \o s]
  <2>5. r \in Entries /\ r.kind = "growing" /\ r.samples = e.samples \o s /\ r.dims = ds
    <3> HIDE DEF ds
    <3> QED BY <1>2, <2>2 DEF Entries
  <2>6. Appended(e, d, s) = r
    BY <2>3
  <2> HIDE DEF ds, r
  <2> QED BY <2>4, <2>5, <2>6
<1> QED BY <1>3, <1>4

-----------------------------------------------------------------------------
(* Types and sizes.                                                         *)

LEMMA DataQuiet == ASSUME DataInv, Quiet PROVE DataInv'
<1> USE DEF DataInv, Quiet
<1>1. DataTypes'
  BY DEF DataTypes
<1>2. SizeInv'
  BY DEF SizeInv
<1>3. EntryInv'
  BY DEF EntryInv
<1> QED BY <1>1, <1>2, <1>3

LEMMA DataAddSample == ASSUME FlagInv, DataInv, AddSample PROVE DataInv'
<1> USE DEF DataInv
<1>1. /\ target \in vars /\ target \in Vars /\ open[target] \in Seq(Nat)
      /\ added[target] + 1 \in Nat /\ Len(open[target]) < ChunkSize
  <2>1. /\ target \in vars /\ target \in Vars /\ added[target] < MaxSamples
        /\ added \in [Vars -> 0 .. MaxSamples] /\ Len(open[target]) < ChunkSize
    BY DEF FlagInv, AddSample
  <2>2. open[target] \in Seq(Nat)
    BY <2>1 DEF DataTypes
  <2> QED BY <2>1, <2>2
<1>2. /\ open' = [open EXCEPT ![target] = Append(@, added[target] + 1)]
      /\ UNCHANGED <<vars, sealed, lost, refused, block, file, flushPc>>
  BY DEF AddSample, mapVars, producerFrame, flushVars, fileVars
<1>3. /\ Append(open[target], added[target] + 1) \in Seq(Nat)
      /\ Len(Append(open[target], added[target] + 1)) = Len(open[target]) + 1
  BY <1>1, AppendProperties
<1>4. DataTypes'
  BY <1>1, <1>2, <1>3 DEF DataTypes
<1>5. \A v \in Vars : Len(open'[v]) <= ChunkSize
  BY <1>1, <1>2, <1>3 DEF DataTypes, SizeInv
<1>6. \A v \in Vars \ vars : open'[v] = open[v]
  BY <1>1, <1>2 DEF DataTypes
<1>7. SizeInv'
  BY <1>2, <1>5, <1>6 DEF SizeInv
<1>8. EntryInv'
  BY <1>2 DEF EntryInv
<1> QED BY <1>4, <1>7, <1>8

\* The full block behind the queued ones.
LEMMA FullBlock ==
    ASSUME DataInv, NEW v \in Vars, open[v] # << >>, NEW full, full = Append(sealed[v], open[v])
    PROVE  /\ full \in Seq(Seq(Nat)) /\ Len(full) = Len(sealed[v]) + 1
           /\ \A i \in 1 .. Len(full) : Len(full[i]) \in 1 .. ChunkSize
           /\ Tail(full) \in Seq(Seq(Nat)) /\ Len(Tail(full)) = Len(sealed[v])
           /\ \A i \in 1 .. Len(sealed[v]) : Len(Tail(full)[i]) \in 1 .. ChunkSize
           /\ Head(full) \in Seq(Nat)
<1>1. /\ sealed[v] \in Seq(Seq(Nat)) /\ open[v] \in Seq(Nat)
      /\ Len(sealed[v]) \in Nat /\ Len(open[v]) \in 1 .. ChunkSize
      /\ \A i \in 1 .. Len(sealed[v]) : Len(sealed[v][i]) \in 1 .. ChunkSize
  <2>1. sealed[v] \in Seq(Seq(Nat)) /\ open[v] \in Seq(Nat)
    BY DEF DataInv, DataTypes
  <2>2. Len(open[v]) \in Nat /\ Len(open[v]) # 0
    BY <2>1, EmptySeq
  <2>3. /\ Len(open[v]) <= ChunkSize
        /\ \A i \in 1 .. Len(sealed[v]) : Len(sealed[v][i]) \in 1 .. ChunkSize
    BY DEF DataInv, SizeInv
  <2>4. Len(open[v]) \in 1 .. ChunkSize /\ Len(sealed[v]) \in Nat
    BY <2>1, <2>2, <2>3
  <2> QED BY <2>1, <2>3, <2>4
<1>2. /\ full \in Seq(Seq(Nat)) /\ Len(full) = Len(sealed[v]) + 1
      /\ \A i \in 1 .. Len(sealed[v]) : full[i] = sealed[v][i]
      /\ full[Len(sealed[v]) + 1] = open[v]
  BY <1>1, AppendProperties
<1>3. \A i \in 1 .. Len(full) : Len(full[i]) \in 1 .. ChunkSize
  BY <1>1, <1>2
<1>4. full # << >>
  BY <1>1, <1>2, EmptySeq
<1>5. /\ Tail(full) \in Seq(Seq(Nat)) /\ Len(Tail(full)) = Len(sealed[v])
      /\ \A i \in 1 .. Len(sealed[v]) : Tail(full)[i] = full[i + 1]
      /\ Head(full) \in Seq(Nat)
  <2> HIDE DEF DataInv
  <2>1. /\ Head(full) \in Seq(Nat)
        /\ Tail(full) \in Seq(Seq(Nat)) /\ Len(Tail(full)) = Len(full) - 1
        /\ \A i \in 1 .. Len(Tail(full)) : Tail(full)[i] = full[i + 1]
    BY <1>2, <1>4, HeadTailProperties
  <2>2. Len(Tail(full)) = Len(sealed[v])
    BY <1>1, <1>2, <2>1
  <2> QED BY <2>1, <2>2
<1>6. \A i \in 1 .. Len(sealed[v]) : Len(Tail(full)[i]) \in 1 .. ChunkSize
  <2> TAKE i \in 1 .. Len(sealed[v])
  <2>1. i + 1 \in 1 .. Len(full)
    BY <1>1, <1>2
  <2> QED BY <1>3, <1>5, <2>1
<1> QED BY <1>2, <1>3, <1>5, <1>6

LEMMA DataSealBlock == ASSUME FlagInv, DataInv, SealBlock PROVE DataInv'
<1>1. /\ target \in vars /\ target \in Vars /\ Len(open[target]) = ChunkSize
      /\ open[target] # << >>
  <2>1. target \in vars /\ target \in Vars /\ Len(open[target]) = ChunkSize
    BY DEF FlagInv, SealBlock
  <2> QED BY <2>1, EmptySeq
<1>2. /\ open' = [open EXCEPT ![target] = << >>]
      /\ UNCHANGED <<vars, refused, block, file, flushPc>>
  BY DEF SealBlock, mapVars, producerFrame, flushVars, fileVars
<1> DEFINE full == Append(sealed[target], open[target])
<1>3. \/ /\ HasRoom(target) /\ sealed' = [sealed EXCEPT ![target] = full]
         /\ UNCHANGED lost
      \/ /\ ~ HasRoom(target) /\ sealed' = [sealed EXCEPT ![target] = Tail(full)]
         /\ lost' = [lost EXCEPT ![target] = @ + Len(Head(full))]
      \/ /\ lost' = [lost EXCEPT ![target] = @ + ChunkSize]
         /\ UNCHANGED sealed
  BY DEF SealBlock
<1>4. /\ full \in Seq(Seq(Nat)) /\ Len(full) = Len(sealed[target]) + 1
      /\ \A i \in 1 .. Len(full) : Len(full[i]) \in 1 .. ChunkSize
      /\ Tail(full) \in Seq(Seq(Nat)) /\ Len(Tail(full)) = Len(sealed[target])
      /\ \A i \in 1 .. Len(sealed[target]) : Len(Tail(full)[i]) \in 1 .. ChunkSize
      /\ Head(full) \in Seq(Nat)
  <2> HIDE DEF full
  <2>1. full = Append(sealed[target], open[target])
    BY DEF full
  <2> QED BY <1>1, <2>1, FullBlock
<1> HIDE DEF full
<1>5. /\ << >> \in Seq(Nat) /\ Len(<< >>) = 0 /\ Len(Head(full)) \in Nat
      /\ Chunks \in Nat /\ Chunks >= 2 /\ ChunkSize \in Nat \ {0}
  BY <1>4
<1>6. /\ open \in [Vars -> Seq(Nat)] /\ sealed \in [Vars -> Seq(Seq(Nat))]
      /\ lost \in [Vars -> Nat] /\ \A v \in Vars : Len(sealed[v]) \in Nat
  BY DEF DataInv, DataTypes
<1>7. /\ sealed' \in [Vars -> Seq(Seq(Nat))]
      /\ \A v \in Vars : v # target => sealed'[v] = sealed[v]
      /\ \/ sealed'[target] = sealed[target] \/ sealed'[target] = Tail(full)
         \/ HasRoom(target) /\ sealed'[target] = full
  <2>a. full \in Seq(Seq(Nat)) /\ Tail(full) \in Seq(Seq(Nat)) /\ target \in Vars
    BY <1>1, <1>4
  <2>1. CASE HasRoom(target) /\ sealed' = [sealed EXCEPT ![target] = full]
    BY <1>6, <2>a, <2>1
  <2>2. CASE sealed' = [sealed EXCEPT ![target] = Tail(full)]
    BY <1>6, <2>a, <2>2
  <2>3. CASE sealed' = sealed
    BY <1>6, <2>3
  <2> QED BY <1>3, <2>1, <2>2, <2>3
<1>8. open' \in [Vars -> Seq(Nat)] /\ \A v \in Vars : open'[v] = IF v = target THEN << >> ELSE open[v]
  BY <1>1, <1>2, <1>5, <1>6
<1>9. lost' \in [Vars -> Nat]
  <2>1. lost[target] + Len(Head(full)) \in Nat /\ lost[target] + ChunkSize \in Nat
    BY <1>1, <1>5, <1>6
  <2> QED BY <1>1, <1>3, <1>6, <2>1
<1>10. DataTypes'
  BY <1>2, <1>7, <1>8, <1>9 DEF DataInv, DataTypes
<1>11. ASSUME NEW v \in Vars
       PROVE  /\ Len(open'[v]) <= ChunkSize /\ Len(sealed'[v]) < Chunks
              /\ \A i \in 1 .. Len(sealed'[v]) : Len(sealed'[v][i]) \in 1 .. ChunkSize
  <2>1. /\ Len(open[v]) <= ChunkSize /\ Len(sealed[v]) < Chunks
        /\ \A i \in 1 .. Len(sealed[v]) : Len(sealed[v][i]) \in 1 .. ChunkSize
    BY DEF DataInv, SizeInv
  <2>2. CASE v # target
    BY <1>7, <1>8, <2>1, <2>2
  <2>3. CASE v = target
    <3>1. Len(open'[v]) <= ChunkSize
      BY <1>5, <1>8, <2>3
    <3>2. CASE sealed'[target] = sealed[target]
      BY <2>1, <2>3, <3>1, <3>2
    <3>3. CASE sealed'[target] = Tail(full)
      BY <1>4, <2>1, <2>3, <3>1, <3>3
    <3>4. CASE HasRoom(target) /\ sealed'[target] = full
      <4>1. Len(full) < Chunks
        BY <1>4, <1>5, <1>6, <1>1, <3>4 DEF HasRoom
      <4> QED BY <1>4, <2>3, <3>1, <3>4, <4>1
    <3> QED BY <1>7, <3>2, <3>3, <3>4
  <2> QED BY <2>2, <2>3
<1>12. \A v \in Vars \ vars : open'[v] = open[v] /\ sealed'[v] = sealed[v]
  BY <1>1, <1>7, <1>8
<1>13. SizeInv'
  BY <1>2, <1>11, <1>12 DEF DataInv, SizeInv
<1>14. EntryInv'
  BY <1>2 DEF DataInv, EntryInv
<1> QED BY <1>10, <1>13, <1>14 DEF DataInv

LEMMA DataWriteStruct == ASSUME DataInv, WriteStruct PROVE DataInv'
<1>1. /\ UNCHANGED <<vars, open, sealed, lost, refused, block, flushPc>>
      /\ \/ UNCHANGED file
         \/ file' = [file EXCEPT ![Head(matq)] = Whole]
  BY DEF WriteStruct, mapVars, flushVars, flusherFrame
<1>2. Whole \in Entries /\ Whole.samples = << >>
  BY DEF Whole, Entries
<1>3. DataTypes'
  BY <1>1, <1>2 DEF DataInv, DataTypes
<1>4. SizeInv'
  BY <1>1 DEF DataInv, SizeInv
<1>5. EntryInv'
  BY <1>1, <1>2 DEF DataInv, DataTypes, EntryInv
<1> QED BY <1>3, <1>4, <1>5 DEF DataInv

\* What is left when the oldest block is taken.
LEMMA OldestBlock ==
    ASSUME DataInv, NEW v \in Vars, sealed[v] # << >>
    PROVE  /\ Head(sealed[v]) \in Seq(Nat) /\ Len(Head(sealed[v])) \in 1 .. ChunkSize
           /\ Tail(sealed[v]) \in Seq(Seq(Nat)) /\ Len(Tail(sealed[v])) = Len(sealed[v]) - 1
           /\ \A i \in 1 .. Len(Tail(sealed[v])) :
                  Tail(sealed[v])[i] = sealed[v][i + 1] /\ i + 1 \in 1 .. Len(sealed[v])
           /\ Head(sealed[v]) = sealed[v][1] /\ Len(sealed[v]) \in Nat \ {0}
<1>1. sealed[v] \in Seq(Seq(Nat)) /\ Len(sealed[v]) \in Nat \ {0}
  BY EmptySeq DEF DataInv, DataTypes
<1>2. \A i \in 1 .. Len(sealed[v]) : Len(sealed[v][i]) \in 1 .. ChunkSize
  BY DEF DataInv, SizeInv
<1>3. /\ Head(sealed[v]) \in Seq(Nat) /\ Head(sealed[v]) = sealed[v][1]
      /\ Tail(sealed[v]) \in Seq(Seq(Nat)) /\ Len(Tail(sealed[v])) = Len(sealed[v]) - 1
      /\ \A i \in 1 .. Len(Tail(sealed[v])) : Tail(sealed[v])[i] = sealed[v][i + 1]
  BY <1>1, HeadTailProperties
<1> QED BY <1>1, <1>2, <1>3

LEMMA DataReadBlock == ASSUME UniformInv, DataInv, ReadBlock PROVE DataInv'
<1>1. /\ UNCHANGED <<vars, open, lost, refused, file>>
      /\ sealed' = [sealed EXCEPT ![at] = Tail(@)] /\ block' = Head(sealed[at])
      /\ sealed[at] # << >> /\ at \in vars /\ at \in Vars
  BY DEF ReadBlock, mapVars, fileVars, flusherFrame, UniformInv, ModeInv, CallbackInv
<1>2. /\ Head(sealed[at]) \in Seq(Nat) /\ Len(Head(sealed[at])) \in 1 .. ChunkSize
      /\ Tail(sealed[at]) \in Seq(Seq(Nat)) /\ Len(Tail(sealed[at])) = Len(sealed[at]) - 1
      /\ \A i \in 1 .. Len(Tail(sealed[at])) :
            Tail(sealed[at])[i] = sealed[at][i + 1] /\ i + 1 \in 1 .. Len(sealed[at])
      /\ Len(sealed[at]) \in Nat
  BY <1>1, OldestBlock
<1>3. sealed \in [Vars -> Seq(Seq(Nat))]
  BY DEF DataInv, DataTypes
<1>4. \A v \in Vars : sealed'[v] = IF v = at THEN Tail(sealed[at]) ELSE sealed[v]
  BY <1>1, <1>3
<1>5. DataTypes'
  BY <1>1, <1>2 DEF DataInv, DataTypes
<1>6. ASSUME NEW v \in Vars
      PROVE  /\ Len(open'[v]) <= ChunkSize /\ Len(sealed'[v]) < Chunks
             /\ \A i \in 1 .. Len(sealed'[v]) : Len(sealed'[v][i]) \in 1 .. ChunkSize
  <2>1. /\ Len(open[v]) <= ChunkSize /\ Len(sealed[v]) < Chunks
        /\ \A i \in 1 .. Len(sealed[v]) : Len(sealed[v][i]) \in 1 .. ChunkSize
    BY DEF DataInv, SizeInv
  <2>2. CASE v # at
    BY <1>1, <1>4, <2>1, <2>2
  <2>3. CASE v = at
    BY <1>1, <1>2, <1>4, <2>1, <2>3
  <2> QED BY <2>2, <2>3
<1>7. \A v \in Vars \ vars : sealed'[v] = sealed[v]
  BY <1>1, <1>4
<1>8. SizeInv'
  BY <1>1, <1>2, <1>6, <1>7 DEF DataInv, SizeInv
<1>9. EntryInv'
  BY <1>1 DEF DataInv, EntryInv
<1> QED BY <1>5, <1>8, <1>9 DEF DataInv

LEMMA DimsType ==
    ASSUME NEW v, NEW n \in Nat
    PROVE  Dims(v, n) \in Seq(Nat) /\ Dims(v, n) # << >>
<1>1. Rows \in Nat /\ Cols \in Nat
  OBVIOUS
<1>2. ASSUME NEW r \in Nat, NEW c \in Nat, NEW k \in Nat
      PROVE  BlockDims(r, c, k) \in Seq(Nat) /\ BlockDims(r, c, k) # << >>
  <2>1. <<r, c>> \in Seq(Nat) /\ <<r, c, k>> \in Seq(Nat) /\ <<r, c>> # << >> /\ <<r, c, k>> # << >>
    OBVIOUS
  <2> QED BY <2>1 DEF BlockDims
<1> QED BY <1>1, <1>2 DEF Dims

\* Both outcomes of a write.
LEMMA WriteBlockEffect ==
    ASSUME UniformInv, DataInv, WriteBlock
    PROVE  /\ at \in vars /\ at \in Vars /\ at \in Names /\ Len(block) \in 1 .. ChunkSize
           /\ block' = << >> /\ flushPc' = "read" /\ flushPc = "write"
           /\ UNCHANGED <<vars, open, sealed, lost, at, added, life>>
           /\ \/ /\ UNCHANGED refused
                 /\ file' = [file EXCEPT ![at] = Appended(file[at], Dims(at, Len(block)), block)]
                 /\ CanAppend(file[at], Dims(at, Len(block)))
                 /\ Appended(file[at], Dims(at, Len(block)), block) \in Entries
                 /\ Appended(file[at], Dims(at, Len(block)), block).kind = "growing"
                 /\ Appended(file[at], Dims(at, Len(block)), block).samples
                       = file[at].samples \o block
              \/ /\ refused' = [refused EXCEPT ![at] = @ + Len(block)]
                 /\ UNCHANGED file
<1>1. /\ at \in vars /\ at \in Vars /\ at \in Names /\ Len(block) \in 1 .. ChunkSize
      /\ flushPc = "write"
  BY DEF WriteBlock, UniformInv, ModeInv, CallbackInv, DataInv, SizeInv, Names
<1>2. /\ block' = << >> /\ flushPc' = "read"
      /\ UNCHANGED <<vars, open, sealed, lost, at, added, life>>
  BY DEF WriteBlock, mapVars, flusherFrame, prodVars, ownerVars
<1>3. \/ /\ CanAppend(file[at], Dims(at, Len(block))) /\ UNCHANGED refused
         /\ file' = [file EXCEPT ![at] = Appended(@, Dims(at, Len(block)), block)]
      \/ /\ refused' = [refused EXCEPT ![at] = @ + Len(block)]
         /\ UNCHANGED file
  BY DEF WriteBlock
<1>4. CASE /\ CanAppend(file[at], Dims(at, Len(block))) /\ UNCHANGED refused
           /\ file' = [file EXCEPT ![at] = Appended(@, Dims(at, Len(block)), block)]
  <2>1. Dims(at, Len(block)) \in Seq(Nat) /\ Dims(at, Len(block)) # << >>
    <3>1. Len(block) \in Nat
      BY <1>1
    <3> QED BY <3>1, DimsType
  <2>2. /\ file[at] \in Entries /\ block \in Seq(Nat)
        /\ (file[at].kind # "growing" => file[at].samples = << >>)
    BY <1>1 DEF DataInv, DataTypes, EntryInv
  <2>3. /\ Appended(file[at], Dims(at, Len(block)), block) \in Entries
        /\ Appended(file[at], Dims(at, Len(block)), block).kind = "growing"
        /\ Appended(file[at], Dims(at, Len(block)), block).samples = file[at].samples \o block
    <3> DEFINE e == file[at]
               d == Dims(at, Len(block))
    <3>1. /\ d \in Seq(Nat) /\ d # << >> /\ e \in Entries /\ CanAppend(e, d)
          /\ (e.kind # "growing" => e.samples = << >>)
      BY <1>4, <2>1, <2>2
    <3> HIDE DEF e, d
    <3>2. /\ Appended(e, d, block) \in Entries /\ Appended(e, d, block).kind = "growing"
          /\ Appended(e, d, block).samples = e.samples \o block
      <4>1. block \in Seq(Nat)
        BY <2>2
      <4>2. Extended(Appended(e, d, block), e, d, block)
        BY <3>1, <4>1, AppendedEntry
      <4> QED BY <4>2 DEF Extended
    <3> QED BY <3>2 DEF e, d
  <2> QED BY <1>1, <1>2, <1>4, <2>3
<1> QED BY <1>1, <1>2, <1>3, <1>4

LEMMA DataWriteBlock == ASSUME UniformInv, DataInv, WriteBlock PROVE DataInv'
<1> DEFINE new == Appended(file[at], Dims(at, Len(block)), block)
<1>1. /\ at \in Vars /\ at \in Names /\ Len(block) \in 1 .. ChunkSize
      /\ block' = << >> /\ flushPc' = "read"
      /\ UNCHANGED <<vars, open, sealed, lost>>
      /\ \/ /\ UNCHANGED refused /\ file' = [file EXCEPT ![at] = new]
            /\ new \in Entries /\ new.kind = "growing"
         \/ /\ refused' = [refused EXCEPT ![at] = @ + Len(block)]
            /\ UNCHANGED file
  BY WriteBlockEffect
<1> HIDE DEF new
<1>2. << >> \in Seq(Nat)
  OBVIOUS
<1>3. DataTypes'
  <2>1. file \in [Names -> Entries] /\ refused \in [Vars -> Nat] /\ Len(block) \in Nat
    BY DEF DataInv, DataTypes
  <2>2. file' \in [Names -> Entries]
    BY <1>1, <2>1
  <2>3. refused[at] + Len(block) \in Nat
    BY <1>1, <2>1
  <2>4. refused' \in [Vars -> Nat]
    BY <1>1, <2>1, <2>3
  <2> QED BY <1>1, <1>2, <2>2, <2>4 DEF DataInv, DataTypes
<1>4. SizeInv'
  BY <1>1 DEF DataInv, SizeInv
<1>5. EntryInv'
  BY <1>1 DEF DataInv, DataTypes, EntryInv
<1> QED BY <1>3, <1>4, <1>5 DEF DataInv

LEMMA DataSealAll == ASSUME DataInv, SealAll PROVE DataInv'
<1>1. /\ open' = [v \in Vars |-> IF CanSeal(v) THEN << >> ELSE open[v]]
      /\ sealed' = [v \in Vars |-> IF open[v] # << >> /\ CanSeal(v)
                                    THEN Append(sealed[v], open[v]) ELSE sealed[v]]
      /\ UNCHANGED <<vars, lost, refused, block, file, flushPc>>
  BY DEF SealAll, Sealing, mapVars, ownerFrame, flushVars, fileVars
<1>2. /\ open \in [Vars -> Seq(Nat)] /\ sealed \in [Vars -> Seq(Seq(Nat))]
      /\ \A v \in Vars : Len(sealed[v]) \in Nat
  BY DEF DataInv, DataTypes
<1>3. ASSUME NEW v \in Vars
      PROVE  /\ open'[v] \in {open[v], << >>}
             /\ \/ sealed'[v] = sealed[v]
                \/ open[v] # << >> /\ HasRoom(v) /\ sealed'[v] = Append(sealed[v], open[v])
  BY <1>1 DEF CanSeal
<1>4. ASSUME NEW v \in Vars
      PROVE  /\ open'[v] \in Seq(Nat) /\ sealed'[v] \in Seq(Seq(Nat))
             /\ Len(open'[v]) <= ChunkSize /\ Len(sealed'[v]) < Chunks
             /\ \A i \in 1 .. Len(sealed'[v]) : Len(sealed'[v][i]) \in 1 .. ChunkSize
  <2>1. /\ Len(open[v]) <= ChunkSize /\ Len(sealed[v]) < Chunks
        /\ \A i \in 1 .. Len(sealed[v]) : Len(sealed[v][i]) \in 1 .. ChunkSize
        /\ open[v] \in Seq(Nat) /\ sealed[v] \in Seq(Seq(Nat))
    BY <1>2 DEF DataInv, SizeInv
  <2>2. << >> \in Seq(Nat) /\ Len(<< >>) = 0
    OBVIOUS
  <2>3. open'[v] \in Seq(Nat) /\ Len(open'[v]) <= ChunkSize
    <3>1. CASE open'[v] = open[v]
      BY <2>1, <3>1
    <3>2. CASE open'[v] = << >>
      <4>1. 0 <= ChunkSize
        OBVIOUS
      <4> QED BY <2>2, <3>2, <4>1
    <3> QED BY <1>3, <3>1, <3>2
  <2>4. CASE sealed'[v] = sealed[v]
    BY <2>1, <2>3, <2>4
  <2>5. CASE open[v] # << >> /\ HasRoom(v) /\ sealed'[v] = Append(sealed[v], open[v])
    <3>1. /\ sealed'[v] \in Seq(Seq(Nat)) /\ Len(sealed'[v]) = Len(sealed[v]) + 1
          /\ \A i \in 1 .. Len(sealed'[v]) : Len(sealed'[v][i]) \in 1 .. ChunkSize
      BY <2>5, FullBlock
    <3>2. Len(sealed[v]) < Chunks - 1
      BY <2>5 DEF HasRoom
    <3>3. Len(sealed'[v]) < Chunks
      BY <1>2, <3>1, <3>2
    <3> QED BY <2>3, <3>1, <3>3
  <2> QED BY <1>3, <2>4, <2>5
<1>5. DataTypes'
  <2>1. open' \in [Vars -> Seq(Nat)] /\ sealed' \in [Vars -> Seq(Seq(Nat))]
    <3>1. open' = [v \in Vars |-> open'[v]] /\ sealed' = [v \in Vars |-> sealed'[v]]
      BY <1>1
    <3> QED BY <1>4, <3>1
  <2> QED BY <1>1, <2>1 DEF DataInv, DataTypes
<1>6. \A v \in Vars \ vars : open'[v] = open[v] /\ sealed'[v] = sealed[v]
  BY <1>3 DEF DataInv, SizeInv
<1>7. SizeInv'
  BY <1>1, <1>4, <1>6 DEF DataInv, SizeInv
<1>8. EntryInv'
  BY <1>1 DEF DataInv, EntryInv
<1> QED BY <1>5, <1>7, <1>8 DEF DataInv

LEMMA DataNext ==
    ASSUME UniformInv, FlagInv, DataInv, [Next]_allVars
    PROVE  DataInv'
BY DataSteps, DataQuiet, DataAddSample, DataSealBlock, DataWriteStruct, DataReadBlock,
   DataWriteBlock, DataSealAll

\* Mutexes, positions, sizes and types together.
ControlInv == UniformInv /\ FlagInv /\ DataInv

LEMMA ControlInvariant == Spec => []ControlInv
<1>1. Init => ControlInv
  BY UniformInit, FlagInit, DataInit DEF ControlInv
<1>2. ControlInv /\ [Next]_allVars => ControlInv'
  BY UniformNext, FlagNext, DataNext DEF ControlInv
<1> QED BY <1>1, <1>2, PTL DEF Spec

\* Every variable of MatLogger keeps its type, and no buffer outgrows its blocks.
THEOREM Typing == Spec => []TypeOK
<1>1. ControlInv => TypeOK
  <2> SUFFICES ASSUME ControlInv PROVE TypeOK
    OBVIOUS
  <2>1. /\ vars \subseteq Vars /\ cb \in [Vars -> BOOLEAN]
        /\ vmode \in [Vars -> {"producer_consumer", "circular_buffer"}]
        /\ callback \in BOOLEAN /\ mode \in {"producer_consumer", "circular_buffer"}
        /\ ownerPc \in {"idle", "assign"} /\ assign \subseteq vars
    BY DEF ControlInv, UniformInv, CallbackInv, ModeInv
  <2>2. /\ varsLock \in {Nobody, "flush", "owner"} /\ matLock \in {Nobody, "flush"}
        /\ life \in {"alive", "seal", "room", "drain", "drained", "closed"}
        /\ prodPc \in {"idle", "add", "create", "callback"} /\ target \in Vars \cup {None}
        /\ flushPc \in {"idle", "structs", "lock", "walk", "read", "write", "threw"}
        /\ todo \subseteq vars /\ at \in Vars \cup {None} /\ bytes \in BOOLEAN
        /\ wasCircular \in BOOLEAN /\ added \in [Vars -> 0 .. MaxSamples]
    BY DEF ControlInv, FlagInv
  <2>3. ASSUME NEW v \in Vars
        PROVE  /\ Len(open[v]) <= ChunkSize /\ Len(sealed[v]) < Chunks
               /\ \A i \in DOMAIN sealed[v] : Len(sealed[v][i]) \in 1 .. ChunkSize
    <3>1. sealed[v] \in Seq(Seq(Nat))
      BY DEF ControlInv, DataInv, DataTypes
    <3>2. DOMAIN sealed[v] = 1 .. Len(sealed[v])
      BY <3>1
    <3> QED BY <3>2 DEF ControlInv, DataInv, SizeInv
  <2> QED BY <2>1, <2>2, <2>3 DEF TypeOK
<1> QED BY <1>1, ControlInvariant, PTL

-----------------------------------------------------------------------------
(* What the steps do to the samples of a variable, from the entry in the    *)
(* file to the current block.                                               *)

Written(v) == file[v].samples
Held(v)    == IF at = v THEN block ELSE << >>
Queued(v)  == FlattenSeq(sealed[v])

Moved(v) == Cat(Cat(Written(v), Held(v)), Queued(v))

LEMMA Parts ==
    ASSUME ControlInv, NEW v \in Vars
    PROVE  /\ Pipeline(v) = Cat(Cat(Cat(Written(v), Held(v)), Queued(v)), open[v])
           /\ Written(v) \in Seq(Nat) /\ Held(v) \in Seq(Nat) /\ Queued(v) \in Seq(Nat)
           /\ open[v] \in Seq(Nat) /\ sealed[v] \in Seq(Seq(Nat))
           /\ Cat(Written(v), Held(v)) \in Seq(Nat)
           /\ Cat(Cat(Written(v), Held(v)), Queued(v)) \in Seq(Nat)
           /\ Pipeline(v) \in Seq(Nat)
<1>1. /\ file[v] \in Entries /\ block \in Seq(Nat) /\ << >> \in Seq(Nat)
      /\ open[v] \in Seq(Nat) /\ sealed[v] \in Seq(Seq(Nat))
  BY DEF ControlInv, DataInv, DataTypes, Names
<1>2. Written(v) \in Seq(Nat)
  BY <1>1 DEF Entries, Written
<1>3. Held(v) \in Seq(Nat)
  BY <1>1 DEF Held
<1>4. Queued(v) \in Seq(Nat)
  BY <1>1, FlattenCat DEF Queued
<1>5. Cat(Written(v), Held(v)) \in Seq(Nat)
  BY <1>2, <1>3, CatElements
<1>6. Cat(Cat(Written(v), Held(v)), Queued(v)) \in Seq(Nat)
  BY <1>4, <1>5, CatElements
<1>7. Cat(Cat(Cat(Written(v), Held(v)), Queued(v)), open[v]) \in Seq(Nat)
  BY <1>1, <1>6, CatElements
<1>8. Pipeline(v) = Cat(Cat(Cat(Written(v), Held(v)), Queued(v)), open[v])
  BY DEF Pipeline, Cat, Written, Held, Queued
<1> QED BY <1>1, <1>2, <1>3, <1>4, <1>5, <1>6, <1>7, <1>8

PartsOf(v) == Pipeline(v) = Cat(Cat(Cat(Written(v), Held(v)), Queued(v)), open[v])

LEMMA PartsNext == ASSUME NEW v PROVE PartsOf(v)'
BY DEF PartsOf, Pipeline, Cat, Written, Held, Queued

\* The five things that can happen to them.
SameCounts(v) == UNCHANGED <<added[v], lost[v], refused[v]>>

Kept(v) == Pipeline(v)' = Pipeline(v) /\ SameCounts(v)

Grown(v) ==
    /\ Pipeline(v)' = Append(Pipeline(v), added[v] + 1)
    /\ added'[v] = added[v] + 1 /\ UNCHANGED <<lost[v], refused[v]>>

\* Circular mode: the oldest block in the buffer is gone.
Overwritten(v) ==
    /\ vmode[v] = "circular_buffer" /\ UNCHANGED <<added[v], refused[v]>>
    /\ \E b, c \in Seq(Nat) :
          /\ Pipeline(v) = Cat(Cat(Cat(Written(v), Held(v)), b), c)
          /\ Pipeline(v)' = Cat(Cat(Written(v), Held(v)), c)
          /\ lost'[v] = lost[v] + Len(b)

\* Producer-consumer mode: the newest block is gone.
Discarded(v) ==
    /\ vmode[v] = "producer_consumer" /\ UNCHANGED <<added[v], refused[v]>>
    /\ \E a, b \in Seq(Nat) :
          /\ Pipeline(v) = Cat(a, b) /\ Pipeline(v)' = a
          /\ lost'[v] = lost[v] + Len(b)

\* The block that was being written is gone.
Refused(v) ==
    /\ UNCHANGED <<added[v], lost[v]>>
    /\ \E a, b, c \in Seq(Nat) :
          /\ Pipeline(v) = Cat(Cat(a, b), c) /\ Pipeline(v)' = Cat(a, c)
          /\ refused'[v] = refused[v] + Len(b) /\ Len(b) >= 1

LEMMA FlowQuiet == ASSUME ControlInv, Quiet, NEW v \in Vars PROVE Kept(v)
<1>1. Held(v)' = Held(v)
  BY DEF Quiet, Held
<1>2. Written(v)' = Written(v) /\ Queued(v)' = Queued(v) /\ open'[v] = open[v] /\ SameCounts(v)
  BY DEF Quiet, Written, Queued, SameCounts
<1>3. PartsOf(v)'
  BY PartsNext
<1> QED BY <1>1, <1>2, <1>3, Parts DEF PartsOf, Kept

LEMMA FlowAddSample == ASSUME ControlInv, AddSample, NEW v \in Vars PROVE Kept(v) \/ Grown(v)
<1>1. Held(v)' = Held(v) /\ Written(v)' = Written(v) /\ Queued(v)' = Queued(v)
  BY DEF AddSample, producerFrame, fileVars, flushVars, Held, Written, Queued
<1>2. /\ open' = [open EXCEPT ![target] = Append(@, added[target] + 1)]
      /\ added' = [added EXCEPT ![target] = @ + 1] /\ UNCHANGED <<lost, refused>>
      /\ open \in [Vars -> Seq(Nat)] /\ added \in [Vars -> 0 .. MaxSamples]
  BY DEF AddSample, producerFrame, fileVars, ControlInv, FlagInv, DataInv, DataTypes
<1>3. Pipeline(v)' = Cat(Moved(v), open'[v]) /\ Pipeline(v) = Cat(Moved(v), open[v])
  BY <1>1, Parts, PartsNext DEF PartsOf, Moved
<1>4. Moved(v) \in Seq(Nat) /\ open[v] \in Seq(Nat) /\ added[v] + 1 \in Nat
  BY <1>2, Parts DEF Moved
<1>5. CASE v # target
  BY <1>2, <1>3, <1>5 DEF Kept, SameCounts
<1>6. CASE v = target
  <2>1. open'[v] = Append(open[v], added[v] + 1) /\ added'[v] = added[v] + 1
    BY <1>2, <1>6
  <2>2. Cat(Moved(v), Append(open[v], added[v] + 1)) = Append(Cat(Moved(v), open[v]), added[v] + 1)
    <3>1. \A m, o \in Seq(Nat), x \in Nat : Cat(m, Append(o, x)) = Append(Cat(m, o), x)
      BY CatAppend
    <3> QED BY <1>4, <3>1
  <2> QED BY <1>2, <1>3, <2>1, <2>2 DEF Grown
<1> QED BY <1>5, <1>6

LEMMA FlowSealBlock ==
    ASSUME ControlInv, SealBlock, NEW v \in Vars
    PROVE  Kept(v) \/ Overwritten(v) \/ Discarded(v)
<1>1. Held(v)' = Held(v) /\ Written(v)' = Written(v)
  BY DEF SealBlock, producerFrame, fileVars, flushVars, Held, Written
<1> DEFINE full == Append(sealed[target], open[target])
           X == Cat(Written(v), Held(v))
<1>2. /\ open' = [open EXCEPT ![target] = << >>] /\ UNCHANGED <<added, refused>>
      /\ Len(open[target]) = ChunkSize /\ target \in Vars
      /\ \/ sealed' = [sealed EXCEPT ![target] = full] /\ UNCHANGED lost
         \/ /\ vmode[target] = "circular_buffer" /\ sealed' = [sealed EXCEPT ![target] = Tail(full)]
            /\ lost' = [lost EXCEPT ![target] = @ + Len(Head(full))]
         \/ /\ vmode[target] = "producer_consumer" /\ UNCHANGED sealed
            /\ lost' = [lost EXCEPT ![target] = @ + ChunkSize]
  BY DEF SealBlock, producerFrame, fileVars, ControlInv, FlagInv
<1>3. /\ open \in [Vars -> Seq(Nat)] /\ sealed \in [Vars -> Seq(Seq(Nat))]
      /\ lost \in [Vars -> Nat]
  BY DEF ControlInv, DataInv, DataTypes
<1>4. /\ X \in Seq(Nat) /\ Queued(v) \in Seq(Nat) /\ open[v] \in Seq(Nat)
      /\ Pipeline(v) = Cat(Cat(X, Queued(v)), open[v]) /\ Cat(X, Queued(v)) \in Seq(Nat)
      /\ Pipeline(v)' = Cat(Cat(X, Queued(v)'), open'[v])
  BY <1>1, Parts, PartsNext DEF PartsOf
<1> HIDE DEF X
<1>5. CASE v # target
  <2>1. open'[v] = open[v] /\ sealed'[v] = sealed[v] /\ lost'[v] = lost[v]
    BY <1>2, <1>3, <1>5
  <2>2. Queued(v)' = Queued(v)
    BY <2>1 DEF Queued
  <2> QED BY <1>2, <1>4, <2>1, <2>2 DEF Kept, SameCounts
<1>6. CASE v = target
  <2>0. open'[v] = << >>
    BY <1>2, <1>3, <1>6
  <2>1. full \in Seq(Seq(Nat)) /\ full # << >> /\ FlattenSeq(full) = Cat(Queued(v), open[v])
    <3>1. sealed[v] \in Seq(Seq(Nat)) /\ full = Append(sealed[v], open[v])
      BY <1>3, <1>6
    <3> HIDE DEF full
    <3>2. FlattenSeq(full) = Cat(FlattenSeq(sealed[v]), open[v])
      BY <1>4, <3>1, FlattenCat
    <3>3. full \in Seq(Seq(Nat)) /\ full # << >>
      <4>1. sealed[v] \in Seq(Seq(Nat)) /\ open[v] \in Seq(Nat)
        BY <1>4, <3>1
      <4>2. Append(sealed[v], open[v]) \in Seq(Seq(Nat))
        BY <4>1, AppendProperties
      <4>3. Append(sealed[v], open[v]) # << >>
        BY <4>1, AppendProperties
      <4> QED BY <3>1, <4>2, <4>3
    <3> QED BY <3>2, <3>3 DEF Queued
  <2>2. CASE sealed' = [sealed EXCEPT ![target] = full] /\ UNCHANGED lost
    <3>1. Queued(v)' = Cat(Queued(v), open[v])
      BY <1>3, <1>6, <2>1, <2>2 DEF Queued
    <3>2. Cat(Cat(X, Cat(Queued(v), open[v])), << >>) = Cat(X, Cat(Queued(v), open[v]))
      <4>1. Cat(Queued(v), open[v]) \in Seq(Nat)
        BY <1>4, CatElements
      <4>2. Cat(X, Cat(Queued(v), open[v])) \in Seq(Nat)
        BY <1>4, <4>1, CatElements
      <4> QED BY <4>2, CatEmpty
    <3>3. Cat(Cat(X, Queued(v)), open[v]) = Cat(X, Cat(Queued(v), open[v]))
      BY <1>4, CatAssociative
    <3> QED BY <1>2, <1>4, <2>0, <2>2, <3>1, <3>2, <3>3 DEF Kept, SameCounts
  <2>3. CASE /\ vmode[target] = "circular_buffer" /\ sealed' = [sealed EXCEPT ![target] = Tail(full)]
             /\ lost' = [lost EXCEPT ![target] = @ + Len(Head(full))]
    <3>1. Queued(v)' = FlattenSeq(Tail(full)) /\ lost'[v] = lost[v] + Len(Head(full))
      BY <1>3, <1>6, <2>3 DEF Queued
    <3>2. FlattenSeq(full) = Cat(Head(full), FlattenSeq(Tail(full)))
      BY <2>1, FlattenCat
    <3>3. Head(full) \in Seq(Nat) /\ FlattenSeq(Tail(full)) \in Seq(Nat)
      <4> HIDE DEF full
      <4>1. Head(full) \in Seq(Nat) /\ Tail(full) \in Seq(Seq(Nat))
        BY <2>1, HeadTailProperties
      <4> QED BY <4>1, FlattenCat
    <3> DEFINE b == Head(full)
               c == FlattenSeq(Tail(full))
    <3> HIDE DEF b, c, full
    <3>4. /\ b \in Seq(Nat) /\ c \in Seq(Nat) /\ Cat(Queued(v), open[v]) = Cat(b, c)
          /\ Queued(v)' = c /\ lost'[v] = lost[v] + Len(b)
      BY <2>1, <3>1, <3>2, <3>3 DEF b, c
    <3>5. Cat(Cat(X, Queued(v)), open[v]) = Cat(X, Cat(Queued(v), open[v]))
      BY <1>4, CatAssociative
    <3>6. Cat(Cat(X, b), c) = Cat(X, Cat(b, c))
      BY <1>4, <3>4, CatAssociative
    <3>7. Cat(Cat(X, c), << >>) = Cat(X, c)
      <4>1. Cat(X, c) \in Seq(Nat)
        BY <1>4, <3>4, CatElements
      <4> QED BY <4>1, CatEmpty
    <3>8. Pipeline(v) = Cat(Cat(X, b), c) /\ Pipeline(v)' = Cat(X, c)
      BY <1>4, <2>0, <3>4, <3>5, <3>6, <3>7
    <3> QED BY <1>2, <1>6, <2>3, <3>4, <3>8 DEF Overwritten, X
  <2>4. CASE /\ vmode[target] = "producer_consumer" /\ UNCHANGED sealed
             /\ lost' = [lost EXCEPT ![target] = @ + ChunkSize]
    <3>1. Queued(v)' = Queued(v) /\ lost'[v] = lost[v] + Len(open[v])
      BY <1>2, <1>3, <1>6, <2>4 DEF Queued
    <3>2. Cat(Cat(X, Queued(v)), << >>) = Cat(X, Queued(v))
      BY <1>4, CatEmpty
    <3> QED BY <1>2, <1>4, <1>6, <2>0, <2>4, <3>1, <3>2 DEF Discarded
  <2> QED BY <1>2, <2>2, <2>3, <2>4
<1> QED BY <1>5, <1>6

LEMMA FlowWriteStruct == ASSUME ControlInv, WriteStruct, NEW v \in Vars PROVE Kept(v)
<1>1. /\ Held(v)' = Held(v) /\ Queued(v)' = Queued(v) /\ open'[v] = open[v]
      /\ SameCounts(v)
  BY DEF WriteStruct, flushVars, flusherFrame, prodVars, Held, Queued, SameCounts
<1>2. Written(v)' = Written(v)
  <2>1. file \in [Names -> Entries] /\ v \in Names
    BY DEF ControlInv, DataInv, DataTypes, Names
  <2>2. CASE CanCreate(file[Head(matq)])
    <3>1. file' = [file EXCEPT ![Head(matq)] = Whole]
      BY <2>2 DEF WriteStruct
    <3>2. CASE v = Head(matq)
      <4>1. file'[v] = Whole /\ file[v].kind = "absent"
        BY <2>1, <2>2, <3>1, <3>2 DEF CanCreate
      <4>2. file[v].samples = << >>
        BY <2>1, <4>1 DEF ControlInv, DataInv, EntryInv
      <4> QED BY <4>1, <4>2 DEF Written, Whole
    <3>3. CASE v # Head(matq)
      BY <2>1, <3>1, <3>3 DEF Written
    <3> QED BY <3>2, <3>3
  <2>3. CASE ~ CanCreate(file[Head(matq)])
    BY <2>3 DEF WriteStruct, Written
  <2> QED BY <2>2, <2>3
<1> QED BY <1>1, <1>2, Parts, PartsNext DEF PartsOf, Kept

LEMMA FlowReadBlock == ASSUME ControlInv, ReadBlock, NEW v \in Vars PROVE Kept(v)
<1>1. /\ UNCHANGED <<open, file, at, added, lost, refused>> /\ block' = Head(sealed[at])
      /\ sealed' = [sealed EXCEPT ![at] = Tail(@)] /\ sealed[at] # << >>
      /\ block = << >>
  BY DEF ReadBlock, fileVars, flusherFrame, prodVars, ControlInv, FlagInv
<1>2. sealed \in [Vars -> Seq(Seq(Nat))]
  BY DEF ControlInv, DataInv, DataTypes
<1>3. Written(v)' = Written(v) /\ open'[v] = open[v] /\ SameCounts(v)
  BY <1>1 DEF Written, SameCounts
<1>4. CASE v # at
  <2>1. Held(v)' = Held(v) /\ Queued(v)' = Queued(v)
    BY <1>1, <1>2, <1>4 DEF Held, Queued
  <2> QED BY <1>3, <2>1, Parts, PartsNext DEF PartsOf, Kept
<1>5. CASE v = at
  <2> DEFINE h == Head(sealed[v])
             q == FlattenSeq(Tail(sealed[v]))
             w == Written(v)
  <2>1. Held(v) = << >> /\ Held(v)' = h /\ Queued(v)' = q
    BY <1>1, <1>2, <1>5 DEF Held, Queued
  <2>2. h \in Seq(Nat) /\ q \in Seq(Nat) /\ Queued(v) = Cat(h, q)
    <3>1. sealed[v] \in Seq(Seq(Nat)) /\ sealed[v] # << >>
      BY <1>1, <1>2, <1>5
    <3>2. h \in Seq(Nat) /\ Tail(sealed[v]) \in Seq(Seq(Nat))
      BY <3>1, HeadTailProperties
    <3>3. q \in Seq(Nat)
      BY <3>2, FlattenCat
    <3>4. Queued(v) = Cat(h, q)
      BY <3>1, FlattenCat DEF Queued
    <3> QED BY <3>2, <3>3, <3>4
  <2>3. /\ Pipeline(v)' = Cat(Cat(Cat(w, h), q), open[v])
        /\ Pipeline(v) = Cat(Cat(Cat(w, << >>), Queued(v)), open[v])
        /\ w \in Seq(Nat)
    BY <1>3, <2>1, Parts, PartsNext DEF PartsOf
  <2> HIDE DEF h, q, w
  <2>4. Cat(Cat(w, << >>), Cat(h, q)) = Cat(Cat(w, h), q)
    <3>1. Cat(w, << >>) = w
      BY <2>3, CatEmpty
    <3>2. Cat(Cat(w, h), q) = Cat(w, Cat(h, q))
      BY <2>2, <2>3, CatAssociative
    <3> QED BY <3>1, <3>2
  <2> QED BY <1>3, <2>2, <2>3, <2>4 DEF Kept
<1> QED BY <1>4, <1>5

LEMMA FlowWriteBlock ==
    ASSUME ControlInv, WriteBlock, NEW v \in Vars
    PROVE  Kept(v) \/ Refused(v)
<1>a. UniformInv /\ DataInv
  BY DEF ControlInv
<1> DEFINE new == Appended(file[at], Dims(at, Len(block)), block)
<1>1. /\ at \in Vars /\ at \in Names /\ Len(block) \in 1 .. ChunkSize /\ block' = << >>
      /\ UNCHANGED <<open, sealed, lost, at, added>>
      /\ \/ /\ UNCHANGED refused /\ file' = [file EXCEPT ![at] = new]
            /\ new.samples = file[at].samples \o block
         \/ /\ refused' = [refused EXCEPT ![at] = @ + Len(block)]
            /\ UNCHANGED file
  BY <1>a, WriteBlockEffect
<1> HIDE DEF new
<1>2. /\ file \in [Names -> Entries] /\ refused \in [Vars -> Nat] /\ v \in Names
      /\ block \in Seq(Nat)
  BY <1>a DEF DataInv, DataTypes, Names
<1>3. Queued(v)' = Queued(v) /\ open'[v] = open[v] /\ added'[v] = added[v] /\ lost'[v] = lost[v]
  BY <1>1 DEF Queued
<1>4. CASE v # at
  <2>1. Held(v)' = Held(v) /\ Written(v)' = Written(v) /\ refused'[v] = refused[v]
    BY <1>1, <1>2, <1>4 DEF Held, Written
  <2> QED BY <1>3, <2>1, Parts, PartsNext DEF PartsOf, Kept, SameCounts
<1>5. CASE v = at
  <2> DEFINE w == Written(v)
             o == open[v]
             q == Queued(v)
  <2>1. Held(v) = block /\ Held(v)' = << >>
    BY <1>1, <1>5 DEF Held
  <2>2. /\ Pipeline(v) = Cat(Cat(Cat(w, block), q), o)
        /\ Pipeline(v)' = Cat(Cat(Cat(Written(v)', << >>), q), o)
        /\ w \in Seq(Nat) /\ q \in Seq(Nat) /\ o \in Seq(Nat) /\ Cat(w, block) \in Seq(Nat)
    BY <1>3, <2>1, Parts, PartsNext DEF PartsOf
  <2>3. CASE UNCHANGED refused /\ file' = [file EXCEPT ![at] = new] /\ new.samples = file[at].samples \o block
    <3>1. Written(v)' = Cat(w, block)
      BY <1>1, <1>2, <1>5, <2>3 DEF Written, Cat
    <3> HIDE DEF w, o, q
    <3>2. Cat(Cat(w, block), << >>) = Cat(w, block)
      BY <2>2, CatEmpty
    <3> QED BY <1>3, <2>2, <2>3, <3>1, <3>2 DEF Kept, SameCounts
  <2>4. CASE refused' = [refused EXCEPT ![at] = @ + Len(block)] /\ UNCHANGED file
    <3>1. Written(v)' = w /\ refused'[v] = refused[v] + Len(block)
      BY <1>1, <1>2, <1>5, <2>4 DEF Written
    <3> HIDE DEF w, o, q
    <3>2. Cat(w, << >>) = w
      BY <2>2, CatEmpty
    <3>3. Cat(Cat(Cat(w, block), q), o) = Cat(Cat(w, block), Cat(q, o))
      BY <2>2, CatAssociative
    <3>4. Cat(Cat(w, q), o) = Cat(w, Cat(q, o))
      BY <2>2, CatAssociative
    <3>5. Cat(q, o) \in Seq(Nat) /\ Len(block) >= 1
      BY <1>1, <2>2, CatElements
    <3>6. Pipeline(v) = Cat(Cat(w, block), Cat(q, o)) /\ Pipeline(v)' = Cat(w, Cat(q, o))
      BY <2>2, <3>1, <3>2, <3>3, <3>4
    <3> QED BY <1>2, <1>3, <2>2, <3>1, <3>5, <3>6 DEF Refused
  <2> QED BY <1>1, <2>3, <2>4
<1> QED BY <1>4, <1>5

LEMMA FlowSealAll == ASSUME ControlInv, SealAll, NEW v \in Vars PROVE Kept(v)
<1>1. /\ Held(v)' = Held(v) /\ Written(v)' = Written(v) /\ SameCounts(v)
  BY DEF SealAll, ownerFrame, prodVars, flushVars, fileVars, Held, Written, SameCounts
<1>2. /\ open'[v] = IF CanSeal(v) THEN << >> ELSE open[v]
      /\ sealed'[v] = IF open[v] # << >> /\ CanSeal(v) THEN Append(sealed[v], open[v]) ELSE sealed[v]
  BY DEF SealAll, Sealing
<1> DEFINE X == Cat(Written(v), Held(v))
<1>3. /\ X \in Seq(Nat) /\ Queued(v) \in Seq(Nat) /\ open[v] \in Seq(Nat)
      /\ Pipeline(v) = Cat(Cat(X, Queued(v)), open[v])
      /\ Pipeline(v)' = Cat(Cat(X, Queued(v)'), open'[v])
      /\ sealed[v] \in Seq(Seq(Nat))
  BY <1>1, Parts, PartsNext DEF PartsOf
<1> HIDE DEF X
<1>4. CASE open'[v] = open[v] /\ sealed'[v] = sealed[v]
  <2>1. Queued(v)' = Queued(v)
    BY <1>4 DEF Queued
  <2> QED BY <1>1, <1>3, <1>4, <2>1 DEF Kept
<1>5. CASE open'[v] = << >> /\ sealed'[v] = Append(sealed[v], open[v])
  <2>1. Queued(v)' = Cat(Queued(v), open[v])
    BY <1>3, <1>5, FlattenCat DEF Queued
  <2>2. Cat(Queued(v), open[v]) \in Seq(Nat)
    BY <1>3, CatElements
  <2>3. Cat(X, Cat(Queued(v), open[v])) \in Seq(Nat)
    BY <1>3, <2>2, CatElements
  <2>4. Cat(Cat(X, Cat(Queued(v), open[v])), << >>) = Cat(X, Cat(Queued(v), open[v]))
    BY <2>3, CatEmpty
  <2>5. Cat(Cat(X, Queued(v)), open[v]) = Cat(X, Cat(Queued(v), open[v]))
    BY <1>3, CatAssociative
  <2> QED BY <1>1, <1>3, <1>5, <2>1, <2>4, <2>5 DEF Kept
<1> QED BY <1>2, <1>4, <1>5 DEF CanSeal

LEMMA Flow ==
    ASSUME ControlInv, [Next]_allVars, NEW v \in Vars
    PROVE  Kept(v) \/ Grown(v) \/ Overwritten(v) \/ Discarded(v) \/ Refused(v)
<1>1. UniformInv /\ FlagInv
  BY DEF ControlInv
<1> QED BY <1>1, DataSteps, FlowQuiet, FlowAddSample, FlowSealBlock, FlowWriteStruct,
           FlowReadBlock, FlowWriteBlock, FlowSealAll

-----------------------------------------------------------------------------
(* No sample is forgotten, and none overtakes another.                      *)

FlowInv ==
    \A v \in Vars :
        /\ Sorted(Pipeline(v), added[v])
        /\ added[v] = Len(Pipeline(v)) + lost[v] + refused[v]

LEMMA FlowInit == Init => FlowInv
<1> SUFFICES ASSUME Init, NEW v \in Vars
             PROVE  /\ Sorted(Pipeline(v), added[v])
                    /\ added[v] = Len(Pipeline(v)) + lost[v] + refused[v]
  BY DEF FlowInv
<1>1. ControlInv
  BY UniformInit, FlagInit, DataInit DEF ControlInv
<1>2. << >> \in Seq(Nat) /\ Cat(<< >>, << >>) = << >>
  <2>1. << >> \in Seq(Nat)
    OBVIOUS
  <2> QED BY <2>1, CatEmpty
<1>3. Written(v) = << >> /\ Held(v) = << >> /\ Queued(v) = << >> /\ open[v] = << >>
  <2>1. sealed[v] = << >> /\ open[v] = << >> /\ block = << >> /\ file[v] = Absent
    BY DEF Init, Names
  <2>2. FlattenSeq(<< >>) = << >>
    BY DEF FlattenSeq
  <2> QED BY <2>1, <2>2 DEF Written, Held, Queued, Absent
<1>4. Pipeline(v) = << >>
  BY <1>1, <1>2, <1>3, Parts
<1>5. added[v] = 0 /\ lost[v] = 0 /\ refused[v] = 0
  BY DEF Init
<1> QED BY <1>4, <1>5 DEF Sorted

LEMMA FlowNext == ControlInv /\ FlowInv /\ [Next]_allVars => FlowInv'
<1> SUFFICES ASSUME ControlInv, FlowInv, [Next]_allVars, NEW v \in Vars
             PROVE  /\ Sorted(Pipeline(v)', added'[v])
                    /\ added'[v] = Len(Pipeline(v)') + lost'[v] + refused'[v]
  BY DEF FlowInv
<1> DEFINE P == Pipeline(v)
           n == added[v]
<1>1. /\ Sorted(P, n) /\ n = Len(P) + lost[v] + refused[v] /\ P \in Seq(Nat)
      /\ n \in Nat /\ lost[v] \in Nat /\ refused[v] \in Nat /\ Len(P) \in Nat
  <2>1. P \in Seq(Nat)
    BY Parts
  <2>2. n \in 0 .. MaxSamples /\ lost[v] \in Nat /\ refused[v] \in Nat
    BY DEF ControlInv, FlagInv, DataInv, DataTypes
  <2>3. Len(P) \in Nat
    BY <2>1
  <2>4. n \in Nat
    BY <2>2
  <2> QED BY <2>1, <2>2, <2>3, <2>4 DEF FlowInv
<1>2. CASE Kept(v)
  BY <1>1, <1>2 DEF Kept, SameCounts
<1>3. CASE Grown(v)
  <2>1. Pipeline(v)' = Append(P, n + 1) /\ added'[v] = n + 1 /\ lost'[v] = lost[v] /\ refused'[v] = refused[v]
    BY <1>3 DEF Grown
  <2> HIDE DEF P, n
  <2>2. Sorted(Append(P, n + 1), n + 1) /\ Len(Append(P, n + 1)) = Len(P) + 1
    BY <1>1, SortedAppend, AppendProperties
  <2> QED BY <1>1, <2>1, <2>2
<1>4. ASSUME NEW a \in Seq(Nat), NEW b \in Seq(Nat), NEW c \in Seq(Nat),
             P = Cat(Cat(a, b), c), Pipeline(v)' = Cat(a, c), added'[v] = n,
             lost'[v] + refused'[v] = lost[v] + refused[v] + Len(b),
             lost'[v] \in Nat, refused'[v] \in Nat
      PROVE  /\ Sorted(Pipeline(v)', added'[v])
             /\ added'[v] = Len(Pipeline(v)') + lost'[v] + refused'[v]
  <2> HIDE DEF P, n
  <2>1. Sorted(Cat(a, c), n) /\ Len(P) = Len(Cat(a, c)) + Len(b)
    BY <1>1, <1>4, SortedDrop
  <2>2. Len(Cat(a, c)) \in Nat /\ Len(b) \in Nat
    <3>1. Cat(a, c) \in Seq(Nat)
      BY CatElements
    <3> QED BY <3>1
  <2>3. n = Len(Cat(a, c)) + lost'[v] + refused'[v]
    <3> DEFINE p == Len(P)
               q == Len(Cat(a, c))
               r == Len(b)
               l == lost[v]
               k == refused[v]
               l1 == lost'[v]
               k1 == refused'[v]
    <3>1. /\ n = p + l + k /\ p = q + r /\ l1 + k1 = l + k + r
          /\ p \in Nat /\ q \in Nat /\ r \in Nat /\ n \in Nat
          /\ l \in Nat /\ k \in Nat /\ l1 \in Nat /\ k1 \in Nat
      BY <1>1, <1>4, <2>1, <2>2
    <3> HIDE DEF p, q, r, l, k, l1, k1
    <3>2. n = q + l1 + k1
      BY <3>1
    <3> QED BY <3>2 DEF q, l1, k1
  <2> QED BY <1>4, <2>1, <2>3
<1>5. CASE Overwritten(v)
  <2>1. PICK b \in Seq(Nat), c \in Seq(Nat) :
           /\ P = Cat(Cat(Cat(Written(v), Held(v)), b), c)
           /\ Pipeline(v)' = Cat(Cat(Written(v), Held(v)), c)
           /\ lost'[v] = lost[v] + Len(b)
    BY <1>5 DEF Overwritten
  <2>2. added'[v] = n /\ refused'[v] = refused[v] /\ Len(b) \in Nat
    BY <1>5 DEF Overwritten
  <2>3. Cat(Written(v), Held(v)) \in Seq(Nat)
    BY Parts
  <2>4. lost'[v] + refused'[v] = lost[v] + refused[v] + Len(b) /\ lost'[v] \in Nat /\ refused'[v] \in Nat
    BY <1>1, <2>1, <2>2
  <2> HIDE DEF P, n
  <2> QED BY <1>4, <2>1, <2>2, <2>3, <2>4
<1>6. CASE Discarded(v)
  <2>1. PICK a \in Seq(Nat), b \in Seq(Nat) :
           P = Cat(a, b) /\ Pipeline(v)' = a /\ lost'[v] = lost[v] + Len(b)
    BY <1>6 DEF Discarded
  <2>2. added'[v] = n /\ refused'[v] = refused[v] /\ Len(b) \in Nat
    BY <1>6 DEF Discarded
  <2>3. lost'[v] + refused'[v] = lost[v] + refused[v] + Len(b) /\ lost'[v] \in Nat /\ refused'[v] \in Nat
    BY <1>1, <2>1, <2>2
  <2>4. Cat(a, b) \in Seq(Nat) /\ << >> \in Seq(Nat)
    BY CatElements
  <2>5. Cat(Cat(a, b), << >>) = Cat(a, b) /\ Cat(a, << >>) = a
    BY <2>4, CatEmpty
  <2> HIDE DEF P, n
  <2>6. P = Cat(Cat(a, b), << >>) /\ Pipeline(v)' = Cat(a, << >>)
    BY <2>1, <2>5
  <2> QED BY <1>4, <2>2, <2>3, <2>4, <2>6
<1>7. CASE Refused(v)
  <2>1. PICK a \in Seq(Nat), b \in Seq(Nat), c \in Seq(Nat) :
           /\ P = Cat(Cat(a, b), c) /\ Pipeline(v)' = Cat(a, c)
           /\ refused'[v] = refused[v] + Len(b)
    BY <1>7 DEF Refused
  <2>2. added'[v] = n /\ lost'[v] = lost[v] /\ Len(b) \in Nat
    BY <1>7 DEF Refused
  <2>3. lost'[v] + refused'[v] = lost[v] + refused[v] + Len(b) /\ lost'[v] \in Nat /\ refused'[v] \in Nat
    BY <1>1, <2>1, <2>2
  <2> HIDE DEF P, n
  <2> QED BY <1>4, <2>1, <2>2, <2>3
<1> QED BY <1>2, <1>3, <1>5, <1>6, <1>7, Flow

LEMMA FlowInvariant == Spec => []FlowInv
<1>1. ControlInv /\ FlowInv /\ [Next]_allVars => FlowInv'
  BY FlowNext
<1> QED BY <1>1, FlowInit, ControlInvariant, PTL DEF Spec

\* No sample is forgotten: each is in the file, on its way there, or among those
\* that the buffer dropped or the backend refused.
THEOREM NoSampleForgotten == Spec => []Accounted
<1>1. FlowInv => Accounted
  BY DEF FlowInv, Accounted
<1> QED BY <1>1, FlowInvariant, PTL

\* Samples stay in the order in which they were added, up to the file.
THEOREM FileOrder == Spec => []InFileOrder
<1>1. ControlInv /\ FlowInv => InFileOrder
  <2> SUFFICES ASSUME ControlInv, FlowInv, NEW v \in Vars,
                      NEW i \in 1 .. Len(Pipeline(v)) - 1
               PROVE  Pipeline(v)[i] < Pipeline(v)[i + 1]
    BY DEF InFileOrder
  <2>1. Pipeline(v) \in Seq(Nat)
    BY Parts
  <2>2. i \in 1 .. Len(Pipeline(v)) /\ i + 1 \in 1 .. Len(Pipeline(v)) /\ i < i + 1
    BY <2>1
  <2> QED BY <2>2 DEF FlowInv, Sorted
<1> QED BY <1>1, FlowInvariant, ControlInvariant, PTL

-----------------------------------------------------------------------------
(* The sizes of entries.                                                    *)

\* No sample of v will come any more.
NothingMore(v) == sealed[v] = << >> /\ open[v] = << >> /\ life # "alive"

\* Only the last block of a variable may be short.
BlocksInv ==
    \A v \in Vars :
        /\ \A i \in 1 .. Len(sealed[v]) :
              \/ Len(sealed[v][i]) = ChunkSize
              \/ i = Len(sealed[v]) /\ open[v] = << >> /\ life # "alive"
        /\ at = v /\ block # << >> => Len(block) = ChunkSize \/ NothingMore(v)

CubeDims(v, n) ==
    IF v \notin Matrices THEN <<Rows, n>>
    ELSE IF n = 1 THEN <<Rows, Cols>> ELSE <<Rows, Cols, n>>

\* Why a block always has the rank of the entry it is appended to: one that is
\* a single sample long is a variable's only block.
CubeInv ==
    ChunkSize >= 2 => \A v \in Vars :
        /\ file[v].kind = "growing" => file[v].samples # << >>
        /\ Len(file[v].samples) = 1 => NothingMore(v) /\ (at = v => block = << >>)
        /\ file[v].samples # << >> =>
              file[v].dims = CubeDims(v, Len(file[v].samples))

SizesInv == BlocksInv /\ CubeInv

LEMMA SizesInit == Init => SizesInv
<1> SUFFICES ASSUME Init PROVE SizesInv
  OBVIOUS
<1>1. Len(<< >>) = 0 /\ block = << >> /\ \A v \in Vars : sealed[v] = << >> /\ file[v] = Absent
  BY DEF Init, Names
<1>2. Absent.kind = "absent" /\ Absent.samples = << >>
  BY DEF Absent
<1>3. BlocksInv
  BY <1>1 DEF BlocksInv
<1>4. CubeInv
  BY <1>1, <1>2 DEF CubeInv
<1> QED BY <1>3, <1>4 DEF SizesInv

LEMMA SizesQuiet == ASSUME SizesInv, Quiet PROVE SizesInv'
<1> USE DEF Quiet, NothingMore
<1>1. BlocksInv'
  BY DEF SizesInv, BlocksInv
<1>2. CubeInv'
  BY DEF SizesInv, CubeInv
<1> QED BY <1>1, <1>2 DEF SizesInv

\* While the producer adds, every queued block is full.
LEMMA FullBlocks ==
    ASSUME SizesInv, NEW v \in Vars, life = "alive" \/ open[v] # << >>
    PROVE  \A i \in 1 .. Len(sealed[v]) : Len(sealed[v][i]) = ChunkSize
BY DEF SizesInv, BlocksInv

LEMMA SizesAddSample == ASSUME ControlInv, SizesInv, AddSample PROVE SizesInv'
<1>1. /\ life = "alive" /\ UNCHANGED <<sealed, at, block, file, life>>
  BY DEF AddSample, producerFrame, ownerVars, flushVars, fileVars, ControlInv, UniformInv, ModeInv
<1>2. \A v \in Vars : ~ NothingMore(v)
  BY <1>1 DEF NothingMore
<1>3. BlocksInv'
  <2>1. \A v \in Vars : \A i \in 1 .. Len(sealed[v]) : Len(sealed[v][i]) = ChunkSize
    BY <1>1, FullBlocks
  <2>2. \A v \in Vars : at = v /\ block # << >> => Len(block) = ChunkSize
    BY <1>2 DEF SizesInv, BlocksInv
  <2> QED BY <1>1, <2>1, <2>2 DEF BlocksInv
<1>4. CubeInv'
  <2>1. ChunkSize >= 2 => \A v \in Vars : Len(file[v].samples) # 1
    BY <1>2 DEF SizesInv, CubeInv
  <2> QED BY <1>1, <2>1 DEF SizesInv, CubeInv
<1> QED BY <1>3, <1>4 DEF SizesInv

LEMMA SizesSealBlock == ASSUME ControlInv, SizesInv, SealBlock PROVE SizesInv'
<1> DEFINE full == Append(sealed[target], open[target])
<1>1. /\ life = "alive" /\ UNCHANGED <<at, block, file, life>>
      /\ target \in Vars /\ Len(open[target]) = ChunkSize
      /\ \/ sealed' = [sealed EXCEPT ![target] = full]
         \/ sealed' = [sealed EXCEPT ![target] = Tail(full)]
         \/ UNCHANGED sealed
  BY DEF SealBlock, producerFrame, ownerVars, flushVars, fileVars, ControlInv, UniformInv,
         FlagInv, ModeInv
<1>2. \A v \in Vars : ~ NothingMore(v)
  BY <1>1 DEF NothingMore
<1>3. sealed \in [Vars -> Seq(Seq(Nat))] /\ open \in [Vars -> Seq(Nat)]
  BY DEF ControlInv, DataInv, DataTypes
<1>4. \A v \in Vars : \A i \in 1 .. Len(sealed[v]) : Len(sealed[v][i]) = ChunkSize
  BY <1>1, FullBlocks
<1>5. /\ full \in Seq(Seq(Nat)) /\ Len(full) = Len(sealed[target]) + 1 /\ Len(sealed[target]) \in Nat
      /\ \A i \in 1 .. Len(full) : Len(full[i]) = ChunkSize
  <2>1. sealed[target] \in Seq(Seq(Nat)) /\ open[target] \in Seq(Nat)
    BY <1>1, <1>3
  <2>2. /\ full \in Seq(Seq(Nat)) /\ Len(full) = Len(sealed[target]) + 1
        /\ \A i \in 1 .. Len(sealed[target]) : full[i] = sealed[target][i]
        /\ full[Len(sealed[target]) + 1] = open[target]
    BY <2>1, AppendProperties
  <2>3. Len(sealed[target]) \in Nat
    BY <2>1
  <2> HIDE DEF full
  <2>4. ASSUME NEW i \in 1 .. Len(full) PROVE Len(full[i]) = ChunkSize
    <3>1. CASE i = Len(sealed[target]) + 1
      BY <1>1, <2>2, <3>1
    <3>2. CASE i # Len(sealed[target]) + 1
      <4>1. i \in 1 .. Len(sealed[target])
        BY <2>2, <2>3, <3>2
      <4> QED BY <1>1, <1>4, <2>2, <4>1
    <3> QED BY <3>1, <3>2
  <2> QED BY <2>2, <2>3, <2>4
<1> HIDE DEF full
<1>6. /\ Len(Tail(full)) = Len(sealed[target])
      /\ \A i \in 1 .. Len(Tail(full)) : Len(Tail(full)[i]) = ChunkSize
  <2>1. full # << >>
    BY <1>5, EmptySeq
  <2>2. /\ Len(Tail(full)) = Len(full) - 1
        /\ \A i \in 1 .. Len(Tail(full)) : Tail(full)[i] = full[i + 1]
    BY <1>5, <2>1, HeadTailProperties
  <2>3. Len(Tail(full)) = Len(sealed[target]) /\ \A i \in 1 .. Len(Tail(full)) : i + 1 \in 1 .. Len(full)
    BY <1>5, <2>2
  <2> QED BY <1>5, <2>2, <2>3
<1>7. \A v \in Vars : \/ sealed'[v] = sealed[v]
                      \/ v = target /\ sealed'[v] = full
                      \/ v = target /\ sealed'[v] = Tail(full)
  BY <1>1, <1>3
<1>8. \A v \in Vars : \A i \in 1 .. Len(sealed'[v]) : Len(sealed'[v][i]) = ChunkSize
  BY <1>4, <1>5, <1>6, <1>7
<1>9. BlocksInv'
  <2>1. \A v \in Vars : at = v /\ block # << >> => Len(block) = ChunkSize
    BY <1>2 DEF SizesInv, BlocksInv
  <2> QED BY <1>1, <1>8, <2>1 DEF BlocksInv
<1>10. CubeInv'
  <2>1. ChunkSize >= 2 => \A v \in Vars : Len(file[v].samples) # 1
    BY <1>2 DEF SizesInv, CubeInv
  <2> QED BY <1>1, <2>1 DEF SizesInv, CubeInv
<1> QED BY <1>9, <1>10 DEF SizesInv

LEMMA SizesWriteStruct == ASSUME ControlInv, SizesInv, WriteStruct PROVE SizesInv'
<1>1. /\ UNCHANGED <<open, sealed, block, at, life>>
      /\ \/ UNCHANGED file
         \/ file' = [file EXCEPT ![Head(matq)] = Whole]
  BY DEF WriteStruct, flushVars, flusherFrame, ownerVars
<1>2. BlocksInv'
  BY <1>1 DEF SizesInv, BlocksInv, NothingMore
<1>3. \A v \in Vars : file'[v] = file[v] \/ file'[v] = Whole
  BY <1>1 DEF ControlInv, DataInv, DataTypes, Names
<1>4. Whole.kind = "whole" /\ Whole.samples = << >> /\ Len(<< >>) = 0
  BY DEF Whole
<1>5. CubeInv'
  BY <1>1, <1>3, <1>4 DEF SizesInv, CubeInv, NothingMore
<1> QED BY <1>2, <1>5 DEF SizesInv

LEMMA SizesReadBlock == ASSUME ControlInv, SizesInv, ReadBlock PROVE SizesInv'
<1>1. /\ UNCHANGED <<open, file, at, life>> /\ block' = Head(sealed[at])
      /\ sealed' = [sealed EXCEPT ![at] = Tail(@)] /\ sealed[at] # << >> /\ at \in Vars
  BY DEF ReadBlock, fileVars, flusherFrame, ownerVars, ControlInv, UniformInv, CallbackInv, ModeInv
<1>2. /\ Len(Tail(sealed[at])) = Len(sealed[at]) - 1 /\ Tail(sealed[at]) \in Seq(Seq(Nat))
      /\ \A i \in 1 .. Len(Tail(sealed[at])) :
             Tail(sealed[at])[i] = sealed[at][i + 1] /\ i + 1 \in 1 .. Len(sealed[at])
      /\ Head(sealed[at]) = sealed[at][1] /\ Len(sealed[at]) \in Nat \ {0}
  BY <1>1, OldestBlock DEF ControlInv
<1>3. \A v \in Vars : sealed'[v] = IF v = at THEN Tail(sealed[at]) ELSE sealed[v]
  BY <1>1 DEF ControlInv, DataInv, DataTypes
<1>4. ASSUME NEW v \in Vars, NEW i \in 1 .. Len(sealed'[v])
      PROVE  \/ Len(sealed'[v][i]) = ChunkSize
             \/ i = Len(sealed'[v]) /\ open'[v] = << >> /\ life' # "alive"
  <2>1. CASE v = at
    <3>1. /\ sealed'[v] = Tail(sealed[at]) /\ i + 1 \in 1 .. Len(sealed[at])
          /\ sealed'[v][i] = sealed[at][i + 1] /\ Len(sealed'[v]) = Len(sealed[at]) - 1
      BY <1>2, <1>3, <2>1
    <3>2. \/ Len(sealed[at][i + 1]) = ChunkSize
          \/ i + 1 = Len(sealed[at]) /\ open[at] = << >> /\ life # "alive"
      BY <1>1, <3>1 DEF SizesInv, BlocksInv
    <3>3. CASE i + 1 = Len(sealed[at])
      <4>1. i = Len(sealed'[v])
        <5> DEFINE n == Len(sealed[at])
        <5>1. n \in Nat /\ i + 1 = n /\ Len(sealed'[v]) = n - 1 /\ i \in Int
          BY <1>2, <3>1, <3>3
        <5> HIDE DEF n
        <5> QED BY <5>1
      <4> QED BY <1>1, <2>1, <3>1, <3>2, <4>1
    <3> QED BY <3>1, <3>2, <3>3
  <2>2. CASE v # at
    <3>1. sealed'[v] = sealed[v] /\ i \in 1 .. Len(sealed[v])
      BY <1>3, <2>2
    <3> QED BY <1>1, <3>1 DEF SizesInv, BlocksInv
  <2> QED BY <2>1, <2>2
<1>5. ASSUME NEW v \in Vars, at' = v, block' # << >>
      PROVE  Len(block') = ChunkSize \/ NothingMore(v)'
  <2>1. v = at /\ block' = sealed[at][1] /\ 1 \in 1 .. Len(sealed[at])
    BY <1>1, <1>2, <1>5
  <2>2. CASE Len(sealed[at][1]) = ChunkSize
    BY <2>1, <2>2
  <2>3. CASE 1 = Len(sealed[at]) /\ open[at] = << >> /\ life # "alive"
    <3>1. Len(Tail(sealed[at])) = 0
      BY <1>2, <2>3
    <3>2. Tail(sealed[at]) = << >>
      BY <1>2, <3>1, EmptySeq
    <3> QED BY <1>1, <1>3, <2>1, <2>3, <3>2 DEF NothingMore
  <2> QED BY <2>1, <2>2, <2>3 DEF SizesInv, BlocksInv
<1>6. BlocksInv'
  BY <1>4, <1>5 DEF BlocksInv
<1>7. ASSUME ChunkSize >= 2, NEW v \in Vars, Len(file[v].samples) = 1
      PROVE  NothingMore(v)' /\ at # v
  <2>1. NothingMore(v)
    BY <1>7 DEF SizesInv, CubeInv
  <2>2. v # at
    BY <1>1, <2>1 DEF NothingMore
  <2> QED BY <1>1, <1>3, <2>1, <2>2 DEF NothingMore
<1>8. CubeInv'
  BY <1>1, <1>7 DEF SizesInv, CubeInv
<1> QED BY <1>6, <1>8 DEF SizesInv

LEMMA SizesSealAll == ASSUME ControlInv, SizesInv, SealAll PROVE SizesInv'
<1>1. /\ UNCHANGED <<block, file, at>> /\ life' # "alive" /\ life # "alive"
      /\ \A v \in Vars : /\ open'[v] = IF CanSeal(v) THEN << >> ELSE open[v]
                         /\ sealed'[v] = IF open[v] # << >> /\ CanSeal(v)
                                         THEN Append(sealed[v], open[v]) ELSE sealed[v]
  BY DEF SealAll, Sealing, ownerFrame, flushVars, fileVars
<1>2. ASSUME NEW v \in Vars, NothingMore(v) PROVE NothingMore(v)'
  BY <1>1, <1>2 DEF NothingMore
<1>3. ASSUME NEW v \in Vars, NEW i \in 1 .. Len(sealed'[v])
      PROVE  \/ Len(sealed'[v][i]) = ChunkSize
             \/ i = Len(sealed'[v]) /\ open'[v] = << >>
  <2>1. sealed[v] \in Seq(Seq(Nat)) /\ open[v] \in Seq(Nat) /\ Len(sealed[v]) \in Nat
    BY DEF ControlInv, DataInv, DataTypes
  <2>2. CASE open[v] # << >> /\ CanSeal(v)
    <3>1. sealed'[v] = Append(sealed[v], open[v]) /\ open'[v] = << >>
      BY <1>1, <2>2
    <3>2. /\ Len(Append(sealed[v], open[v])) = Len(sealed[v]) + 1
          /\ \A k \in 1 .. Len(sealed[v]) : Append(sealed[v], open[v])[k] = sealed[v][k]
      BY <2>1, AppendProperties
    <3>3. CASE i = Len(sealed[v]) + 1
      BY <3>1, <3>2, <3>3
    <3>4. CASE i # Len(sealed[v]) + 1
      <4>1. i \in 1 .. Len(sealed[v]) /\ sealed'[v][i] = sealed[v][i]
        BY <2>1, <3>1, <3>2, <3>4
      <4>2. Len(sealed[v][i]) = ChunkSize
        BY <2>2, <4>1, FullBlocks
      <4> QED BY <4>1, <4>2
    <3> QED BY <3>3, <3>4
  <2>3. CASE ~ (open[v] # << >> /\ CanSeal(v))
    <3>1. sealed'[v] = sealed[v] /\ (open[v] = << >> => open'[v] = << >>)
      BY <1>1, <2>3
    <3>2. \/ Len(sealed[v][i]) = ChunkSize
          \/ i = Len(sealed[v]) /\ open[v] = << >>
      BY <3>1 DEF SizesInv, BlocksInv
    <3> QED BY <3>1, <3>2
  <2> QED BY <2>2, <2>3
<1>4. BlocksInv'
  BY <1>1, <1>2, <1>3 DEF SizesInv, BlocksInv
<1>5. CubeInv'
  BY <1>1, <1>2 DEF SizesInv, CubeInv
<1> QED BY <1>4, <1>5 DEF SizesInv

\* The dimensions of a block are those of the cube of its samples.
LEMMA BlockCube ==
    ASSUME NEW v, NEW n \in Nat, n >= 1
    PROVE  /\ Dims(v, n) = CubeDims(v, n)
           /\ v \notin Matrices => Dims(v, n) = <<Rows, n>>
           /\ v \in Matrices /\ n = 1 => Dims(v, n) = <<Rows, Cols>>
           /\ v \in Matrices /\ n # 1 => Dims(v, n) = <<Rows, Cols, n>>
BY DEF Dims, BlockDims, CubeDims

LEMMA CubeGrows ==
    ASSUME NEW v, NEW m \in Nat, NEW n \in Nat, m >= 1, n >= 1, v \in Matrices => m # 1,
           Len(CubeDims(v, m)) = Len(Dims(v, n))
    PROVE  [CubeDims(v, m) EXCEPT ![Len(Dims(v, n))] = @ + Dims(v, n)[Len(Dims(v, n))]]
             = CubeDims(v, m + n)
<1>1. CASE v \notin Matrices
  <2>1. /\ CubeDims(v, m) = <<Rows, m>> /\ Dims(v, n) = <<Rows, n>>
        /\ CubeDims(v, m + n) = <<Rows, m + n>>
    BY <1>1, BlockCube DEF CubeDims
  <2>2. [<<Rows, m>> EXCEPT ![2] = @ + n] = <<Rows, m + n>>
    OBVIOUS
  <2>3. Len(<<Rows, n>>) = 2 /\ <<Rows, n>>[2] = n
    OBVIOUS
  <2> QED BY <2>1, <2>2, <2>3
<1>2. CASE v \in Matrices
  <2>1. m # 1 /\ m + n # 1
    BY <1>2
  <2>2. CubeDims(v, m) = <<Rows, Cols, m>> /\ CubeDims(v, m + n) = <<Rows, Cols, m + n>>
    BY <1>2, <2>1 DEF CubeDims
  <2>3. Len(<<Rows, Cols, m>>) = 3 /\ Len(<<Rows, Cols>>) = 2
    OBVIOUS
  <2>4. n # 1
    BY <1>2, <2>2, <2>3, BlockCube
  <2>5. Dims(v, n) = <<Rows, Cols, n>>
    BY <1>2, <2>4, BlockCube
  <2>6. [<<Rows, Cols, m>> EXCEPT ![3] = @ + n] = <<Rows, Cols, m + n>>
    OBVIOUS
  <2>7. Len(<<Rows, Cols, n>>) = 3 /\ <<Rows, Cols, n>>[3] = n
    OBVIOUS
  <2> QED BY <2>2, <2>5, <2>6, <2>7
<1> QED BY <1>1, <1>2

LEMMA SizesWriteBlock ==
    ASSUME ControlInv, SizesInv, WriteBlock
    PROVE  SizesInv'
<1> DEFINE d == Dims(at, Len(block))
           e == file[at]
           new == Appended(e, d, block)
<1>1. /\ at \in Vars /\ at \in Names /\ Len(block) \in 1 .. ChunkSize /\ block' = << >>
      /\ UNCHANGED <<open, sealed, at, life>>
      /\ \/ file' = [file EXCEPT ![at] = new] /\ CanAppend(e, d) /\ new.kind = "growing"
            /\ new.samples = e.samples \o block
         \/ UNCHANGED file
  BY WriteBlockEffect DEF ControlInv
<1>2. \A v \in Vars : NothingMore(v)' <=> NothingMore(v)
  BY <1>1 DEF NothingMore
<1>3. BlocksInv'
  BY <1>1 DEF SizesInv, BlocksInv
<1>4. CASE UNCHANGED file
  <2>1. CubeInv'
    BY <1>1, <1>2, <1>4 DEF SizesInv, CubeInv
  <2> QED BY <1>3, <2>1 DEF SizesInv
<1>5. CASE /\ file' = [file EXCEPT ![at] = new] /\ CanAppend(e, d) /\ new.kind = "growing"
           /\ new.samples = e.samples \o block
  <2> SUFFICES ASSUME ChunkSize >= 2 PROVE CubeInv'
    BY <1>3 DEF CubeInv, SizesInv
  <2>1. /\ e \in Entries /\ block \in Seq(Nat) /\ file \in [Names -> Entries]
        /\ (e.kind # "growing" => e.samples = << >>)
    BY <1>1 DEF ControlInv, DataInv, DataTypes, EntryInv
  <2>2. d \in Seq(Nat) /\ d # << >>
    <3>1. Len(block) \in Nat
      BY <2>1
    <3> QED BY <3>1, DimsType
  <2> DEFINE m == Len(e.samples)
             n == Len(block)
  <2>3. e.samples \in Seq(Nat) /\ m \in Nat /\ n \in Nat /\ n >= 1
    BY <1>1, <2>1 DEF Entries
  <2>4. Len(new.samples) = m + n
    <3> HIDE DEF new
    <3> QED BY <1>5, <2>1, <2>3, ConcatProperties
  <2>5. \A v \in Vars : v # at => file'[v] = file[v]
    BY <1>5, <2>1 DEF Names
  <2>6. file'[at] = new
    BY <1>1, <1>5, <2>1
  <2>7. m = 1 => FALSE
    <3>1. block # << >>
      BY <2>3, EmptySeq
    <3> QED BY <1>1, <3>1 DEF SizesInv, CubeInv
  <2>8. new.samples # << >>
    <3>1. Len(new.samples) # 0
      BY <2>3, <2>4
    <3> QED BY <3>1
  <2>9. Len(new.samples) = 1 => NothingMore(at)
    <3>1. ASSUME m + n = 1 PROVE NothingMore(at)
      <4>a. n = 1 /\ n # ChunkSize
        <5> HIDE DEF m, n
        <5> QED BY <2>3, <3>1
      <4>1. Len(block) = 1 /\ Len(block) # ChunkSize /\ block # << >>
        BY <4>a
      <4> QED BY <1>1, <4>1 DEF SizesInv, BlocksInv
    <3> HIDE DEF new, m, n
    <3> QED BY <2>4, <3>1
  <2>10. new.dims = CubeDims(at, m + n)
    <3>1. new.dims = IF e.kind = "absent" THEN d ELSE [e.dims EXCEPT ![Len(d)] = @ + d[Len(d)]]
      <4>1. /\ e \in Entries /\ block \in Seq(Nat) /\ d \in Seq(Nat) /\ d # << >>
            /\ (e.kind # "growing" => e.samples = << >>) /\ CanAppend(e, d)
        BY <1>5, <2>1, <2>2
      <4> HIDE DEF e, d
      <4>2. Extended(Appended(e, d, block), e, d, block)
        BY <4>1, AppendedEntry
      <4> QED BY <4>2 DEF Extended
    <3>2. CASE e.kind = "absent"
      <4>1. m = 0
        BY <2>1, <3>2
      <4>2. d = CubeDims(at, n)
        BY <2>3, BlockCube
      <4>3. m + n = n
        BY <2>3, <4>1
      <4> HIDE DEF new, d, e, m, n
      <4> QED BY <3>1, <3>2, <4>2, <4>3
    <3>3. CASE e.kind # "absent"
      <4>1. e.kind = "growing" /\ Len(e.dims) = Len(d)
        <5>1. CanAppend(e, d) /\ e.kind # "absent"
          BY <1>5, <3>3
        <5> HIDE DEF e, d, new
        <5> QED BY <5>1 DEF CanAppend
      <4>2. e.samples # << >> /\ e.dims = CubeDims(at, m)
        BY <1>1, <4>1 DEF SizesInv, CubeInv
      <4>3. m >= 1
        BY <2>3, <4>2, EmptySeq
      <4>4. m # 1
        BY <2>7
      <4>5. Len(CubeDims(at, m)) = Len(Dims(at, n))
        BY <4>1, <4>2
      <4>6. [CubeDims(at, m) EXCEPT ![Len(Dims(at, n))] = @ + Dims(at, n)[Len(Dims(at, n))]]
               = CubeDims(at, m + n)
        <5> HIDE DEF m, n
        <5> QED BY <2>3, <4>3, <4>4, <4>5, CubeGrows
      <4>7. d = Dims(at, n)
        OBVIOUS
      <4>8. [e.dims EXCEPT ![Len(d)] = @ + d[Len(d)]] = CubeDims(at, m + n)
        <5>1. e.dims = CubeDims(at, m) /\ d = Dims(at, n)
          BY <4>2, <4>7
        <5> HIDE DEF new, d, e, m, n
        <5> QED BY <4>6, <5>1
      <4>9. new.dims = [e.dims EXCEPT ![Len(d)] = @ + d[Len(d)]]
        <5> HIDE DEF new, d, e, m, n
        <5> QED BY <3>1, <3>3
      <4> HIDE DEF new, d, e, m, n
      <4> QED BY <4>8, <4>9
    <3> QED BY <3>2, <3>3
  <2>11. ASSUME NEW v \in Vars
         PROVE  /\ file'[v].kind = "growing" => file'[v].samples # << >>
                /\ Len(file'[v].samples) = 1 => NothingMore(v)' /\ (at' = v => block' = << >>)
                /\ file'[v].samples # << >> =>
                      file'[v].dims = CubeDims(v, Len(file'[v].samples))
    <3> HIDE DEF new, d, e, m, n
    <3>1. CASE v = at
      BY <1>1, <1>2, <2>4, <2>6, <2>8, <2>9, <2>10, <3>1
    <3>2. CASE v # at
      BY <1>1, <1>2, <2>5, <3>2 DEF SizesInv, CubeInv
    <3> QED BY <3>1, <3>2
  <2>12. CubeInv'
    BY <2>11 DEF CubeInv
  <2> QED BY <2>12
<1> QED BY <1>1, <1>4, <1>5

LEMMA SizesNext ==
    ASSUME ControlInv, SizesInv, [Next]_allVars
    PROVE  SizesInv'
<1>1. UniformInv /\ FlagInv
  BY DEF ControlInv
<1> QED BY <1>1, DataSteps, SizesQuiet, SizesAddSample, SizesSealBlock, SizesWriteStruct,
           SizesReadBlock, SizesWriteBlock, SizesSealAll

LEMMA SizesInvariant == Spec => []SizesInv
<1>1. ControlInv /\ SizesInv /\ [Next]_allVars => SizesInv'
  BY SizesNext
<1> QED BY <1>1, SizesInit, ControlInvariant, PTL DEF Spec

\* However the samples of a variable are divided among blocks, its entry is the
\* cube (or the table) of all of them.  Blocks of a single sample are left out:
\* with them a matrix's entry has the rank of one slice and grows by columns.
THEOREM Cubes ==
    ASSUME ChunkSize >= 2
    PROVE  Spec => []CubeLayout
<1>1. ControlInv /\ SizesInv => CubeLayout
  <2> SUFFICES ASSUME ControlInv, SizesInv, NEW v \in Vars, Len(file[v].samples) > 0
               PROVE  file[v].dims = CubeDims(v, Len(file[v].samples))
    BY DEF CubeLayout, CubeDims
  <2>1. file[v].samples # << >>
    OBVIOUS
  <2> QED BY <2>1 DEF SizesInv, CubeInv
<1> QED BY <1>1, SizesInvariant, ControlInvariant, PTL

-----------------------------------------------------------------------------
(* The destructor leaves nothing behind.                                    *)

\* A structure that was saved is in the queue, or its name is in the file.
StructInv ==
    /\ matq \in Seq(Structs) /\ saves \in Seq(Structs)
    /\ \A i \in 1 .. Len(saves) :
          \/ \E j \in 1 .. Len(matq) : matq[j] = saves[i]
          \/ file[saves[i]].kind # "absent"

StructsStay == UNCHANGED <<matq, saves, file>>

LEMMA StructSteps ==
    ASSUME [Next]_allVars
    PROVE  StructsStay \/ (\E s \in Structs : Save(s)) \/ WriteStruct \/ WriteBlock
<1> USE DEF mapVars, matVars, bufVars, prodVars, ownerVars, flushVars, fileVars,
            producerFrame, flusherFrame, ownerFrame, StructsStay
<1>1. ASSUME NEW v \in Vars, Create(v) PROVE StructsStay
  BY <1>1 DEF Create, NewVariable
<1>2. ASSUME NEW v \in Vars, Add(v) PROVE StructsStay
  BY <1>2 DEF Add
<1>3. CASE CreateOnAdd
  BY <1>3 DEF CreateOnAdd, NewVariable
<1>4. CASE AddSample
  BY <1>4 DEF AddSample
<1>5. CASE SealBlock
  BY <1>5 DEF SealBlock
<1>6. CASE CallBack
  BY <1>6 DEF CallBack
<1>8. CASE Flush
  BY <1>8 DEF Flush, StartFlush
<1>10. CASE LeaveStructs
  BY <1>10 DEF LeaveStructs
<1>11. CASE LockVars
  BY <1>11 DEF LockVars
<1>12. ASSUME NEW v \in Vars, PickVar(v) PROVE StructsStay
  BY <1>12 DEF PickVar
<1>13. CASE ReadBlock
  BY <1>13 DEF ReadBlock
<1>14. CASE StopReading
  BY <1>14 DEF StopReading
<1>16. CASE LeaveVars
  BY <1>16 DEF LeaveVars
<1>17. CASE BeginSetCallback
  BY <1>17 DEF BeginSetCallback
<1>18. ASSUME NEW v \in Vars, AssignCallback(v) PROVE StructsStay
  BY <1>18 DEF AssignCallback
<1>19. CASE EndSetCallback
  BY <1>19 DEF EndSetCallback
<1>20. ASSUME NEW m \in Modes, SetMode(m) PROVE StructsStay
  BY <1>20 DEF SetMode
<1>21. CASE BeginDestroy
  BY <1>21 DEF BeginDestroy
<1>22. CASE SealAll
  BY <1>22 DEF SealAll, Sealing
<1>23. CASE DestructorFlush
  BY <1>23 DEF DestructorFlush, StartFlush
<1>24. CASE Close
  BY <1>24 DEF Close
<1>25. CASE Terminated
  BY <1>25 DEF Terminated, allVars
<1>26. CASE UNCHANGED allVars
  BY <1>26 DEF allVars
<1> HIDE DEF mapVars, matVars, bufVars, prodVars, ownerVars, flushVars, fileVars,
            producerFrame, flusherFrame, ownerFrame, StructsStay
<1> QED
  BY <1>1, <1>2, <1>3, <1>4, <1>5, <1>6, <1>8, <1>10, <1>11, <1>12, <1>13, <1>14, <1>16, <1>17, <1>18, <1>19, <1>20, <1>21, <1>22, <1>23, <1>24, <1>25, <1>26
  DEF Next, Producer, FlushStep, Owner, Destructor

LEMMA StructNext == ASSUME ControlInv, StructInv, [Next]_allVars PROVE StructInv'
<1>1. CASE StructsStay
  BY <1>1 DEF StructsStay, StructInv
<1>2. ASSUME NEW s \in Structs, Save(s) PROVE StructInv'
  <2>1. matq' = Append(matq, s) /\ saves' = Append(saves, s) /\ UNCHANGED file
    BY <1>2 DEF Save, producerFrame, fileVars
  <2>2. matq \in Seq(Structs) /\ saves \in Seq(Structs)
    BY DEF StructInv
  <2>3. /\ Append(matq, s) \in Seq(Structs) /\ Len(Append(matq, s)) = Len(matq) + 1
        /\ \A j \in 1 .. Len(matq) : Append(matq, s)[j] = matq[j]
        /\ Append(matq, s)[Len(matq) + 1] = s
    BY <2>2, AppendProperties
  <2>4. /\ Append(saves, s) \in Seq(Structs) /\ Len(Append(saves, s)) = Len(saves) + 1
        /\ \A j \in 1 .. Len(saves) : Append(saves, s)[j] = saves[j]
        /\ Append(saves, s)[Len(saves) + 1] = s
    BY <2>2, AppendProperties
  <2>5. Len(matq) \in Nat /\ Len(saves) \in Nat
    BY <2>2
  <2>6. ASSUME NEW i \in 1 .. Len(saves')
        PROVE  \/ \E j \in 1 .. Len(matq') : matq'[j] = saves'[i]
               \/ file'[saves'[i]].kind # "absent"
    <3>1. CASE i = Len(saves) + 1
      <4>1. Len(matq) + 1 \in 1 .. Len(matq') /\ matq'[Len(matq) + 1] = saves'[i]
        BY <2>1, <2>3, <2>4, <2>5, <3>1
      <4> QED BY <4>1
    <3>2. CASE i # Len(saves) + 1
      <4>1. i \in 1 .. Len(saves) /\ saves'[i] = saves[i]
        BY <2>1, <2>4, <2>5, <3>2
      <4>2. CASE file[saves[i]].kind # "absent"
        BY <2>1, <4>1, <4>2
      <4>3. ASSUME NEW j \in 1 .. Len(matq), matq[j] = saves[i]
            PROVE  \E k \in 1 .. Len(matq') : matq'[k] = saves'[i]
        <5>1. j \in 1 .. Len(matq') /\ matq'[j] = saves'[i]
          BY <2>1, <2>3, <2>5, <4>1, <4>3
        <5> QED BY <5>1
      <4> QED BY <4>1, <4>2, <4>3 DEF StructInv
    <3> QED BY <3>1, <3>2
  <2> QED BY <2>1, <2>3, <2>4, <2>6 DEF StructInv
<1>3. CASE WriteStruct
  <2>1. /\ matq # << >> /\ matq' = Tail(matq) /\ saves' = saves
        /\ file' = IF CanCreate(file[Head(matq)]) THEN [file EXCEPT ![Head(matq)] = Whole] ELSE file
    BY <1>3 DEF WriteStruct, flusherFrame, prodVars
  <2>2. matq \in Seq(Structs) /\ saves \in Seq(Structs) /\ file \in [Names -> Entries]
    BY DEF StructInv, ControlInv, DataInv, DataTypes
  <2>3. /\ Tail(matq) \in Seq(Structs) /\ Len(Tail(matq)) = Len(matq) - 1
        /\ \A j \in 1 .. Len(Tail(matq)) : Tail(matq)[j] = matq[j + 1]
        /\ Head(matq) = matq[1] /\ Head(matq) \in Structs
    BY <2>1, <2>2, HeadTailProperties
  <2>4. Len(matq) \in Nat /\ Len(matq) # 0
    BY <2>1, <2>2, EmptySeq
  <2>5. file'[Head(matq)].kind # "absent" /\ \A n \in Names : n # Head(matq) => file'[n] = file[n]
    <3>1. CASE CanCreate(file[Head(matq)])
      <4>1. file' = [file EXCEPT ![Head(matq)] = Whole] /\ Whole.kind = "whole"
        BY <2>1, <3>1 DEF Whole
      <4> QED BY <2>2, <2>3, <4>1 DEF Names
    <3>2. CASE ~ CanCreate(file[Head(matq)])
      BY <2>1, <3>2 DEF CanCreate
    <3> QED BY <3>1, <3>2
  <2>6. ASSUME NEW i \in 1 .. Len(saves)
        PROVE  \/ \E j \in 1 .. Len(matq') : matq'[j] = saves[i]
               \/ file'[saves[i]].kind # "absent"
    <3>1. saves[i] \in Names
      BY <2>2 DEF Names
    <3>2. CASE file[saves[i]].kind # "absent"
      BY <2>5, <3>1, <3>2
    <3>3. ASSUME NEW j \in 1 .. Len(matq), matq[j] = saves[i]
          PROVE  \/ \E k \in 1 .. Len(matq') : matq'[k] = saves[i]
                 \/ file'[saves[i]].kind # "absent"
      <4>1. CASE j = 1
        BY <2>3, <2>5, <3>3, <4>1
      <4>2. CASE j # 1
        <5>1. j - 1 \in 1 .. Len(matq') /\ (j - 1) + 1 = j
          BY <2>1, <2>3, <2>4, <4>2
        <5>2. matq'[j - 1] = matq[j]
          BY <2>1, <2>3, <5>1
        <5> QED BY <3>3, <5>1, <5>2
      <4> QED BY <4>1, <4>2
    <3> QED BY <3>2, <3>3 DEF StructInv
  <2> QED BY <2>1, <2>2, <2>3, <2>6 DEF StructInv
<1>4. CASE WriteBlock
  <2>1. matq' = matq /\ saves' = saves
    BY <1>4 DEF WriteBlock, matVars, flusherFrame, prodVars
  <2>2. \A n \in Names : file'[n] = file[n] \/ file'[n].kind = "growing"
    <3> DEFINE new == Appended(file[at], Dims(at, Len(block)), block)
    <3>1. \/ file' = [file EXCEPT ![at] = new] /\ new.kind = "growing"
          \/ UNCHANGED file
      BY <1>4, WriteBlockEffect DEF ControlInv
    <3> HIDE DEF new
    <3> QED BY <3>1 DEF ControlInv, DataInv, DataTypes
  <2>3. \A i \in 1 .. Len(saves) : saves[i] \in Names
    BY DEF StructInv, Names
  <2>4. ASSUME NEW i \in 1 .. Len(saves), file[saves[i]].kind # "absent"
        PROVE  file'[saves[i]].kind # "absent"
    BY <2>2, <2>3, <2>4
  <2> QED BY <2>1, <2>4 DEF StructInv
<1> QED BY <1>1, <1>2, <1>3, <1>4, StructSteps

\* What the rounds of the destructor have already dealt with: bytes tells whether
\* the present round found a block.
DrainInv ==
    /\ life \in {"drain", "drained", "closed"} => \A v \in Vars : open[v] = << >>
    /\ life = "drained" =>
          /\ flushPc # "structs" => matq = << >>
          /\ flushPc \in {"structs", "lock"} => ~ bytes
          /\ flushPc = "idle" => todo = {}
          /\ flushPc \notin {"structs", "lock"} /\ ~ bytes =>
                \A v \in Vars : sealed[v] = << >> \/ v \in todo \/ (v = at /\ flushPc = "read")
    /\ life = "closed" => matq = << >> /\ \A v \in Vars : sealed[v] = << >>

LEMMA DrainNext == ControlInv /\ DrainInv /\ [Next]_allVars => DrainInv'
<1> SUFFICES ASSUME ControlInv, DrainInv, [Next]_allVars PROVE DrainInv'
  OBVIOUS
<1>a. /\ prodPc # "idle" => life = "alive"
      /\ flushPc # "threw" /\ mode \in {"producer_consumer", "circular_buffer"}
      /\ life \in {"alive", "seal", "room", "drain", "drained", "closed"}
      /\ bytes \in BOOLEAN
      /\ \A v \in Vars \ vars : open[v] = << >> /\ sealed[v] = << >>
      /\ life \in {"room", "drain", "closed"} => flushPc = "idle"
      /\ flushPc \in {"read", "write"} => at \in vars
      /\ flushPc \in {"idle", "structs", "lock", "walk", "read", "write", "threw"}
  BY DEF ControlInv, UniformInv, FlagInv, DataInv, ModeInv, CallbackInv, SizeInv
<1>b. sealed \in [Vars -> Seq(Seq(Nat))]
  BY DEF ControlInv, DataInv, DataTypes
<1> USE DEF mapVars, matVars, bufVars, prodVars, ownerVars, flushVars, fileVars,
            producerFrame, flusherFrame, ownerFrame, DrainInv
<1>1. ASSUME NEW v \in Vars, Create(v) PROVE DrainInv'
  BY <1>a, <1>1 DEF Create, NewVariable
<1>2. ASSUME NEW v \in Vars, Add(v) PROVE DrainInv'
  BY <1>a, <1>2 DEF Add
<1>3. CASE CreateOnAdd
  BY <1>a, <1>3 DEF CreateOnAdd, NewVariable
<1>4. CASE AddSample
  BY <1>a, <1>4 DEF AddSample
<1>5. CASE SealBlock
  BY <1>a, <1>5 DEF SealBlock
<1>6. CASE CallBack
  BY <1>a, <1>6 DEF CallBack
<1>7. ASSUME NEW s \in Structs, Save(s) PROVE DrainInv'
  BY <1>a, <1>7 DEF Save
<1>8. CASE Flush
  BY <1>a, <1>8 DEF Flush, StartFlush
<1>9. CASE WriteStruct
  BY <1>a, <1>9 DEF WriteStruct
<1>10. CASE LeaveStructs
  BY <1>a, <1>10 DEF LeaveStructs
<1>11. CASE LockVars
  BY <1>a, <1>11 DEF LockVars
<1>12. ASSUME NEW v \in Vars, PickVar(v) PROVE DrainInv'
  BY <1>a, <1>12 DEF PickVar
<1>13. CASE ReadBlock
  BY <1>a, <1>13 DEF ReadBlock
<1>14. CASE StopReading
  <2>1. vmode[at] # "circular_buffer"
    BY <1>14 DEF StopReading, ControlInv, UniformInv, ModeInv
  <2>2. sealed[at] = << >> /\ flushPc' = "walk" /\ flushPc = "read"
    BY <1>14, <2>1 DEF StopReading
  <2>3. UNCHANGED <<life, open, matq, bytes, todo, sealed>>
    BY <1>14 DEF StopReading
  <2> QED BY <2>2, <2>3
<1>15. CASE WriteBlock
  BY <1>a, <1>15 DEF WriteBlock
<1>16. CASE LeaveVars
  BY <1>a, <1>16 DEF LeaveVars
<1>17. CASE BeginSetCallback
  BY <1>a, <1>17 DEF BeginSetCallback
<1>18. ASSUME NEW v \in Vars, AssignCallback(v) PROVE DrainInv'
  BY <1>a, <1>18 DEF AssignCallback
<1>19. CASE EndSetCallback
  BY <1>a, <1>19 DEF EndSetCallback
<1>20. ASSUME NEW m \in Modes, SetMode(m) PROVE DrainInv'
  BY <1>a, <1>20 DEF SetMode
<1>21. CASE BeginDestroy
  BY <1>a, <1>21 DEF BeginDestroy
<1>22. CASE SealAll
  <2>1. /\ life' = IF \A v \in vars : CanSeal(v) THEN "drain" ELSE "room"
        /\ open' = [v \in Vars |-> IF CanSeal(v) THEN << >> ELSE open[v]]
    BY <1>22 DEF SealAll, Sealing
  <2>2. CASE \A v \in vars : CanSeal(v)
    <3>1. \A v \in Vars : open'[v] = << >>
      BY <1>a, <2>1, <2>2 DEF CanSeal
    <3> QED BY <2>1, <2>2, <3>1
  <2>3. CASE ~ \A v \in vars : CanSeal(v)
    BY <2>1, <2>3
  <2> QED BY <2>2, <2>3
<1>23. CASE DestructorFlush
  BY <1>a, <1>23 DEF DestructorFlush, StartFlush
<1>24. CASE Close
  BY <1>a, <1>24 DEF Close
<1>25. CASE Terminated
  BY <1>a, <1>25 DEF Terminated, allVars
<1>26. CASE UNCHANGED allVars
  BY <1>a, <1>26 DEF allVars
<1> QED
  BY <1>1, <1>2, <1>3, <1>4, <1>5, <1>6, <1>7, <1>8, <1>9, <1>10, <1>11, <1>12, <1>13, <1>14, <1>15, <1>16, <1>17, <1>18, <1>19, <1>20, <1>21, <1>22, <1>23, <1>24, <1>25, <1>26
  DEF Next, Producer, FlushStep, Owner, Destructor

LEMMA CompleteInvariant == Spec => [](StructInv /\ DrainInv)
<1>1. Init => StructInv /\ DrainInv
  <2>1. << >> \in Seq(Structs) /\ Len(<< >>) = 0
    OBVIOUS
  <2> QED BY <2>1 DEF Init, StructInv, DrainInv
<1>2. ControlInv /\ StructInv /\ DrainInv /\ [Next]_allVars => (StructInv /\ DrainInv)'
  BY StructNext, DrainNext
<1> QED BY <1>1, <1>2, ControlInvariant, PTL DEF Spec

\* Once the backend is closed, no sample and no structure is left in the logger.
THEOREM Complete == Spec => []ClosedIsComplete
<1>1. ControlInv /\ FlowInv /\ StructInv /\ DrainInv => ClosedIsComplete
  <2> SUFFICES ASSUME ControlInv, FlowInv, StructInv, DrainInv, life = "closed"
               PROVE  /\ matq = << >>
                      /\ \A v \in Vars : Len(file[v].samples) + lost[v] + refused[v] = added[v]
                      /\ \A i \in DOMAIN saves : file[saves[i]].kind # "absent"
    BY DEF ClosedIsComplete
  <2>1. matq = << >>
    BY DEF DrainInv
  <2>2. ASSUME NEW v \in Vars PROVE Len(file[v].samples) + lost[v] + refused[v] = added[v]
    <3>1. Pipeline(v) = file[v].samples
      <4>1. sealed[v] = << >> /\ open[v] = << >> /\ block = << >>
        BY DEF DrainInv, ControlInv, FlagInv
      <4>2. Held(v) = << >> /\ Queued(v) = << >>
        BY <4>1 DEF Held, Queued, FlattenSeq
      <4>3. Cat(Written(v), << >>) = Written(v)
        BY Parts, CatEmpty
      <4> QED BY <4>1, <4>2, <4>3, Parts DEF Written
    <3> QED BY <3>1 DEF FlowInv
  <2>3. ASSUME NEW i \in DOMAIN saves PROVE file[saves[i]].kind # "absent"
    <3>1. i \in 1 .. Len(saves)
      BY DEF StructInv
    <3>2. Len(matq) = 0
      BY <2>1
    <3> QED BY <3>1, <3>2 DEF StructInv
  <2> QED BY <2>1, <2>2, <2>3
<1> QED BY <1>1, ControlInvariant, FlowInvariant, CompleteInvariant, PTL

-----------------------------------------------------------------------------
(* What a logger in circular mode keeps.                                    *)

ModeStays ==
    /\ mode' = mode /\ wasCircular' = wasCircular
    /\ life' = "alive" <=> life = "alive"

LEMMA ModeSteps ==
    ASSUME [Next]_allVars
    PROVE  ModeStays \/ (\E m \in Modes : SetMode(m)) \/ BeginDestroy
<1> USE DEF mapVars, matVars, bufVars, prodVars, ownerVars, flushVars, fileVars,
            producerFrame, flusherFrame, ownerFrame, ModeStays
<1>1. ASSUME NEW v \in Vars, Create(v) PROVE ModeStays
  BY <1>1 DEF Create, NewVariable
<1>2. ASSUME NEW v \in Vars, Add(v) PROVE ModeStays
  BY <1>2 DEF Add
<1>3. CreateOnAdd => ModeStays
  BY DEF CreateOnAdd, NewVariable
<1>4. AddSample => ModeStays
  BY DEF AddSample
<1>5. SealBlock => ModeStays
  BY DEF SealBlock
<1>6. CallBack => ModeStays
  BY DEF CallBack
<1>7. ASSUME NEW s \in Structs, Save(s) PROVE ModeStays
  BY <1>7 DEF Save
<1>8. Flush => ModeStays
  BY DEF Flush, StartFlush
<1>9. WriteStruct => ModeStays
  BY DEF WriteStruct
<1>10. LeaveStructs => ModeStays
  BY DEF LeaveStructs
<1>11. LockVars => ModeStays
  BY DEF LockVars
<1>12. ASSUME NEW v \in Vars, PickVar(v) PROVE ModeStays
  BY <1>12 DEF PickVar
<1>13. ReadBlock => ModeStays
  BY DEF ReadBlock
<1>14. StopReading => ModeStays
  BY DEF StopReading
<1>15. WriteBlock => ModeStays
  BY DEF WriteBlock
<1>16. LeaveVars => ModeStays
  BY DEF LeaveVars
<1>17. BeginSetCallback => ModeStays
  BY DEF BeginSetCallback
<1>18. ASSUME NEW v \in Vars, AssignCallback(v) PROVE ModeStays
  BY <1>18 DEF AssignCallback
<1>19. EndSetCallback => ModeStays
  BY DEF EndSetCallback
<1>22. SealAll => ModeStays
  BY DEF SealAll, Sealing
<1>23. DestructorFlush => ModeStays
  BY DEF DestructorFlush, StartFlush
<1>24. Close => ModeStays
  BY DEF Close
<1>25. Terminated => ModeStays
  BY DEF Terminated, allVars
<1>26. UNCHANGED allVars => ModeStays
  BY DEF allVars
<1> HIDE DEF mapVars, matVars, bufVars, prodVars, ownerVars, flushVars, fileVars,
            producerFrame, flusherFrame, ownerFrame, ModeStays
<1> QED
  BY <1>1, <1>2, <1>3, <1>4, <1>5, <1>6, <1>7, <1>8, <1>9, <1>10, <1>11, <1>12, <1>13, <1>14, <1>15, <1>16, <1>17, <1>18, <1>19, <1>22, <1>23, <1>24, <1>25, <1>26
  DEF Next, Producer, FlushStep, Owner, Destructor

\* In circular mode nothing has gone to the file: the last samples are in the
\* buffer, where every queued block is full, and every place is taken as soon as
\* one was overwritten.
Ring(v) ==
    /\ Written(v) = << >> /\ refused[v] = 0
    /\ Len(Queued(v)) = ChunkSize * Len(sealed[v])
    /\ Latest(Pipeline(v), added[v])
    /\ lost[v] > 0 => Len(sealed[v]) = Chunks - 1
    /\ lost[v] > 0 => open[v] # << >> \/ (target = v /\ prodPc \in {"add", "callback"})

\* What the destructor finds and brings to the file.
Window(v) ==
    refused[v] = 0 =>
        /\ Latest(Pipeline(v), added[v])
        /\ lost[v] = 0 \/ Len(Pipeline(v)) > (Chunks - 1) * ChunkSize

CircularInv ==
    /\ life = "alive" /\ mode = "circular_buffer" => \A v \in Vars : Ring(v)
    /\ life # "alive" /\ wasCircular => \A v \in Vars : Window(v)

\* The samples in the buffer are all there are.
LEMMA RingPipeline ==
    ASSUME ControlInv, NEW v \in Vars, Written(v) = << >>, flushPc = "idle"
    PROVE  /\ Cat(Written(v), Held(v)) = << >>
           /\ Pipeline(v) = Cat(Queued(v), open[v])
           /\ Len(Pipeline(v)) = Len(Queued(v)) + Len(open[v])
<1>1. Held(v) = << >>
  BY DEF ControlInv, FlagInv, Held
<1>2. << >> \in Seq(Nat) /\ Queued(v) \in Seq(Nat) /\ open[v] \in Seq(Nat)
  BY Parts
<1>3. Cat(<< >>, << >>) = << >>
  BY <1>2, CatEmpty
<1>4. Cat(<< >>, Queued(v)) = Queued(v)
  BY <1>2, CatEmpty
<1>5. Pipeline(v) = Cat(Queued(v), open[v])
  BY <1>1, <1>3, <1>4, Parts
<1>6. Splits(Cat(Queued(v), open[v]), Queued(v), open[v])
  BY <1>2, CatSplits
<1> QED BY <1>1, <1>3, <1>5, <1>6 DEF Splits

LEMMA NothingLatest == ASSUME NEW n PROVE Latest(<< >>, n)
BY DEF Latest

\* The mode is chosen before the first sample.
LEMMA RingStarts ==
    ASSUME ControlInv, FlowInv, NEW m \in Modes, SetMode(m), NEW v \in Vars
    PROVE  Ring(v)'
<1>1. added[v] = 0 /\ flushPc = "idle"
  BY DEF SetMode
<1>2. Quiet
  BY DEF SetMode, Quiet, bufVars, prodVars, producerFrame, flushVars, fileVars
<1>3. /\ Pipeline(v) \in Seq(Nat) /\ lost[v] \in Nat /\ refused[v] \in Nat
      /\ 0 = Len(Pipeline(v)) + lost[v] + refused[v]
  BY <1>1, Parts DEF ControlInv, DataInv, DataTypes, FlowInv
<1>4. Len(Pipeline(v)) = 0 /\ lost[v] = 0 /\ refused[v] = 0
  <2>1. Len(Pipeline(v)) \in Nat
    BY <1>3
  <2> QED BY <1>3, <2>1
<1>5. Pipeline(v) = << >>
  BY <1>3, <1>4, EmptySeq
<1>6. Len(Written(v)) = 0 /\ Len(Queued(v)) = 0
  <2>1. /\ Written(v) \in Seq(Nat) /\ Held(v) \in Seq(Nat) /\ Queued(v) \in Seq(Nat)
        /\ open[v] \in Seq(Nat) /\ Cat(Written(v), Held(v)) \in Seq(Nat)
        /\ Cat(Cat(Written(v), Held(v)), Queued(v)) \in Seq(Nat)
    BY Parts
  <2>2. Splits(Cat(Written(v), Held(v)), Written(v), Held(v))
    BY <2>1, CatSplits
  <2>3. Splits(Cat(Cat(Written(v), Held(v)), Queued(v)), Cat(Written(v), Held(v)), Queued(v))
    BY <2>1, CatSplits
  <2>4. Splits(Cat(Cat(Cat(Written(v), Held(v)), Queued(v)), open[v]),
               Cat(Cat(Written(v), Held(v)), Queued(v)), open[v])
    BY <2>1, CatSplits
  <2>5. Len(Pipeline(v)) = Len(Written(v)) + Len(Held(v)) + Len(Queued(v)) + Len(open[v])
    BY <2>2, <2>3, <2>4, Parts DEF Splits
  <2> DEFINE w == Len(Written(v))
             h == Len(Held(v))
             q == Len(Queued(v))
             o == Len(open[v])
  <2>6. w \in Nat /\ h \in Nat /\ q \in Nat /\ o \in Nat /\ 0 = w + h + q + o
    <3>1. w \in Nat /\ h \in Nat /\ q \in Nat /\ o \in Nat
      BY <2>1
    <3>2. Len(Pipeline(v)) = w + h + q + o
      BY <2>5
    <3> HIDE DEF w, h, q, o
    <3> QED BY <1>4, <3>1, <3>2
  <2> HIDE DEF w, h, q, o
  <2>7. w = 0 /\ q = 0
    BY <2>6
  <2> QED BY <2>7 DEF w, q
<1>7. sealed[v] = << >>
  <2> SUFFICES ASSUME sealed[v] # << >> PROVE FALSE
    OBVIOUS
  <2>1. /\ Head(sealed[v]) \in Seq(Nat) /\ Len(Head(sealed[v])) \in 1 .. ChunkSize
        /\ Tail(sealed[v]) \in Seq(Seq(Nat))
    BY OldestBlock DEF ControlInv
  <2>2. FlattenSeq(Tail(sealed[v])) \in Seq(Nat)
    BY <2>1, FlattenCat
  <2>3. Queued(v) = Cat(Head(sealed[v]), FlattenSeq(Tail(sealed[v])))
    BY Parts, FlattenCat DEF Queued
  <2>4. Splits(Queued(v), Head(sealed[v]), FlattenSeq(Tail(sealed[v])))
    BY <2>1, <2>2, <2>3, CatSplits
  <2>5. Len(Queued(v)) = Len(Head(sealed[v])) + Len(FlattenSeq(Tail(sealed[v])))
    BY <2>4 DEF Splits
  <2>6. Len(FlattenSeq(Tail(sealed[v]))) \in Nat
    BY <2>2
  <2> DEFINE h == Len(Head(sealed[v]))
             t == Len(FlattenSeq(Tail(sealed[v])))
  <2>7. h \in Nat /\ h >= 1 /\ t \in Nat /\ 0 = h + t
    <3>1. h \in 1 .. ChunkSize /\ t \in Nat /\ Len(Queued(v)) = h + t
      BY <2>1, <2>5, <2>6
    <3> HIDE DEF h, t
    <3> QED BY <1>6, <3>1
  <2> HIDE DEF h, t
  <2> QED BY <2>7
<1>8. Pipeline(v)' = << >> /\ lost'[v] = 0 /\ refused'[v] = 0
  BY <1>2, <1>4, <1>5, FlowQuiet DEF Kept, SameCounts
<1>9. Written(v)' = << >> /\ Queued(v)' = << >> /\ sealed'[v] = << >>
  <2>1. Written(v) = << >> /\ Queued(v) = << >>
    BY <1>6, Parts, EmptySeq
  <2> QED BY <1>2, <1>7, <2>1 DEF Quiet, Written, Queued
<1>10. Len(<< >>) = 0 /\ ChunkSize * 0 = 0
  OBVIOUS
<1> QED BY <1>8, <1>9, <1>10, NothingLatest DEF Ring

LEMMA RingQuiet ==
    ASSUME ControlInv, NEW v \in Vars, Ring(v), Quiet
    PROVE  Ring(v)'
<1>1. Pipeline(v)' = Pipeline(v) /\ UNCHANGED <<added[v], lost[v], refused[v]>>
  BY FlowQuiet DEF Kept, SameCounts
<1>2. Written(v)' = Written(v) /\ Queued(v)' = Queued(v) /\ open'[v] = open[v] /\ sealed'[v] = sealed[v]
  BY DEF Quiet, Written, Queued
<1>3. prodPc \in {"add", "callback"} => prodPc' \in {"add", "callback"} /\ target' = target
  BY DEF Quiet
<1> QED BY <1>1, <1>2, <1>3 DEF Ring

LEMMA RingAddSample ==
    ASSUME ControlInv, NEW v \in Vars, Ring(v), AddSample
    PROVE  Ring(v)'
<1>1. /\ Written(v)' = Written(v) /\ Queued(v)' = Queued(v) /\ sealed'[v] = sealed[v]
      /\ UNCHANGED <<lost, refused>>
  BY DEF AddSample, producerFrame, fileVars, Written, Queued
<1>2. /\ open' = [open EXCEPT ![target] = Append(@, added[target] + 1)] /\ target \in Vars
      /\ open \in [Vars -> Seq(Nat)] /\ added[v] \in Nat
  BY DEF AddSample, ControlInv, FlagInv, DataInv, DataTypes
<1>3. Latest(Pipeline(v)', added'[v])
  <2>1. CASE Kept(v)
    BY <2>1 DEF Kept, SameCounts, Ring
  <2>2. CASE Grown(v)
    <3>1. Pipeline(v) \in Seq(Nat) /\ Latest(Pipeline(v), added[v])
      BY Parts DEF Ring
    <3>2. Latest(Append(Pipeline(v), added[v] + 1), added[v] + 1)
      BY <1>2, <3>1, LatestAppend
    <3> QED BY <2>2, <3>2 DEF Grown
  <2> QED BY <2>1, <2>2, FlowAddSample
<1>4. lost'[v] > 0 => open'[v] # << >>
  <2>1. CASE v = target
    <3>1. open'[v] = Append(open[v], added[v] + 1) /\ open[v] \in Seq(Nat)
      BY <1>2, <2>1
    <3>2. Append(open[v], added[v] + 1) # << >>
      BY <1>2, <3>1, AppendProperties
    <3> QED BY <3>1, <3>2
  <2>2. CASE v # target
    BY <1>1, <1>2, <2>2 DEF Ring
  <2> QED BY <2>1, <2>2
<1> QED BY <1>1, <1>3, <1>4 DEF Ring

LEMMA RingSealBlock ==
    ASSUME ControlInv, SizesInv, NEW v \in Vars, Ring(v), SealBlock, flushPc = "idle",
           mode = "circular_buffer"
    PROVE  Ring(v)'
<1> DEFINE full == Append(sealed[target], open[target])
           L == Len(sealed[v])
           Q == Len(Queued(v))
<1>1. /\ life = "alive" /\ UNCHANGED <<added, refused, target>> /\ Written(v)' = Written(v)
      /\ target \in Vars /\ prodPc \in {"add", "callback"}
      /\ Len(open[target]) = ChunkSize /\ vmode[target] = "circular_buffer"
      /\ open' = [open EXCEPT ![target] = << >>]
  BY DEF SealBlock, producerFrame, ownerVars, fileVars, ControlInv, UniformInv, FlagInv, ModeInv, Written
<1>2. /\ prodPc' = "callback"
      /\ \/ HasRoom(target) /\ sealed' = [sealed EXCEPT ![target] = full] /\ UNCHANGED lost
         \/ /\ ~ HasRoom(target) /\ sealed' = [sealed EXCEPT ![target] = Tail(full)]
            /\ lost' = [lost EXCEPT ![target] = @ + Len(Head(full))]
  BY <1>1 DEF SealBlock
<1>3. /\ sealed \in [Vars -> Seq(Seq(Nat))] /\ open \in [Vars -> Seq(Nat)]
      /\ lost \in [Vars -> Nat] /\ L \in Nat /\ L < Chunks
  BY DEF ControlInv, DataInv, DataTypes, SizeInv
<1>4. CASE v # target
  <2>1. sealed'[v] = sealed[v] /\ open'[v] = open[v] /\ lost'[v] = lost[v]
    BY <1>1, <1>2, <1>3, <1>4
  <2>2. Queued(v)' = Queued(v)
    BY <2>1 DEF Queued
  <2>3. Held(v)' = Held(v)
    BY DEF SealBlock, producerFrame, flushVars, Held
  <2>4. Pipeline(v)' = Pipeline(v)
    BY <1>1, <2>1, <2>2, <2>3, Parts, PartsNext DEF PartsOf
  <2> QED BY <1>1, <1>4, <2>1, <2>2, <2>4 DEF Ring
<1>5. CASE v = target
  <2>0. /\ full \in Seq(Seq(Nat)) /\ Len(full) = L + 1 /\ Len(Tail(full)) = L
        /\ Tail(full) \in Seq(Seq(Nat)) /\ Head(full) \in Seq(Nat)
    <3>1. open[v] # << >> /\ full = Append(sealed[v], open[v])
      BY <1>1, <1>5, EmptySeq
    <3> HIDE DEF full
    <3> QED BY <3>1, FullBlock DEF ControlInv
  <2>1. /\ FlattenSeq(full) = Cat(Queued(v), open[v])
        /\ FlattenSeq(full) = Cat(Head(full), FlattenSeq(Tail(full)))
        /\ FlattenSeq(Tail(full)) \in Seq(Nat)
    <3>1. sealed[v] \in Seq(Seq(Nat)) /\ open[v] \in Seq(Nat) /\ full = Append(sealed[v], open[v])
      BY <1>3, <1>5
    <3> HIDE DEF full
    <3>2. FlattenSeq(full) = Cat(FlattenSeq(sealed[v]), open[v])
      BY <3>1, FlattenCat
    <3>3. full # << >>
      BY <1>3, <2>0, EmptySeq
    <3>4. FlattenSeq(full) = Cat(Head(full), FlattenSeq(Tail(full)))
      BY <2>0, <3>3, FlattenCat
    <3>5. FlattenSeq(Tail(full)) \in Seq(Nat)
      BY <2>0, FlattenCat
    <3> QED BY <3>2, <3>4, <3>5 DEF Queued
  <2>2. Pipeline(v) = FlattenSeq(full) /\ Q = ChunkSize * L /\ Len(FlattenSeq(full)) = Q + ChunkSize
    <3>1. Pipeline(v) = Cat(Queued(v), open[v]) /\ Len(Pipeline(v)) = Q + ChunkSize
      BY <1>1, <1>5, RingPipeline DEF Ring
    <3>2. Q = ChunkSize * L
      BY DEF Ring
    <3> HIDE DEF full, Q, L
    <3> QED BY <2>1, <3>1, <3>2
  <2>3. Written(v)' = << >> /\ Held(v)' = << >> /\ open'[v] = << >>
    <3>1. block' = << >>
      BY DEF SealBlock, producerFrame, flushVars, ControlInv, FlagInv
    <3> QED BY <1>1, <1>3, <1>5, <3>1 DEF Ring, Held
  <2>4. Queued(v)' \in Seq(Nat) => Pipeline(v)' = Queued(v)'
    <3> SUFFICES ASSUME Queued(v)' \in Seq(Nat) PROVE Pipeline(v)' = Queued(v)'
      OBVIOUS
    <3> DEFINE q == Queued(v)'
    <3>1. Pipeline(v)' = Cat(Cat(Cat(<< >>, << >>), q), << >>)
      BY <2>3, PartsNext DEF PartsOf
    <3> HIDE DEF q
    <3>2. q \in Seq(Nat) /\ << >> \in Seq(Nat)
      BY DEF q
    <3>3. Cat(<< >>, << >>) = << >> /\ Cat(<< >>, q) = q /\ Cat(q, << >>) = q
      BY <3>2, CatEmpty
    <3>4. Pipeline(v)' = q
      BY <3>1, <3>3
    <3> QED BY <3>4 DEF q
  <2>5. CASE HasRoom(target) /\ sealed' = [sealed EXCEPT ![target] = full] /\ UNCHANGED lost
    <3>1. sealed'[v] = full /\ Queued(v)' = FlattenSeq(full)
      BY <1>3, <1>5, <2>5 DEF Queued
    <3>2. Pipeline(v)' = Pipeline(v)
      <4>1. FlattenSeq(full) \in Seq(Nat)
        <5> HIDE DEF full
        <5> QED BY <2>0, FlattenCat
      <4> QED BY <2>2, <2>4, <3>1, <4>1
    <3>3. Len(Queued(v)') = ChunkSize * Len(sealed'[v])
      <4>1. ChunkSize * (L + 1) = ChunkSize * L + ChunkSize
        <5> HIDE DEF L
        <5> QED BY <1>3
      <4> HIDE DEF full, L, Q
      <4> QED BY <2>0, <2>2, <3>1, <4>1
    <3>4. lost'[v] = 0
      <4>1. L # Chunks - 1
        BY <1>5, <2>5 DEF HasRoom
      <4> QED BY <1>3, <2>5, <4>1 DEF Ring
    <3> QED BY <1>1, <2>3, <3>2, <3>3, <3>4 DEF Ring
  <2>6. CASE /\ ~ HasRoom(target) /\ sealed' = [sealed EXCEPT ![target] = Tail(full)]
             /\ lost' = [lost EXCEPT ![target] = @ + Len(Head(full))]
    <3>1. sealed'[v] = Tail(full) /\ Queued(v)' = FlattenSeq(Tail(full))
      BY <1>3, <1>5, <2>6 DEF Queued
    <3>2. Len(sealed'[v]) = Chunks - 1
      <4>1. L >= Chunks - 1
        BY <1>3, <1>5, <2>6 DEF HasRoom
      <4> HIDE DEF full, L
      <4> QED BY <1>3, <2>0, <3>1, <4>1
    <3>3. Pipeline(v)' = FlattenSeq(Tail(full))
      BY <2>1, <2>4, <3>1
    <3>4. Latest(FlattenSeq(Tail(full)), added[v])
      <4> DEFINE b == Head(full)
                 c == FlattenSeq(Tail(full))
      <4>1. /\ b \in Seq(Nat) /\ c \in Seq(Nat) /\ added[v] \in Nat
            /\ Latest(Cat(b, c), added[v])
        BY <2>0, <2>1, <2>2 DEF Ring, ControlInv, FlagInv
      <4> HIDE DEF b, c
      <4>2. Latest(c, added[v])
        BY <4>1, LatestTail
      <4> QED BY <4>2 DEF c
    <3>5. Len(Head(full)) = ChunkSize
      <4>1. sealed[v] \in Seq(Seq(Nat)) /\ open[v] \in Seq(Nat) /\ full = Append(sealed[v], open[v])
        BY <1>3, <1>5
      <4>2. /\ \A i \in 1 .. L : full[i] = sealed[v][i]
            /\ full[L + 1] = open[v]
        BY <4>1, AppendProperties
      <4>3. L >= 1
        BY <1>3, <3>1, <3>2, <2>0
      <4>4. 1 \in 1 .. L
        BY <1>3, <4>3
      <4>5. Len(sealed[v][1]) = ChunkSize
        BY <1>1, <4>4, FullBlocks
      <4>6. Head(full) = full[1]
        <5> HIDE DEF full
        <5>1. full # << >>
          BY <1>3, <2>0, EmptySeq
        <5> QED BY <2>0, <5>1, HeadTailProperties
      <4> QED BY <4>2, <4>4, <4>5, <4>6
    <3>6. Len(Queued(v)') = ChunkSize * Len(sealed'[v])
      <4> DEFINE b == Head(full)
                 c == FlattenSeq(Tail(full))
      <4>1. b \in Seq(Nat) /\ c \in Seq(Nat) /\ FlattenSeq(full) = Cat(b, c) /\ Len(b) = ChunkSize
        BY <2>0, <2>1, <3>5
      <4> HIDE DEF b, c
      <4>2. Splits(Cat(b, c), b, c)
        BY <4>1, CatSplits
      <4>3. Len(FlattenSeq(full)) = ChunkSize + Len(c) /\ Len(c) \in Nat
        BY <4>1, <4>2 DEF Splits
      <4>4. Len(c) = ChunkSize * L
        <5>1. ChunkSize * L \in Nat
          BY <1>3
        <5> HIDE DEF full, L, Q
        <5> QED BY <2>2, <4>3, <5>1
      <4>5. Len(sealed'[v]) = L
        BY <2>0, <3>1
      <4> HIDE DEF full, L, Q
      <4> QED BY <3>1, <4>4, <4>5 DEF c
    <3> QED BY <1>1, <1>2, <1>5, <2>3, <3>2, <3>3, <3>4, <3>6 DEF Ring
  <2> QED BY <1>2, <2>5, <2>6
<1> QED BY <1>4, <1>5

\* What the destructor of a logger in circular mode starts from.
LEMMA WindowOpens ==
    ASSUME ControlInv, NEW v \in Vars, Ring(v), BeginDestroy
    PROVE  Window(v)'
<1>1. Quiet /\ flushPc = "idle" /\ prodPc = "idle"
  BY DEF BeginDestroy, Quiet, bufVars, prodVars, ownerFrame, flushVars, fileVars
<1>2. Pipeline(v)' = Pipeline(v) /\ UNCHANGED <<added[v], lost[v], refused[v]>>
  BY <1>1, FlowQuiet DEF Kept, SameCounts
<1>3. ASSUME lost[v] # 0 PROVE Len(Pipeline(v)) > (Chunks - 1) * ChunkSize
  <2>1. /\ open[v] # << >> /\ Len(sealed[v]) = Chunks - 1 /\ open[v] \in Seq(Nat)
    BY <1>1, <1>3, Parts DEF Ring, ControlInv, DataInv, DataTypes
  <2>2. Len(open[v]) \in Nat /\ Len(open[v]) # 0
    BY <2>1, EmptySeq
  <2>3. Len(Pipeline(v)) = Len(Queued(v)) + Len(open[v]) /\ Len(Queued(v)) = ChunkSize * (Chunks - 1)
    BY <1>1, <2>1, RingPipeline DEF Ring
  <2>4. ChunkSize * (Chunks - 1) = (Chunks - 1) * ChunkSize /\ ChunkSize * (Chunks - 1) \in Int
    OBVIOUS
  <2> DEFINE p == Len(Pipeline(v))
             o == Len(open[v])
             x == ChunkSize * (Chunks - 1)
  <2>5. p = x + o /\ o \in Nat /\ o # 0 /\ x \in Int /\ x = (Chunks - 1) * ChunkSize
    BY <2>2, <2>3, <2>4
  <2>6. p > x
    <3> HIDE DEF p, o, x
    <3> QED BY <2>5
  <2> QED BY <2>4, <2>6
<1> QED BY <1>2, <1>3 DEF Window, Ring

LEMMA WindowStays ==
    ASSUME ControlInv, NEW v \in Vars, Window(v), life # "alive", [Next]_allVars
    PROVE  Window(v)'
<1>1. Kept(v) \/ Refused(v)
  <2>1. UniformInv /\ FlagInv
    BY DEF ControlInv
  <2>2. ~ AddSample /\ ~ SealBlock
    BY DEF AddSample, SealBlock, ControlInv, UniformInv, ModeInv
  <2> QED BY <2>1, <2>2, DataSteps, FlowQuiet, FlowWriteStruct, FlowReadBlock, FlowWriteBlock, FlowSealAll
<1>2. CASE Kept(v)
  BY <1>2 DEF Kept, SameCounts, Window
<1>3. CASE Refused(v)
  <2>1. PICK b \in Seq(Nat) : refused'[v] = refused[v] + Len(b) /\ Len(b) >= 1
    BY <1>3 DEF Refused
  <2>2. refused'[v] # 0
    BY <2>1 DEF ControlInv, DataInv, DataTypes
  <2> QED BY <2>2 DEF Window
<1> QED BY <1>1, <1>2, <1>3

LEMMA CircularNext ==
    ControlInv /\ FlowInv /\ SizesInv /\ CircularInv /\ [Next]_allVars => CircularInv'
<1> SUFFICES ASSUME ControlInv, FlowInv, SizesInv, CircularInv, [Next]_allVars PROVE CircularInv'
  OBVIOUS
<1>1. ASSUME NEW m \in Modes, SetMode(m) PROVE CircularInv'
  <2>1. life' = "alive"
    BY <1>1 DEF SetMode, producerFrame, ownerVars
  <2> QED BY <1>1, <2>1, RingStarts DEF CircularInv
<1>2. CASE BeginDestroy
  <2>1. life = "alive" /\ life' # "alive" /\ (wasCircular' => mode = "circular_buffer")
    BY <1>2 DEF BeginDestroy
  <2> QED BY <1>2, <2>1, WindowOpens DEF CircularInv
<1>3. CASE ModeStays
  <2>1. CASE life # "alive"
    BY <1>3, <2>1, WindowStays DEF ModeStays, CircularInv
  <2>2. CASE life = "alive"
    <3> SUFFICES ASSUME mode = "circular_buffer", NEW v \in Vars PROVE Ring(v)'
      BY <1>3, <2>2 DEF ModeStays, CircularInv
    <3>1. Ring(v)
      BY <2>2 DEF CircularInv
    <3>2. flushPc = "idle"
      BY DEF ControlInv, UniformInv, ModeInv
    <3>3. ~ WriteStruct /\ ~ ReadBlock /\ ~ WriteBlock /\ ~ SealAll
      BY <2>2, <3>2 DEF WriteStruct, ReadBlock, WriteBlock, SealAll
    <3>4. UniformInv /\ FlagInv
      BY DEF ControlInv
    <3> QED BY <3>1, <3>2, <3>3, <3>4, DataSteps, RingQuiet, RingAddSample, RingSealBlock
  <2> QED BY <2>1, <2>2
<1> QED BY <1>1, <1>2, <1>3, ModeSteps

LEMMA CircularInvariant == Spec => []CircularInv
<1>1. Init => CircularInv
  BY DEF Init, CircularInv
<1> QED BY <1>1, CircularNext, ControlInvariant, FlowInvariant, SizesInvariant, PTL DEF Spec

\* A logger that was in circular mode leaves in the file the latest samples of a
\* variable, without a gap, and more of them than all blocks but one hold.
THEOREM KeepsLatest == Spec => []CircularKeepsLatest
<1>1. ControlInv /\ FlowInv /\ DrainInv /\ CircularInv => CircularKeepsLatest
  <2> SUFFICES ASSUME ControlInv, FlowInv, DrainInv, CircularInv, life = "closed", wasCircular,
                      NEW v \in Vars, refused[v] = 0
               PROVE  LET s == file[v].samples
                      IN  /\ \A i \in DOMAIN s : s[i] = added[v] - Len(s) + i
                          /\ \/ Len(s) = added[v]
                             \/ Len(s) > (Chunks - 1) * ChunkSize
    BY DEF CircularKeepsLatest
  <2>1. Pipeline(v) = file[v].samples
    <3>1. sealed[v] = << >> /\ open[v] = << >> /\ block = << >>
      BY DEF DrainInv, ControlInv, FlagInv
    <3>2. Held(v) = << >> /\ Queued(v) = << >>
      BY <3>1 DEF Held, Queued, FlattenSeq
    <3>3. Cat(Written(v), << >>) = Written(v)
      BY Parts, CatEmpty
    <3> QED BY <3>1, <3>2, <3>3, Parts DEF Written
  <2>2. Window(v)
    BY DEF CircularInv
  <2>3. /\ added[v] = Len(Pipeline(v)) + lost[v] + 0
        /\ Pipeline(v) \in Seq(Nat)
    BY Parts DEF FlowInv
  <2>4. lost[v] = 0 => Len(Pipeline(v)) = added[v]
    BY <2>3
  <2>5. DOMAIN Pipeline(v) = 1 .. Len(Pipeline(v))
    BY <2>3
  <2> QED BY <2>1, <2>2, <2>4, <2>5 DEF Window, Latest
<1> QED BY <1>1, ControlInvariant, FlowInvariant, CompleteInvariant, CircularInvariant, PTL
=============================================================================
