-------------------------- MODULE MatioBackendProofs -------------------------
(***************************************************************************)
(* Proofs about MatioBackend, for any names, blocks and values and any     *)
(* number of sessions.                                                     *)
(*                                                                         *)
(* TypeInv says what a handle counts: a slot of its directory per data     *)
(* set, or, after a load, all links.  From that alone it follows what the  *)
(* walk along the links finds.                                             *)
(*                                                                         *)
(* While callers delete only when no other name is hidden,                 *)
(*   Inv      adds to AckedIsStored that block identities are below the    *)
(*            counter that gives the next one, so that an append keeps the *)
(*            blocks in order, and that what was reported has its entry;   *)
(*   ListInv  adds to DirectoryIsTruthful that before there is a directory *)
(*            an entry that is not counted was not reported;               *)
(*   ValueInv says which value the entry of a reported one has.            *)
(***************************************************************************)
EXTENDS MatioBackend, FlattenTheorems

ObserverType ==
    /\ writes \in Nat
    /\ Links \subseteq Names
    /\ acked \in [Names -> [blocks : SUBSET Nat, value : Trees \cup {NoValue}]]
    /\ entry \in [Links -> EntryType]

\* What AckedIsStored says of one name.
StoredAs(blocks, ids) ==
    /\ {b \in Range(blocks) : b # Gap} = ids
    /\ \A i, j \in DOMAIN blocks :
          i < j => blocks[i] < blocks[j] \/ blocks[i] = Gap \/ blocks[j] = Gap

Inv ==
    /\ ObserverType
    /\ \A n \in Names : StoredAs(StoredBlocks(n), acked[n].blocks)
    /\ \A n \in Names : \A b \in acked[n].blocks : b < writes
    /\ DeletesOnlyNamed

-----------------------------------------------------------------------------
(* Facts about blocks. *)

\* An empty entry stores nothing.
LEMMA StoredAsEmpty == StoredAs(<< >>, {})
BY DEF StoredAs, Range

\* A block with a new identity goes to the end.
LEMMA StoredAsAppend ==
    ASSUME NEW blocks \in Seq(Nat \cup {Gap}), NEW ids \in SUBSET Nat, NEW w \in Nat,
           StoredAs(blocks, ids), \A b \in ids : b < w
    PROVE  StoredAs(Append(blocks, w), ids \cup {w})
<1> DEFINE longer == Append(blocks, w)
<1>1. /\ DOMAIN longer = DOMAIN blocks \cup {Len(blocks) + 1}
      /\ \A i \in DOMAIN blocks : longer[i] = blocks[i]
      /\ longer[Len(blocks) + 1] = w
  OBVIOUS
<1>2. \A i \in DOMAIN blocks : blocks[i] = Gap \/ blocks[i] \in ids
  BY DEF StoredAs, Range
<1>3. {b \in Range(longer) : b # Gap} = ids \cup {w}
  <2>1. Range(longer) = Range(blocks) \cup {w}
    BY <1>1 DEF Range
  <2> QED BY <2>1 DEF StoredAs, Gap
<1>4. ASSUME NEW i \in DOMAIN longer, NEW j \in DOMAIN longer, i < j
      PROVE  longer[i] < longer[j] \/ longer[i] = Gap \/ longer[j] = Gap
  <2>1. i \in DOMAIN blocks
    BY <1>4
  <2>2. CASE j \in DOMAIN blocks
    BY <1>1, <1>4, <2>1, <2>2 DEF StoredAs
  <2>3. CASE j = Len(blocks) + 1
    BY <1>1, <1>2, <2>1, <2>3
  <2> QED BY <1>1, <2>2, <2>3
<1> QED BY <1>3, <1>4 DEF StoredAs

\* Room of a failed append changes nothing of what is stored.
LEMMA StoredAsGap ==
    ASSUME NEW blocks \in Seq(Nat \cup {Gap}), NEW ids \in SUBSET Nat,
           StoredAs(blocks, ids)
    PROVE  StoredAs(Append(blocks, Gap), ids)
<1> DEFINE longer == Append(blocks, Gap)
<1>1. /\ DOMAIN longer = DOMAIN blocks \cup {Len(blocks) + 1}
      /\ \A i \in DOMAIN blocks : longer[i] = blocks[i]
      /\ longer[Len(blocks) + 1] = Gap
  BY DEF Gap
<1>2. {b \in Range(longer) : b # Gap} = ids
  <2>1. Range(longer) = Range(blocks) \cup {Gap}
    BY <1>1 DEF Range
  <2> QED BY <2>1 DEF StoredAs
<1>3. ASSUME NEW i \in DOMAIN longer, NEW j \in DOMAIN longer, i < j
      PROVE  longer[i] < longer[j] \/ longer[i] = Gap \/ longer[j] = Gap
  BY <1>1, <1>3 DEF StoredAs
<1> QED BY <1>2, <1>3 DEF StoredAs

-----------------------------------------------------------------------------
(* Actions. *)

\* Sessions, listing and refused calls leave entries and observer alone, but for
\* init, which starts from nothing.
LEMMA InvUnchanged ==
    Inv /\ UNCHANGED <<entry, acked>> /\ writes' \in {writes, writes + 1} => Inv'
<1> SUFFICES ASSUME Inv, UNCHANGED <<entry, acked>>, writes' \in {writes, writes + 1}
             PROVE  Inv'
  OBVIOUS
<1>1. ObserverType'
  BY DEF Inv, ObserverType, Links
<1>2. \A n \in Names : StoredAs(StoredBlocks(n), acked[n].blocks)'
  BY DEF Inv, StoredBlocks, Links, StoredAs
<1>3. \A n \in Names : \A b \in acked[n].blocks : b < writes'
  BY DEF Inv, ObserverType
<1>4. DeletesOnlyNamed'
  BY DEF Inv, DeletesOnlyNamed, Links
<1> QED BY <1>1, <1>2, <1>3, <1>4 DEF Inv

LEMMA InvEmpty ==
    entry' = << >> /\ acked' = [n \in Names |-> Nothing] /\ writes' \in Nat => Inv'
<1> SUFFICES ASSUME entry' = << >>, acked' = [n \in Names |-> Nothing], writes' \in Nat
             PROVE  Inv'
  OBVIOUS
<1>1. Links' = {}
  BY DEF Links
<1>2. ObserverType'
  BY <1>1 DEF ObserverType, Nothing, OfBlocks
<1>3. \A n \in Names : StoredAs(StoredBlocks(n), acked[n].blocks)'
  BY <1>1, StoredAsEmpty DEF StoredBlocks, Nothing, OfBlocks, StoredAs
<1>4. \A n \in Names : \A b \in acked'[n].blocks : b < writes'
  BY DEF Nothing, OfBlocks
<1>5. DeletesOnlyNamed'
  BY DEF DeletesOnlyNamed, Nothing, OfBlocks
<1> QED BY <1>2, <1>3, <1>4, <1>5 DEF Inv

\* A name gets an entry or a longer one, and something new may be reported of it.
LEMMA InvWrite ==
    ASSUME Inv, NEW n \in Names, NEW e \in EntryType,
           NEW seen \in [blocks : SUBSET Nat, value : Trees \cup {NoValue}],
           entry' = WithEntry(n, e),
           acked' = [acked EXCEPT ![n] = seen],
           StoredAs(e.blocks, seen.blocks),
           writes' \in {writes, writes + 1},
           \A b \in seen.blocks : b < writes'
    PROVE  Inv'
<1> USE DEF Inv
<1>1. /\ Links' = Links \cup {n}
      /\ entry' \in [Links' -> EntryType]
      /\ entry'[n] = e
      /\ \A m \in Links : m # n => entry'[m] = entry[m]
  BY DEF Links, WithEntry, ObserverType
<1>2. ObserverType'
  BY <1>1 DEF ObserverType
<1>3. ASSUME NEW m \in Names
      PROVE  /\ StoredAs(StoredBlocks(m), acked[m].blocks)'
             /\ \A b \in acked'[m].blocks : b < writes'
             /\ (acked[m] # Nothing => m \in Links)'
  <2>1. CASE m = n
    <3>1. acked'[m] = seen /\ StoredBlocks(m)' = e.blocks
      BY <1>1, <2>1 DEF StoredBlocks, ObserverType
    <3> QED BY <1>1, <2>1, <3>1 DEF StoredAs
  <2>2. CASE m # n
    <3>1. acked'[m] = acked[m] /\ StoredBlocks(m)' = StoredBlocks(m)
      BY <1>1, <2>2 DEF StoredBlocks, ObserverType
    <3> QED BY <1>1, <3>1 DEF StoredAs, DeletesOnlyNamed, ObserverType
  <2> QED BY <2>1, <2>2
<1> QED BY <1>2, <1>3 DEF DeletesOnlyNamed

\* Deleting a name keeps what is stored under the others when nothing else is
\* hidden.
LEMMA InvDelete ==
    ASSUME Inv, NEW n \in Names, delvar(n), HiddenDeletes = FALSE
    PROVE  Inv'
<1> USE DEF Inv
<1>1. Kept(n) = Links \ {n}
  BY DEF delvar, Kept, Hidden
<1>2. /\ Links' = Links \ {n}
      /\ entry' \in [Links' -> EntryType]
      /\ \A m \in Links' : entry'[m].blocks = entry[m].blocks
      /\ acked' = [acked EXCEPT ![n] = Nothing]
      /\ writes' = writes
  <2>1. entry' = [m \in Links \ {n} |-> Copied(entry[m])]
    BY <1>1 DEF delvar
  <2>2. ASSUME NEW e \in EntryType
        PROVE  Copied(e) \in EntryType /\ Copied(e).blocks = e.blocks
    BY DEF Copied, EntryType
  <2> QED BY <2>1, <2>2 DEF delvar, Links, ObserverType
<1>3. ObserverType'
  BY <1>2 DEF ObserverType, Nothing, OfBlocks
<1>4. ASSUME NEW m \in Names
      PROVE  /\ StoredAs(StoredBlocks(m), acked[m].blocks)'
             /\ \A b \in acked'[m].blocks : b < writes'
             /\ (acked[m] # Nothing => m \in Links)'
  <2>1. CASE m = n
    BY <1>2, <2>1, StoredAsEmpty DEF StoredBlocks, ObserverType, StoredAs, Nothing, OfBlocks
  <2>2. CASE m # n
    <3>1. acked'[m] = acked[m] /\ StoredBlocks(m)' = StoredBlocks(m)
      BY <1>2, <2>2 DEF StoredBlocks, ObserverType
    <3> QED BY <1>2, <2>2, <3>1 DEF StoredAs, DeletesOnlyNamed, ObserverType
  <2> QED BY <2>1, <2>2
<1> QED BY <1>3, <1>4 DEF DeletesOnlyNamed

LEMMA ExtendedEntry ==
    ASSUME NEW e \in EntryType, NEW b \in Nat \cup {Gap}
    PROVE  /\ Extended(e, b) \in EntryType
           /\ Extended(e, b).blocks = Append(e.blocks, b)
<1>1. e.blocks \in Seq(Nat \cup {Gap})
  BY DEF EntryType
<1>2. Append(e.blocks, b) \in Seq(Nat \cup {Gap})
  BY <1>1
<1> QED BY <1>2 DEF Extended, EntryType
-----------------------------------------------------------------------------

THEOREM InvInit == Init => Inv
<1> SUFFICES ASSUME Init PROVE Inv
  OBVIOUS
<1>1. Links = {}
  BY DEF Init, Links
<1>2. ObserverType
  BY <1>1 DEF Init, ObserverType, Nothing, OfBlocks
<1>3. \A n \in Names : StoredAs(StoredBlocks(n), acked[n].blocks)
  BY <1>1, StoredAsEmpty DEF Init, StoredBlocks, Nothing, OfBlocks
<1> QED BY <1>2, <1>3 DEF Init, Inv, Nothing, OfBlocks, DeletesOnlyNamed

LEMMA InvNumeric ==
    ASSUME Inv, NEW n \in Names, NEW block \in Blocks, write(n, block)
    PROVE  Inv'
<1> USE BackendAssumption DEF Inv, WriteAllowed, Counted
<1>1. CASE write_new(n, block)
  <2>1. DataEntry(block) \in EntryType
    BY DEF DataEntry, EntryType, Rank, ObserverType
  <2>2. StoredAs(DataEntry(block).blocks, {writes})
    BY DEF DataEntry, StoredAs, Range, Gap, ObserverType
  <2> DEFINE seen == OfBlocks({writes})
  <2>3. /\ seen \in [blocks : SUBSET Nat, value : Trees \cup {NoValue}]
        /\ seen.blocks = {writes}
    BY DEF ObserverType, OfBlocks
  <2>4. \A b \in seen.blocks : b < writes'
    <3>1. writes \in Nat /\ writes' = writes + 1
      BY <1>1 DEF write_new, ObserverType
    <3> HIDE DEF seen
    <3> QED BY ONLY <2>3, <3>1
  <2>5. StoredAs(DataEntry(block).blocks, seen.blocks)
    BY <2>2, <2>3
  <2>6. /\ entry' = WithEntry(n, DataEntry(block))
        /\ acked' = [acked EXCEPT ![n] = seen]
        /\ writes' = writes + 1
    BY <1>1 DEF write_new
  <2>7. writes' \in {writes, writes + 1} /\ Inv
    BY <2>6
  <2> DEFINE e == DataEntry(block)
  <2> HIDE DEF seen, e, Inv
  <2> QED BY ONLY <2>1, <2>3, <2>4, <2>5, <2>6, <2>7, n \in Names, InvWrite DEF e
<1>2. CASE write_append(n, block)
  <2> DEFINE ids == acked[n].blocks \cup {writes}
             seen == OfBlocks(ids)
  <2>1. /\ n \in Links /\ entry[n] \in EntryType
        /\ entry[n].blocks \in Seq(Nat \cup {Gap})
    BY <1>2 DEF write_append, Grows, ObserverType, EntryType
  <2>2. StoredAs(entry[n].blocks, acked[n].blocks)
    BY <2>1 DEF StoredBlocks
  <2>3. /\ acked[n].blocks \in SUBSET Nat
        /\ writes \in Nat
        /\ \A b \in acked[n].blocks : b < writes
    BY DEF ObserverType
  <2>4. StoredAs(Append(entry[n].blocks, writes), ids)
    BY <2>1, <2>2, <2>3, StoredAsAppend
  <2>5. /\ seen \in [blocks : SUBSET Nat, value : Trees \cup {NoValue}]
        /\ seen.blocks = ids
    BY <2>3 DEF OfBlocks
  <2>6. /\ Extended(entry[n], writes) \in EntryType
        /\ Extended(entry[n], writes).blocks = Append(entry[n].blocks, writes)
    BY <2>1, <2>3, ExtendedEntry
  <2>7. /\ entry' = WithEntry(n, Extended(entry[n], writes))
        /\ acked' = [acked EXCEPT ![n] = seen]
        /\ writes' = writes + 1
    BY <1>2 DEF write_append
  <2>8. \A b \in seen.blocks : b < writes'
    <3>1. \A b \in ids : b \in Nat /\ b < writes + 1
      <4> HIDE DEF seen
      <4> QED BY <2>3 DEF ids
    <3> HIDE DEF seen, ids
    <3> QED BY ONLY <2>5, <2>7, <3>1
  <2>9. writes' \in {writes, writes + 1} /\ Inv
    BY <2>7
  <2>10. StoredAs(Extended(entry[n], writes).blocks, seen.blocks)
    BY <2>4, <2>5, <2>6
  <2> HIDE DEF seen, ids, Inv
  <2> QED BY ONLY <2>5, <2>6, <2>7, <2>8, <2>9, <2>10, n \in Names, InvWrite
<1>3. CASE write_gap(n, block)
  <2>1. /\ n \in Links /\ entry[n] \in EntryType
        /\ entry[n].blocks \in Seq(Nat \cup {Gap})
    BY <1>3 DEF write_gap, Grows, ObserverType, EntryType
  <2>2. StoredAs(entry[n].blocks, acked[n].blocks)
    BY <2>1 DEF StoredBlocks
  <2>3. StoredAs(Extended(entry[n], Gap).blocks, acked[n].blocks)
    <3>1. Extended(entry[n], Gap).blocks = Append(entry[n].blocks, Gap)
      BY <2>1, ExtendedEntry
    <3>2. acked[n].blocks \in SUBSET Nat
      BY DEF ObserverType
    <3>3. StoredAs(Append(entry[n].blocks, Gap), acked[n].blocks)
      BY <2>1, <2>2, <3>2, StoredAsGap
    <3> QED BY <3>1, <3>3
  <2>4. acked' = [acked EXCEPT ![n] = acked[n]]
    BY <1>3 DEF write_gap, ObserverType
  <2>5. \A b \in acked[n].blocks : b < writes'
    BY <1>3 DEF write_gap, ObserverType
  <2> QED BY <1>3, <2>1, <2>3, <2>4, <2>5, InvWrite, ExtendedEntry
             DEF write_gap, ObserverType
<1>4. CASE write_refused(n, block)
  BY <1>4, InvUnchanged DEF write_refused
<1> QED BY <1>1, <1>2, <1>3, <1>4 DEF write

LEMMA InvValue ==
    ASSUME Inv, NEW n \in Names, NEW t \in Trees, write_container(n, t)
    PROVE  Inv'
<1> USE DEF Inv
<1>1. CASE container_refused(n, t)
  BY <1>1, InvUnchanged DEF container_refused
<1>2. /\ ValueEntry(t) \in EntryType
      /\ StoredAs(ValueEntry(t).blocks, {})
  BY StoredAsEmpty DEF ValueEntry, EntryType
<1>3. CASE container_failed(n, t)
  <2>1. acked[n] = Nothing
    BY <1>3 DEF container_failed, DeletesOnlyNamed
  <2>2. /\ acked' = [acked EXCEPT ![n] = Nothing]
        /\ Nothing \in [blocks : SUBSET Nat, value : Trees \cup {NoValue}]
    BY <1>3, <2>1 DEF container_failed, ObserverType, Nothing, OfBlocks
  <2>3. Nothing.blocks = {}
    BY DEF Nothing, OfBlocks
  <2> QED BY <1>2, <1>3, <2>2, <2>3, InvWrite DEF container_failed
<1>4. CASE container_written(n, t)
  <2>1. /\ OfValue(t) \in [blocks : SUBSET Nat, value : Trees \cup {NoValue}]
        /\ OfValue(t).blocks = {}
    BY DEF OfValue
  <2> QED BY <1>2, <1>4, <2>1, InvWrite DEF container_written
<1> QED BY <1>1, <1>3, <1>4 DEF write_container

LEMMA InvStep ==
    ASSUME HiddenDeletes = FALSE
    PROVE  Inv /\ [Next]_vars => Inv'
<1> SUFFICES ASSUME Inv, [Next]_vars PROVE Inv'
  OBVIOUS
<1>1. CASE init
  <2>1. writes' \in Nat
    BY <1>1 DEF init, Inv, ObserverType
  <2> QED BY <1>1, <2>1, InvEmpty DEF init
<1>2. ASSUME NEW access \in {"rdwr", "rdonly"}, load(access) PROVE Inv'
  BY <1>2, InvUnchanged DEF load
<1>3. CASE close
  BY <1>3, InvUnchanged DEF close
<1>4. CASE get_var_names
  BY <1>4, InvUnchanged DEF get_var_names
<1>5. ASSUME NEW n \in Names, NEW block \in Blocks, write(n, block) PROVE Inv'
  BY <1>5, InvNumeric
<1>6. ASSUME NEW n \in Names, NEW t \in Trees, write_container(n, t) PROVE Inv'
  BY <1>6, InvValue
<1>7. ASSUME NEW n \in Names, delvar(n) PROVE Inv'
  BY <1>7, InvDelete
<1>8. CASE UNCHANGED vars
  BY <1>8, InvUnchanged DEF vars
<1> QED BY <1>1, <1>2, <1>3, <1>4, <1>5, <1>6, <1>7, <1>8 DEF Next

\* Over any sequence of sessions, of writes that succeed, fail or fail half-way
\* (MatioBackend::write) and of deletions with nothing else hidden, each name's
\* entry holds exactly the blocks reported as written, once and in their order.
THEOREM AcknowledgedBlocksStored ==
    ASSUME HiddenDeletes = FALSE
    PROVE  Spec => []AckedIsStored
<1>1. Inv => AckedIsStored
  BY DEF Inv, AckedIsStored, StoredAs
<1> QED BY <1>1, InvInit, InvStep, PTL DEF Spec

-----------------------------------------------------------------------------
(* The directory of a handle. *)

\* A sequence that lists the members of S in their order has each of them once:
\* the numbers of members before each are distinct and below Cardinality(S), so
\* that none is missed.
LEMMA InOrder ==
    ASSUME NEW S, S \subseteq Names
    PROVE  /\ IsFiniteSet(S) /\ Cardinality(S) \in Nat
           /\ InOrderOf(S) \in Seq(S)
           /\ Len(InOrderOf(S)) = Cardinality(S)
           /\ Range(InOrderOf(S)) = S
           /\ \A i, j \in DOMAIN InOrderOf(S) : InOrderOf(S)[i] = InOrderOf(S)[j] => i = j
<1> DEFINE k == Cardinality(S)
           s == InOrderOf(S)
<1>1. IsFiniteSet(S) /\ S \subseteq Int
  <2>1. IsFiniteSet(Names) /\ Names \subseteq Int
    BY BackendAssumption, FS_Interval DEF Names
  <2> QED BY <2>1, FS_Subset
<1>2. \A n : Preceding(S, n) = Position(S, n)
  BY DEF Preceding, Position
<1>a. /\ k \in Nat
      /\ \A n \in S : Position(S, n) \in 0 .. k - 1
      /\ \A m, n \in S : Position(S, m) = Position(S, n) => m = n
      /\ \A i \in 0 .. k - 1 : \E n \in S : Position(S, n) = i
  BY <1>1, Positions
<1>3. k \in Nat /\ \A n \in S : Preceding(S, n) \in 0 .. k - 1
  BY <1>2, <1>a
<1>4. \A m, n \in S : Preceding(S, m) = Preceding(S, n) => m = n
  BY <1>2, <1>a
<1>5. ASSUME NEW i \in 1 .. k PROVE \E n \in S : Preceding(S, n) = i - 1
  <2>1. i - 1 \in 0 .. k - 1
    BY <1>3
  <2> QED BY <1>2, <1>a, <2>1
<1>6. /\ s = [i \in 1 .. k |-> s[i]]
      /\ \A i \in 1 .. k : s[i] \in S /\ Preceding(S, s[i]) = i - 1
  BY <1>5 DEF InOrderOf
<1> HIDE DEF s, k
<1>7. s \in Seq(S) /\ Len(s) = k /\ DOMAIN s = 1 .. k
  BY <1>3, <1>6
<1>8. Range(s) = S
  <2>1. Range(s) \subseteq S
    BY <1>6, <1>7 DEF Range
  <2>2. ASSUME NEW n \in S PROVE n \in Range(s)
    <3>1. Preceding(S, n) + 1 \in 1 .. k /\ Preceding(S, n) \in Int
      BY <1>3
    <3>2. PICK i \in 1 .. k : i = Preceding(S, n) + 1
      BY <3>1
    <3>3. s[i] \in S /\ Preceding(S, s[i]) = Preceding(S, n)
      BY <1>6, <3>1, <3>2
    <3>4. s[i] = n
      BY <1>4, <3>3
    <3> QED BY <1>7, <3>2, <3>4 DEF Range
  <2> QED BY <2>1, <2>2
<1>9. \A i, j \in DOMAIN s : s[i] = s[j] => i = j
  <2>1. ASSUME NEW i \in 1 .. k, NEW j \in 1 .. k, s[i] = s[j] PROVE i = j
    <3>1. i - 1 = j - 1
      BY <1>6, <2>1
    <3> QED BY <3>1
  <2> QED BY <1>7, <2>1
<1> QED BY <1>1, <1>3, <1>7, <1>8, <1>9 DEF s, k

\* What is counted: a handle with a directory has a slot of it per data set; one
\* without has seen all links, as after a load, or none.
HandleInv ==
    /\ mode \in {"closed", "rdwr", "rdonly"}
    /\ num \in Nat /\ built \in BOOLEAN
    /\ dir \in Seq(Names \cup {Hole})
    /\ built => num = Len(dir)
    /\ ~ built => dir = << >>
    /\ ~ built /\ num # 0 => num = Cardinality(Links) + RefsLinks
    /\ mode = "closed" => ~ built /\ num = 0

FileInv ==
    /\ exists \in BOOLEAN /\ refs \in BOOLEAN
    /\ Links \subseteq Names
    /\ entry \in [Links -> EntryType]

\* A handle that has seen all links finds them all.
LEMMA AllFound ==
    ASSUME HandleInv, FileInv, ~ built, num # 0
    PROVE  Hidden = {} /\ num = Cardinality(Links) + RefsLinks
<1>1. num = Cardinality(Links) + RefsLinks /\ RefsLinks \in {0, 1}
  BY DEF HandleInv, RefsLinks
<1>2. IsFiniteSet(Links) /\ Cardinality(Links) \in Nat /\ Links \subseteq Int
  <2>1. Links \subseteq Names /\ Names \subseteq Int
    BY DEF FileInv, Names
  <2> QED BY <2>1, InOrder
<1>3. ASSUME NEW n \in Links PROVE Found(n)
  <2> DEFINE before == {m \in Links : m < n}
  <2>1. before \in SUBSET Links /\ before # Links
    <3>1. n \notin before
      BY <1>2
    <3> QED BY <3>1
  <2>2. /\ IsFiniteSet(before) /\ Cardinality(before) <= Cardinality(Links)
        /\ Cardinality(Links) = Cardinality(before) => Links = before
    <3> HIDE DEF before
    <3> QED BY <1>2, <2>1, FS_Subset
  <2>3. Cardinality(before) \in Nat
    <3> HIDE DEF before
    <3> QED BY <2>2, FS_CardinalityType
  <2>4. Preceding(Links, n) = Cardinality(before)
    BY DEF Preceding
  <2>5. Preceding(Links, n) + RefsLinks < num /\ num > 0
    <3> HIDE DEF before
    <3> QED BY <1>1, <1>2, <2>1, <2>2, <2>3, <2>4
  <2> QED BY <2>5 DEF Found
<1> QED BY <1>1, <1>3 DEF Hidden

\* Mat_GetDir's answer has a slot per data set counted; built anew it names every
\* link once and nothing else.
LEMMA DirectoryBuilt ==
    ASSUME HandleInv, FileInv
    PROVE  /\ Directory \in Seq(Names \cup {Hole})
           /\ Len(Directory) = num
           /\ built \/ num = 0 => Directory = dir
           /\ ~ built /\ num # 0 =>
                 /\ Range(Directory) \subseteq Links \cup {Hole}
                 /\ Links \subseteq Range(Directory)
                 /\ \A i, j \in DOMAIN Directory :
                       Directory[i] = Directory[j] => i = j \/ Directory[i] = Hole
<1>1. CASE built \/ num = 0
  BY <1>1 DEF HandleInv, Directory
<1>2. CASE ~ built /\ num # 0
  <2> DEFINE found == InOrderOf(Links)
             k == Cardinality(Links)
             holes == [i \in 1 .. num - k |-> Hole]
  <2>1. /\ Links \subseteq Names
        /\ num = k + RefsLinks /\ RefsLinks \in {0, 1}
        /\ Links \ Hidden = Links
    BY <1>2, AllFound DEF FileInv, RefsLinks
  <2>2. /\ k \in Nat
        /\ found \in Seq(Links) /\ Len(found) = k /\ Range(found) = Links
        /\ \A i, j \in DOMAIN found : found[i] = found[j] => i = j
    BY <2>1, InOrder
  <2>3. Directory = found \o holes
    BY <1>2, <2>1, <2>2 DEF Directory
  <2>4. /\ num \in Nat /\ num - k \in Nat
        /\ DOMAIN found = 1 .. k
    <3> HIDE DEF found, k
    <3> QED BY <2>1, <2>2
  <2>5. holes \in Seq({Hole}) /\ Len(holes) = num - k
    <3> HIDE DEF found, k
    <3> QED BY <2>4
  <2>6. \A i \in 1 .. num - k : holes[i] = Hole
    OBVIOUS
  <2> HIDE DEF found, k, holes
  <2>7. /\ found \in Seq(Names \cup {Hole}) /\ holes \in Seq(Names \cup {Hole})
    BY <2>1, <2>2, <2>5
  <2>8. /\ Directory \in Seq(Names \cup {Hole})
        /\ Len(Directory) = num
        /\ DOMAIN Directory = 1 .. num
        /\ \A i \in 1 .. num : Directory[i] = IF i <= k THEN found[i] ELSE Hole
    <3>1. /\ found \o holes \in Seq(Names \cup {Hole})
          /\ Len(found \o holes) = Len(found) + Len(holes)
          /\ \A i \in 1 .. Len(found) + Len(holes) : (found \o holes)[i] =
                IF i <= Len(found) THEN found[i] ELSE holes[i - Len(found)]
      BY <2>7
    <3>2. Len(found) + Len(holes) = num
      BY <2>2, <2>4, <2>5
    <3>3. ASSUME NEW i \in 1 .. num, ~ (i <= k) PROVE holes[i - k] = Hole
      <4>1. i - k \in 1 .. num - k
        BY <2>2, <2>4, <3>3
      <4> QED BY <2>6, <4>1
    <3> QED BY <2>2, <2>3, <3>1, <3>2, <3>3
  <2>9. \A i \in 1 .. k : i \in 1 .. num /\ found[i] \in Links
    <3>1. \A i \in 1 .. k : i \in 1 .. num
      BY <2>1, <2>2
    <3>2. \A i \in 1 .. k : found[i] \in Links
      BY <2>2, <2>4 DEF Range
    <3> QED BY <3>1, <3>2
  <2>10. \A i \in 1 .. num : i <= k => i \in 1 .. k
    BY <2>2, <2>4
  <2>11. Range(Directory) \subseteq Links \cup {Hole}
    BY <2>8, <2>9, <2>10 DEF Range
  <2>12. Links \subseteq Range(Directory)
    <3>1. ASSUME NEW n \in Links PROVE n \in Range(Directory)
      <4>1. PICK i \in 1 .. k : found[i] = n
        BY <2>2, <2>4 DEF Range
      <4>2. i \in 1 .. num /\ i <= k /\ Directory[i] = n
        BY <2>2, <2>8, <2>9, <4>1
      <4> QED BY <2>8, <4>2 DEF Range
    <3> QED BY <3>1
  <2>13. ASSUME NEW i \in DOMAIN Directory, NEW j \in DOMAIN Directory,
                Directory[i] = Directory[j], Directory[i] # Hole
         PROVE  i = j
    <3>1. i \in 1 .. k /\ j \in 1 .. k /\ found[i] = found[j]
      BY <2>8, <2>10, <2>13
    <3> QED BY <2>2, <2>4, <3>1
  <2> QED BY <1>2, <2>8, <2>11, <2>12, <2>13
<1> QED BY <1>1, <1>2

\* A call that listed names leaves a handle that counts its slots.
LEMMA ListedHandle ==
    ASSUME HandleInv, FileInv, NEW added \in Seq(Names),
           mode # "closed", mode' = mode, ListedAlso(added)
    PROVE  HandleInv'
<1>1. /\ Directory \in Seq(Names \cup {Hole}) /\ Len(Directory) = num
      /\ built \/ num = 0 => Directory = dir
  BY DirectoryBuilt
<1>2. num \in Nat /\ Len(added) \in Nat /\ added \in Seq(Names \cup {Hole})
  BY DEF HandleInv
<1>3. /\ dir' \in Seq(Names \cup {Hole})
      /\ Len(dir') = num'
      /\ num' = num + Len(added)
  BY <1>1, <1>2 DEF ListedAlso
<1>4. built' = (built \/ num + Len(added) > 0)
  BY DEF ListedAlso
<1>5. CASE ~ built'
  <2>1. ~ built /\ num = 0 /\ Len(added) = 0
    <3>1. ~ built /\ ~ (num + Len(added) > 0)
      BY <1>4, <1>5, Zenon
    <3> QED BY <1>2, <3>1
  <2>2. num' = 0 /\ Len(dir') = 0
    BY <1>3, <2>1
  <2>3. dir' = << >>
    BY <1>3, <2>2
  <2> QED BY <1>3, <1>4, <1>5, <2>2, <2>3 DEF HandleInv
<1>6. CASE built'
  <2>1. num' \in Nat
    BY <1>2, <1>3
  <2> QED BY <1>3, <1>4, <1>6, <2>1 DEF HandleInv
<1> QED BY <1>5, <1>6

Observed == [blocks : SUBSET Nat, value : Trees \cup {NoValue}]

TypeInv ==
    /\ FileInv
    /\ HandleInv
    /\ acked \in [Names -> Observed]
    /\ writes \in 0 .. MaxWrites /\ sessions \in 0 .. MaxSessions

\* An empty handle has an empty directory; an empty file no entries.
LEMMA EmptyData ==
    /\ << >> \in Seq(Names \cup {Hole})
    /\ \A S : S = {} => << >> \in [S -> EntryType]
<1>1. << >> \in Seq(Names \cup {Hole})
  OBVIOUS
<1>2. << >> = [x \in {} |-> 0]
  OBVIOUS
<1>3. [x \in {} |-> 0] \in [{} -> EntryType]
  OBVIOUS
<1> QED BY <1>1, <1>2, <1>3

LEMMA TypeInvInit == Init => TypeInv
<1> SUFFICES ASSUME Init PROVE TypeInv
  OBVIOUS
<1>1. Links = {}
  BY DEF Init, Links
<1>2. FileInv
  BY <1>1, EmptyData DEF Init, FileInv
<1>3. HandleInv
  BY EmptyData DEF Init, HandleInv
<1>4. acked \in [Names -> Observed]
  BY DEF Init, Observed, Nothing, OfBlocks
<1> QED BY <1>2, <1>3, <1>4, BackendAssumption DEF Init, TypeInv

\* An entry written under a name leaves a well-formed file.
LEMMA FileWritten ==
    ASSUME FileInv, NEW n \in Names, NEW e \in EntryType,
           entry' = WithEntry(n, e), exists' = exists, refs' \in BOOLEAN
    PROVE  FileInv'
<1>1. Links' = Links \cup {n} /\ entry' \in [Links' -> EntryType]
  BY DEF Links, WithEntry, FileInv
<1> QED BY <1>1 DEF FileInv

LEMMA TypeNumeric ==
    ASSUME TypeInv, NEW n \in Names, NEW block \in Blocks, write(n, block)
    PROVE  TypeInv'
<1>a. /\ FileInv /\ HandleInv
      /\ acked \in [Names -> Observed] /\ acked[n] \in Observed
      /\ writes \in Nat
  BY BackendAssumption DEF TypeInv
<1>b. /\ mode # "closed" /\ mode' = mode
      /\ exists' = exists /\ refs' = refs /\ sessions' = sessions
      /\ writes' \in 0 .. MaxWrites
  <2>1. \/ write_new(n, block)
        \/ write_append(n, block)
        \/ write_gap(n, block)
        \/ write_refused(n, block)
    BY DEF write
  <2>2. WriteAllowed(block) /\ Counted
    BY <2>1 DEF write_new, write_append, write_gap, write_refused
  <2>3. writes' \in 0 .. MaxWrites
    BY <1>a, <2>2, BackendAssumption DEF Counted
  <2> QED BY <2>2, <2>3 DEF WriteAllowed, Counted
<1>c. block.rows \in Nat
  BY BackendAssumption
<1>d. refs' \in BOOLEAN
  BY <1>a, <1>b DEF FileInv
<1>e. (IF InDirectory(n) THEN << >> ELSE <<n>>) \in Seq(Names) /\ << >> \in Seq(Names)
  OBVIOUS
<1>1. CASE write_new(n, block)
  <2>1. DataEntry(block) \in EntryType
    BY <1>a, <1>c DEF DataEntry, EntryType, Rank
  <2>2. FileInv'
    BY <1>1, <1>a, <1>b, <1>d, <2>1, FileWritten DEF write_new
  <2>3. HandleInv'
    BY <1>1, <1>a, <1>b, <1>e, ListedHandle DEF write_new
  <2>4. acked' \in [Names -> Observed]
    <3>1. OfBlocks({writes}) \in Observed
      BY <1>a DEF OfBlocks, Observed
    <3> QED BY <1>1, <1>a, <3>1 DEF write_new
  <2> QED BY <1>b, <2>2, <2>3, <2>4 DEF TypeInv
<1>2. CASE write_append(n, block)
  <2>1. n \in Links /\ entry[n] \in EntryType
    BY <1>2, <1>a DEF write_append, Grows, FileInv
  <2>2. Extended(entry[n], writes) \in EntryType
    BY <1>a, <2>1, ExtendedEntry
  <2>3. FileInv'
    BY <1>2, <1>a, <1>b, <1>d, <2>2, FileWritten DEF write_append
  <2>4. HandleInv'
    BY <1>2, <1>a, <1>b, <1>e, ListedHandle DEF write_append
  <2>5. acked' \in [Names -> Observed]
    <3>1. OfBlocks(acked[n].blocks \cup {writes}) \in Observed
      BY <1>a DEF OfBlocks, Observed
    <3> QED BY <1>2, <1>a, <3>1 DEF write_append
  <2> QED BY <1>b, <2>3, <2>4, <2>5 DEF TypeInv
<1>3. CASE write_gap(n, block)
  <2>1. n \in Links /\ entry[n] \in EntryType
    BY <1>3, <1>a DEF write_gap, Grows, FileInv
  <2>2. Extended(entry[n], Gap) \in EntryType
    BY <2>1, ExtendedEntry
  <2>3. FileInv'
    BY <1>3, <1>a, <1>b, <1>d, <2>2, FileWritten DEF write_gap
  <2>4. HandleInv'
    BY <1>3, <1>a, <1>b, <1>e, ListedHandle DEF write_gap
  <2> QED BY <1>3, <1>a, <1>b, <2>3, <2>4 DEF TypeInv, write_gap
<1>4. CASE write_refused(n, block)
  <2>1. HandleInv'
    BY <1>4, <1>a, <1>b, <1>e, ListedHandle DEF write_refused
  <2>2. FileInv'
    BY <1>4, <1>a, <1>b DEF write_refused, FileInv, Links
  <2> QED BY <1>4, <1>a, <1>b, <2>1, <2>2 DEF TypeInv, write_refused
<1> QED BY <1>1, <1>2, <1>3, <1>4 DEF write

LEMMA TypeValue ==
    ASSUME TypeInv, NEW n \in Names, NEW t \in Trees, write_container(n, t)
    PROVE  TypeInv'
<1>a. /\ FileInv /\ HandleInv
      /\ acked \in [Names -> Observed]
  BY DEF TypeInv
<1>b. /\ mode # "closed" /\ mode' = mode
      /\ exists' = exists /\ sessions' = sessions /\ writes' = writes
  BY DEF write_container, container_refused, container_failed, container_written
<1>c. refs' \in BOOLEAN
  BY DEF write_container, container_refused, container_failed, container_written
<1>d. <<n>> \in Seq(Names) /\ << >> \in Seq(Names)
  OBVIOUS
<1>e. ValueEntry(t) \in EntryType
  BY DEF ValueEntry, EntryType
<1>1. CASE container_refused(n, t)
  <2>1. HandleInv'
    BY <1>1, <1>a, <1>b, <1>d, ListedHandle DEF container_refused
  <2>2. FileInv'
    BY <1>1, <1>a, <1>b, <1>c DEF container_refused, FileInv, Links
  <2> QED BY <1>1, <1>a, <1>b, <2>1, <2>2 DEF TypeInv, container_refused
<1>2. CASE container_failed(n, t)
  <2>1. HandleInv'
    BY <1>2, <1>a, <1>b, <1>d, ListedHandle DEF container_failed
  <2>2. FileInv'
    BY <1>2, <1>a, <1>b, <1>c, <1>e, FileWritten DEF container_failed
  <2> QED BY <1>2, <1>a, <1>b, <2>1, <2>2 DEF TypeInv, container_failed
<1>3. CASE container_written(n, t)
  <2>1. HandleInv'
    BY <1>3, <1>a, <1>b, <1>d, ListedHandle DEF container_written
  <2>2. FileInv'
    BY <1>3, <1>a, <1>b, <1>c, <1>e, FileWritten DEF container_written
  <2>3. acked' \in [Names -> Observed]
    <3>1. OfValue(t) \in Observed
      BY DEF OfValue, Observed
    <3> QED BY <1>3, <1>a, <3>1 DEF container_written
  <2> QED BY <1>b, <2>1, <2>2, <2>3 DEF TypeInv
<1> QED BY <1>1, <1>2, <1>3 DEF write_container

LEMMA TypeDelete ==
    ASSUME TypeInv, NEW n \in Names, delvar(n)
    PROVE  TypeInv'
<1>a. FileInv /\ HandleInv /\ acked \in [Names -> Observed]
  BY DEF TypeInv
<1>b. Kept(n) \subseteq Links /\ Links \subseteq Names /\ Kept(n) \subseteq Names
  BY <1>a DEF Kept, FileInv
<1>1. FileInv'
  <2>1. ASSUME NEW e \in EntryType PROVE Copied(e) \in EntryType
    BY DEF Copied, EntryType
  <2>2. entry' = [m \in Kept(n) |-> Copied(entry[m])]
    BY DEF delvar
  <2>3. Links' = Kept(n) /\ entry' \in [Kept(n) -> EntryType]
    BY <1>a, <1>b, <2>1, <2>2 DEF Links, FileInv
  <2>4. refs' \in BOOLEAN /\ exists' = exists
    BY DEF delvar
  <2> QED BY <1>a, <1>b, <2>3, <2>4 DEF FileInv
<1>2. HandleInv'
  <2> DEFINE S == Kept(n)
  <2>1. /\ Cardinality(S) \in Nat /\ IsFiniteSet(S)
        /\ InOrderOf(S) \in Seq(S) /\ Len(InOrderOf(S)) = Cardinality(S)
    BY <1>b, InOrder
  <2>2. /\ dir' = InOrderOf(S) /\ num' = Cardinality(S) /\ built' = (S # {})
        /\ mode' = mode /\ mode # "closed"
    BY DEF delvar
  <2>3. S = {} <=> Cardinality(S) = 0
    BY <2>1, FS_EmptySet
  <2>4. dir' \in Seq(Names \cup {Hole})
    BY <1>b, <2>1, <2>2
  <2>5. dir' = << >> \/ Cardinality(S) # 0
    BY <2>1, <2>2
  <2>6. (built' => num' = Len(dir')) /\ (~ built' => dir' = << >>)
    BY <2>1, <2>2, <2>3, <2>5
  <2>7. built' \in BOOLEAN /\ (~ built' => num' = 0)
    BY <2>2, <2>3
  <2> QED BY <1>a, <2>1, <2>2, <2>4, <2>6, <2>7 DEF HandleInv
<1>3. acked' \in [Names -> Observed]
  BY <1>a DEF delvar, Observed, Nothing, OfBlocks
<1> QED BY <1>1, <1>2, <1>3 DEF TypeInv, delvar

LEMMA TypeSession ==
    ASSUME TypeInv,
           \/ init
           \/ \E access \in {"rdwr", "rdonly"} : load(access)
           \/ close
           \/ get_var_names
    PROVE  TypeInv'
<1>a. /\ FileInv /\ HandleInv /\ acked \in [Names -> Observed]
      /\ sessions \in 0 .. MaxSessions /\ writes \in 0 .. MaxWrites
  BY DEF TypeInv
<1>1. CASE init
  <2>1. Links' = {}
    BY <1>1 DEF init, Links
  <2>2. FileInv'
    BY <1>1, <2>1, EmptyData DEF init, FileInv
  <2>3. HandleInv'
    BY <1>1, EmptyData DEF init, HandleInv
  <2>4. acked' \in [Names -> Observed]
    BY <1>1 DEF init, Observed, Nothing, OfBlocks
  <2>5. sessions' \in 0 .. MaxSessions /\ writes' = writes
    BY <1>1, <1>a, BackendAssumption DEF init
  <2> QED BY <1>a, <2>2, <2>3, <2>4, <2>5 DEF TypeInv
<1>2. ASSUME NEW access \in {"rdwr", "rdonly"}, load(access) PROVE TypeInv'
  <2>1. Links' = Links /\ RefsLinks' = RefsLinks
    BY <1>2 DEF load, Links, RefsLinks
  <2>2. FileInv'
    BY <1>2, <1>a, <2>1 DEF load, FileInv
  <2>3. num' \in Nat
    <3>1. Cardinality(Links) \in Nat /\ RefsLinks \in {0, 1}
      BY <1>a, InOrder DEF FileInv, RefsLinks
    <3> QED BY <1>2, <3>1 DEF load
  <2>4. HandleInv'
    BY <1>2, <1>a, <2>1, <2>3 DEF load, HandleInv
  <2>5. sessions' \in 0 .. MaxSessions /\ writes' = writes
    BY <1>2, <1>a, BackendAssumption DEF load
  <2> QED BY <1>2, <1>a, <2>2, <2>4, <2>5 DEF TypeInv, load
<1>3. CASE close
  <2>1. FileInv'
    BY <1>3, <1>a DEF close, FileInv, Links
  <2>2. HandleInv'
    BY <1>3, EmptyData DEF close, HandleInv
  <2> QED BY <1>3, <1>a, <2>1, <2>2 DEF TypeInv, close
<1>4. CASE get_var_names
  <2>1. FileInv'
    BY <1>4, <1>a DEF get_var_names, FileInv, Links
  <2>2. << >> \in Seq(Names)
    OBVIOUS
  <2>3. HandleInv'
    BY <1>4, <1>a, <2>2, ListedHandle DEF get_var_names
  <2> QED BY <1>4, <1>a, <2>1, <2>3 DEF TypeInv, get_var_names
<1> QED BY <1>1, <1>2, <1>3, <1>4

LEMMA TypeInvStep == TypeInv /\ [Next]_vars => TypeInv'
<1> SUFFICES ASSUME TypeInv, [Next]_vars PROVE TypeInv'
  OBVIOUS
<1>1. ASSUME NEW n \in Names, NEW block \in Blocks, write(n, block) PROVE TypeInv'
  BY <1>1, TypeNumeric
<1>2. ASSUME NEW n \in Names, NEW t \in Trees, write_container(n, t) PROVE TypeInv'
  BY <1>2, TypeValue
<1>3. ASSUME NEW n \in Names, delvar(n) PROVE TypeInv'
  BY <1>3, TypeDelete
<1>4. CASE UNCHANGED vars
  BY <1>4 DEF vars, TypeInv, FileInv, HandleInv, Links, RefsLinks
<1> QED BY <1>1, <1>2, <1>3, <1>4, TypeSession DEF Next

\* The type of the file, of the handle's bookkeeping and of the observer, for any
\* blocks, values, names and deletions (MatioBackend and matio's mat_t).
THEOREM Typing == Spec => []TypeOK
<1>1. TypeInv => TypeOK
  BY DEF TypeInv, FileInv, HandleInv, TypeOK, Observed
<1> QED BY <1>1, TypeInvInit, TypeInvStep, PTL DEF Spec

-----------------------------------------------------------------------------
(* What is found. *)

\* A sequence has no more elements than places.
LEMMA FewElements ==
    ASSUME NEW s \in Seq(Int), NEW S, S \subseteq Range(s)
    PROVE  IsFiniteSet(S) /\ Cardinality(S) \in Nat /\ Cardinality(S) <= Len(s)
<1> DEFINE k == Len(s)
<1>1. k \in Nat /\ DOMAIN s = 1 .. k
  OBVIOUS
<1> HIDE DEF k
<1>2. s \in Surjection(1 .. k, Range(s))
  <2>1. s \in [1 .. k -> Range(s)]
    BY <1>1 DEF Range
  <2>2. \A y \in Range(s) : \E i \in 1 .. k : s[i] = y
    BY <1>1 DEF Range
  <2> QED BY <2>1, <2>2 DEF Surjection
<1>3. IsFiniteSet(1 .. k) /\ Cardinality(1 .. k) = k
  BY <1>1, FS_Interval
<1>4. IsFiniteSet(Range(s)) /\ Cardinality(Range(s)) <= k
  BY <1>2, <1>3, FS_Surjection
<1>5. IsFiniteSet(S) /\ Cardinality(S) <= Cardinality(Range(s))
  BY <1>4, FS_Subset
<1>6. Cardinality(S) \in Nat /\ Cardinality(Range(s)) \in Nat
  BY <1>4, <1>5, FS_CardinalityType
<1> QED BY <1>1, <1>4, <1>5, <1>6 DEF k

LEMMA AllButLast == TypeInv => ReadsAllButLast
<1> SUFFICES ASSUME TypeInv, mode # "closed",
                    IF built THEN Links \subseteq Range(dir) ELSE num > 0,
                    NEW n \in Links
             PROVE  Found(n) \/ (built /\ refs /\ \A m \in Links : m <= n)
  BY DEF ReadsAllButLast, AllListed
<1>1. HandleInv /\ FileInv
  BY DEF TypeInv
<1>2. CASE ~ built
  BY <1>1, <1>2, AllFound DEF Hidden
<1>3. CASE built
  <2> DEFINE before == {m \in Links : m < n}
             k == Cardinality(Links)
  <2>1. /\ dir \in Seq(Int) /\ Links \subseteq Range(dir) /\ num = Len(dir)
        /\ Links \subseteq Int
    <3>1. Names \cup {Hole} \subseteq Int
      BY DEF Names, Hole
    <3>2. dir \in Seq(Names \cup {Hole})
      BY <1>1 DEF HandleInv
    <3>3. dir \in Seq(Int)
      BY <3>1, <3>2
    <3> QED BY <1>1, <1>3, <3>1, <3>3 DEF HandleInv, FileInv
  <2>2. IsFiniteSet(Links) /\ k \in Nat /\ k <= num /\ num \in Nat
    BY <2>1, FewElements, <1>1 DEF HandleInv
  <2>3. before \in SUBSET Links /\ n \notin before /\ Preceding(Links, n) = Cardinality(before)
    BY <2>1 DEF Preceding
  <2> HIDE DEF before, k
  <2>4. /\ IsFiniteSet(before) /\ Cardinality(before) \in Nat /\ Cardinality(before) < k
    <3>1. /\ IsFiniteSet(before) /\ Cardinality(before) <= k
          /\ k = Cardinality(before) => Links = before
      BY <2>2, <2>3, FS_Subset DEF k
    <3>2. Cardinality(before) \in Nat
      BY <3>1, FS_CardinalityType
    <3>3. Cardinality(before) # k
      BY <2>3, <3>1
    <3> QED BY <2>2, <3>1, <3>2, <3>3
  <2>5. CASE ~ refs
    <3>1. Preceding(Links, n) + RefsLinks < num /\ num > 0
      BY <2>2, <2>3, <2>4, <2>5 DEF RefsLinks
    <3> QED BY <3>1 DEF Found
  <2>6. CASE \E m \in Links : ~ (m <= n)
    <3>1. PICK m \in Links : ~ (m <= n)
      BY <2>6
    <3>2. m # n /\ m \notin before /\ before \cup {n} \in SUBSET Links
      BY <2>1, <2>3, <3>1 DEF before
    <3>3. /\ IsFiniteSet(before \cup {n})
          /\ Cardinality(before \cup {n}) = Cardinality(before) + 1
      BY <2>3, <2>4, FS_AddElement
    <3>4. before \cup {n} # Links
      BY <3>2
    <3>5. Cardinality(before \cup {n}) <= k /\ Cardinality(before \cup {n}) # k
      BY <2>2, <3>2, <3>4, FS_Subset DEF k
    <3>6. Cardinality(before) + 1 < num
      BY <2>2, <2>4, <3>3, <3>5
    <3>7. Preceding(Links, n) + RefsLinks < num /\ num > 0
      BY <2>2, <2>3, <2>4, <3>6 DEF RefsLinks
    <3> QED BY <3>7 DEF Found
  <2>7. refs \in BOOLEAN
    BY <1>1 DEF FileInv
  <2> QED BY <1>3, <2>5, <2>6, <2>7
<1> QED BY <1>2, <1>3

\* Whatever was written, refused, half-written or deleted (MatioBackend over
\* Mat_VarReadInfo, Mat_VarReadNextInfo73): a handle that has all entries in its
\* directory finds every variable, but perhaps the last when there are references.
THEOREM Readable == Spec => []ReadsAllButLast
<1> QED BY AllButLast, TypeInvInit, TypeInvStep, PTL DEF Spec

\* Deletions as in finding 1 included (Mat_VarDelete copies what the walk along the
\* links finds): what delvar takes along with the variable it names is at most the
\* last one of a file with references, never two, and never in another file.
THEOREM DeletionLosesOne == Spec => DeletionLosesAtMostLast
<1>1. TypeInv /\ [Next]_vars
        => [\A n \in Names : delvar(n) /\ AllListed =>
               \A lost \in Links \ (Links' \cup {n}) :
                   built /\ refs /\ \A m \in Links : m <= lost]_vars
  <2> SUFFICES ASSUME TypeInv, NEW n \in Names, delvar(n), AllListed,
                      NEW lost \in Links \ (Links' \cup {n})
               PROVE  built /\ refs /\ \A m \in Links : m <= lost
    OBVIOUS
  <2>1. Links' = Kept(n)
    BY DEF delvar, Links
  <2>2. ~ Found(lost)
    BY <2>1 DEF Kept, Hidden
  <2>3. ReadsAllButLast /\ mode # "closed"
    BY AllButLast DEF delvar
  <2> QED BY <2>2, <2>3 DEF ReadsAllButLast
<1> QED BY <1>1, TypeInvInit, TypeInvStep, PTL DEF Spec, DeletionLosesAtMostLast

-----------------------------------------------------------------------------
(* What the directory lists. *)

\* d lists names of S, none twice, and all of them that were reported in a.
Lists(d, S, a) ==
    /\ \A i, j \in DOMAIN d : d[i] = d[j] => i = j \/ d[i] = Hole
    /\ Range(d) \subseteq S \cup {Hole}
    /\ \A n \in S \ Range(d) : a[n] = Nothing

\* Without a directory and with nothing counted, what is in the file is what
\* failed half-way: nothing of it was reported.
ListInv ==
    /\ built => Lists(dir, Links, acked)
    /\ (~ built /\ mode # "closed" /\ num = 0) => \A n \in Links : acked[n] = Nothing

\* The directory a call builds, or has, is truthful.
LEMMA Listing ==
    ASSUME TypeInv, ListInv, mode # "closed"
    PROVE  Lists(Directory, Links, acked)
<1>1. HandleInv /\ FileInv
  BY DEF TypeInv
<1>2. CASE built
  BY <1>2 DEF ListInv, Directory
<1>3. CASE ~ built /\ num = 0
  <2>1. Directory = << >> /\ \A n \in Links : acked[n] = Nothing
    BY <1>1, <1>3 DEF Directory, HandleInv, ListInv
  <2> QED BY <2>1 DEF Lists, Range
<1>4. CASE ~ built /\ num # 0
  BY <1>1, <1>4, DirectoryBuilt DEF Lists
<1> QED BY <1>2, <1>3, <1>4

\* A directory with a new name at its end.
LEMMA ListsMore ==
    ASSUME NEW d \in Seq(Names \cup {Hole}), NEW S, NEW a, NEW b, NEW n \in Names,
           Lists(d, S, a), n \notin Range(d),
           \A m \in S : m # n => b[m] = a[m]
    PROVE  Lists(Append(d, n), S \cup {n}, b)
<1> DEFINE e == Append(d, n)
           k == Len(d)
<1>1. k \in Nat /\ DOMAIN d = 1 .. k /\ DOMAIN e = 1 .. k + 1
  OBVIOUS
<1>2. e[k + 1] = n /\ \A i \in 1 .. k : e[i] = d[i] /\ d[i] \in Range(d)
  BY DEF Range
<1>3. \A i \in 1 .. k + 1 : i \in 1 .. k \/ i = k + 1
  BY <1>1
<1> HIDE DEF e, k
<1>4. Range(e) = Range(d) \cup {n}
  <2>1. Range(e) \subseteq Range(d) \cup {n}
    BY <1>1, <1>2, <1>3 DEF Range
  <2>2. ASSUME NEW x \in Range(d) PROVE x \in Range(e)
    <3>1. PICK i \in 1 .. k : x = d[i]
      BY <1>1 DEF Range
    <3>2. i \in 1 .. k + 1 /\ e[i] = x
      BY <1>1, <1>2, <3>1
    <3> QED BY <1>1, <3>2 DEF Range
  <2>3. k + 1 \in 1 .. k + 1
    BY <1>1
  <2>4. n \in Range(e)
    BY <1>1, <1>2, <2>3 DEF Range
  <2> QED BY <2>1, <2>2, <2>4
<1>5. ASSUME NEW i \in DOMAIN e, NEW j \in DOMAIN e, e[i] = e[j]
      PROVE  i = j \/ e[i] = Hole
  <2>1. CASE i = k + 1
    BY <1>1, <1>2, <1>3, <1>5, <2>1
  <2>2. CASE j = k + 1
    BY <1>1, <1>2, <1>3, <1>5, <2>2
  <2>3. CASE i \in 1 .. k /\ j \in 1 .. k
    BY <1>1, <1>2, <1>5, <2>3 DEF Lists
  <2> QED BY <1>1, <1>3, <2>1, <2>2, <2>3
<1> QED BY <1>4, <1>5 DEF Lists, e

\* A call that keeps a truthful directory, or lists the name it has written.
LEMMA ListedTruthfully ==
    ASSUME TypeInv, ListInv, HandleInv', mode # "closed", mode' = mode,
           NEW n \in Names,
           \/ Links' = Links
           \/ Links' = Links \cup {n},
           \A m \in Links : m # n => acked'[m] = acked[m],
           \/ /\ ListedAlso(<<n>>)
              /\ n \notin Range(Directory) /\ n \in Links'
           \/ /\ ListedAlso(<< >>)
              /\ \/ n \in Range(Directory)
                 \/ acked' = acked /\ (n \in Links' \ Links => acked[n] = Nothing)
    PROVE  ListInv'
<1>1. Lists(Directory, Links, acked) /\ Directory \in Seq(Names \cup {Hole})
  BY Listing, DirectoryBuilt DEF TypeInv
<1>2. Lists(dir', Links', acked')
  <2>1. CASE /\ ListedAlso(<<n>>)
             /\ n \notin Range(Directory) /\ n \in Links'
    <3>1. dir' = Append(Directory, n)
      BY <1>1, <2>1 DEF ListedAlso
    <3>2. Links' = Links \cup {n}
      BY <2>1
    <3>3. Lists(Append(Directory, n), Links \cup {n}, acked')
      BY <1>1, <2>1, ListsMore
    <3> QED BY <3>1, <3>2, <3>3
  <2>2. CASE ListedAlso(<< >>) /\ n \in Range(Directory)
    <3>1. dir' = Directory
      BY <1>1, <2>2 DEF ListedAlso
    <3>2. n \in Links
      BY <1>1, <2>2 DEF Lists, Names, Hole
    <3>3. Links' = Links
      BY <3>2
    <3> QED BY <1>1, <2>2, <3>1, <3>3 DEF Lists
  <2>3. CASE /\ ListedAlso(<< >>)
             /\ acked' = acked /\ (n \in Links' \ Links => acked[n] = Nothing)
    <3>1. dir' = Directory
      BY <1>1, <2>3 DEF ListedAlso
    <3> QED BY <1>1, <2>3, <3>1 DEF Lists
  <2> QED BY <2>1, <2>2, <2>3
<1>3. ~ built' => \A m \in Links' : acked'[m] = Nothing
  <2>1. ~ built' => dir' = << >>
    BY DEF HandleInv
  <2>2. Range(<< >>) = {}
    BY DEF Range
  <2> QED BY <1>2, <2>1, <2>2 DEF Lists
<1> QED BY <1>2, <1>3 DEF ListInv, Lists

LEMMA ListNumeric ==
    ASSUME TypeInv, TypeInv', ListInv, NEW n \in Names, NEW block \in Blocks, write(n, block)
    PROVE  ListInv'
<1>a. HandleInv' /\ n # Hole
  BY DEF TypeInv, Names, Hole
<1>b. /\ mode # "closed" /\ mode' = mode
      /\ acked \in [Names -> Observed] /\ Links \subseteq Names
      /\ Lists(Directory, Links, acked)
  BY Listing DEF write, write_new, write_append, write_gap, write_refused, WriteAllowed,
                 Counted, TypeInv, FileInv
<1>c. \A e : entry' = WithEntry(n, e) => Links' = Links \cup {n}
  BY DEF Links, WithEntry
<1>1. CASE write_new(n, block)
  <2>1. n \notin Range(Directory) /\ ~ InDirectory(n)
    BY <1>1, <1>a, <1>b DEF write_new, Lists, InDirectory
  <2>2. ListedAlso(<<n>>) /\ Links' = Links \cup {n}
    BY <1>1, <1>c, <2>1 DEF write_new
  <2>3. \A m \in Links : m # n => acked'[m] = acked[m]
    BY <1>1, <1>b DEF write_new
  <2> QED BY <1>a, <1>b, <2>1, <2>2, <2>3, ListedTruthfully
<1>2. CASE write_append(n, block)
  <2>1. n \in Links /\ Links' = Links
    BY <1>2, <1>c DEF write_append, Grows
  <2>2. \A m \in Links : m # n => acked'[m] = acked[m]
    BY <1>2, <1>b DEF write_append
  <2>3. CASE n \in Range(Directory)
    <3>1. ListedAlso(<< >>)
      BY <1>2, <2>3 DEF write_append, InDirectory
    <3> QED BY <1>a, <1>b, <2>1, <2>2, <2>3, <3>1, ListedTruthfully
  <2>4. CASE n \notin Range(Directory)
    <3>1. ListedAlso(<<n>>)
      BY <1>2, <2>4 DEF write_append, InDirectory
    <3> QED BY <1>a, <1>b, <2>1, <2>2, <2>4, <3>1, ListedTruthfully
  <2> QED BY <2>3, <2>4
<1>3. CASE write_gap(n, block)
  <2>1. Links' = Links /\ acked' = acked /\ ListedAlso(<< >>)
    BY <1>3, <1>c DEF write_gap, Grows
  <2> QED BY <1>a, <1>b, <2>1, ListedTruthfully
<1>4. CASE write_refused(n, block)
  <2>1. Links' = Links /\ acked' = acked /\ ListedAlso(<< >>)
    BY <1>4 DEF write_refused, Links
  <2> QED BY <1>a, <1>b, <2>1, ListedTruthfully
<1> QED BY <1>1, <1>2, <1>3, <1>4 DEF write

\* An entry that failed half-way is not listed, and nothing was reported of it:
\* what was reported has its entry, and there was none.
LEMMA ListValue ==
    ASSUME TypeInv, TypeInv', ListInv, DeletesOnlyNamed,
           NEW n \in Names, NEW t \in Trees, write_container(n, t)
    PROVE  ListInv'
<1>a. HandleInv' /\ n # Hole
  BY DEF TypeInv, Names, Hole
<1>b. /\ mode # "closed" /\ mode' = mode
      /\ acked \in [Names -> Observed] /\ Links \subseteq Names
  BY DEF write_container, container_refused, container_failed, container_written,
         TypeInv, FileInv
<1>c. \A e : entry' = WithEntry(n, e) => Links' = Links \cup {n}
  BY DEF Links, WithEntry
<1>1. CASE container_refused(n, t)
  <2>1. Links' = Links /\ acked' = acked /\ ListedAlso(<< >>)
    BY <1>1 DEF container_refused, Links
  <2> QED BY <1>a, <1>b, <2>1, ListedTruthfully
<1>2. CASE container_failed(n, t)
  <2>1. Links' = Links \cup {n} /\ acked' = acked /\ ListedAlso(<< >>)
    BY <1>2, <1>c DEF container_failed
  <2>2. acked[n] = Nothing
    BY <1>2 DEF container_failed, DeletesOnlyNamed
  <2> QED BY <1>a, <1>b, <2>1, <2>2, ListedTruthfully
<1>3. CASE container_written(n, t)
  <2>1. /\ Links' = Links \cup {n} /\ ListedAlso(<<n>>)
        /\ n \notin Range(Directory)
    BY <1>3, <1>c DEF container_written, InDirectory
  <2>2. \A m \in Links : m # n => acked'[m] = acked[m]
    BY <1>3, <1>b DEF container_written
  <2> QED BY <1>a, <1>b, <2>1, <2>2, ListedTruthfully
<1> QED BY <1>1, <1>2, <1>3 DEF write_container

LEMMA ListDelete ==
    ASSUME TypeInv, ListInv, NEW n \in Names, delvar(n)
    PROVE  ListInv'
<1>1. Kept(n) \subseteq Names /\ Links' = Kept(n) /\ dir' = InOrderOf(Kept(n))
  BY DEF delvar, Kept, TypeInv, FileInv, Links
<1>2. Lists(InOrderOf(Kept(n)), Kept(n), acked')
  BY <1>1, InOrder DEF Lists
<1>3. ~ built' => Links' = {}
  BY <1>1 DEF delvar
<1> QED BY <1>1, <1>2, <1>3 DEF ListInv

LEMMA ListSession ==
    ASSUME TypeInv, TypeInv', ListInv,
           \/ init
           \/ \E access \in {"rdwr", "rdonly"} : load(access)
           \/ close
           \/ get_var_names
    PROVE  ListInv'
<1>1. CASE init
  <2>1. Links' = {} /\ built' = FALSE
    BY <1>1 DEF init, Links
  <2> QED BY <2>1 DEF ListInv
<1>2. ASSUME NEW access \in {"rdwr", "rdonly"}, load(access) PROVE ListInv'
  <2>1. /\ Links' = Links /\ built' = FALSE
        /\ num' = Cardinality(Links) + RefsLinks
    BY <1>2 DEF load, Links
  <2>2. /\ Cardinality(Links) \in Nat /\ IsFiniteSet(Links)
        /\ RefsLinks \in {0, 1}
    BY InOrder DEF TypeInv, FileInv, RefsLinks
  <2>3. num' = 0 => Links' = {}
    <3>1. num' = 0 => Cardinality(Links) = 0
      BY <2>1, <2>2
    <3> QED BY <2>1, <2>2, <3>1, FS_EmptySet
  <2> QED BY <2>1, <2>3 DEF ListInv
<1>3. CASE close
  BY <1>3 DEF close, ListInv
<1>4. CASE get_var_names
  <2>1. /\ Links' = Links /\ acked' = acked /\ ListedAlso(<< >>)
        /\ mode # "closed" /\ mode' = mode
    BY <1>4 DEF get_var_names, Links
  <2>2. Lists(Directory, Links, acked) /\ dir' = Directory
    <3>1. Directory \in Seq(Names \cup {Hole}) /\ dir' = Directory \o << >>
      BY <2>1, DirectoryBuilt DEF TypeInv, ListedAlso
    <3> QED BY <2>1, <3>1, Listing
  <2>3. ~ built' => dir' = << >>
    BY DEF TypeInv, HandleInv
  <2>4. Range(<< >>) = {}
    BY DEF Range
  <2> QED BY <2>1, <2>2, <2>3, <2>4 DEF ListInv, Lists
<1> QED BY <1>1, <1>2, <1>3, <1>4

LEMMA ListInvStep == TypeInv /\ TypeInv' /\ DeletesOnlyNamed /\ ListInv /\ [Next]_vars => ListInv'
<1> SUFFICES ASSUME TypeInv, TypeInv', DeletesOnlyNamed, ListInv, [Next]_vars PROVE ListInv'
  OBVIOUS
<1>1. ASSUME NEW n \in Names, NEW block \in Blocks, write(n, block) PROVE ListInv'
  BY <1>1, ListNumeric
<1>2. ASSUME NEW n \in Names, NEW t \in Trees, write_container(n, t) PROVE ListInv'
  BY <1>2, ListValue
<1>3. ASSUME NEW n \in Names, delvar(n) PROVE ListInv'
  BY <1>3, ListDelete
<1>4. CASE UNCHANGED vars
  BY <1>4 DEF vars, ListInv, Lists, Links
<1> QED BY <1>1, <1>2, <1>3, <1>4, ListSession DEF Next

\* While callers delete only when no other name is hidden, the directory on which
\* Mat_VarWrite relies lists every name once at most, none without an entry, and
\* misses none that was reported as written.
THEOREM TruthfulDirectory ==
    ASSUME HiddenDeletes = FALSE
    PROVE  Spec => []DirectoryIsTruthful
<1>1. Init => ListInv
  BY DEF Init, ListInv
<1>2. Inv => DeletesOnlyNamed
  BY DEF Inv
<1>3. ListInv => DirectoryIsTruthful
  BY DEF ListInv, Lists, DirectoryIsTruthful
<1> QED BY <1>1, <1>2, <1>3, TypeInvInit, TypeInvStep, InvInit, InvStep, ListInvStep,
           PTL DEF Spec

-----------------------------------------------------------------------------
(* What is stored of a value.  Stored and PlainText are functions defined by   *)
(* recursion on values; that there are such functions is shown level by level, *)
(* for the values of height below k.                                           *)

Lower(height, k) == {t \in Trees : height[t] < k}

Component(t, i) == t.part[i].value

\* What the definitions of Stored and PlainText say of t, given what f says of
\* its components.
PartsBy(f, t) == [i \in DOMAIN t.part |-> [t.part[i] EXCEPT !.value = f[t.part[i].value]]]

StoredBy(f, t) ==
    [kind |-> t.kind,
     val  |-> IF t.kind = "text" THEN Units(t.val) ELSE t.val,
     part |-> PartsBy(f, t)]

PlainBy(f, t) ==
    /\ t.kind = "text" => Range(t.val) \subseteq {1}
    /\ \A i \in DOMAIN t.part : f[t.part[i].value]

\* A pair of functions that obey the definitions on a set of values.
Obeys(f, p, D) ==
    /\ f = [t \in D |-> StoredBy(f, t)]
    /\ p = [t \in D |-> PlainBy(p, t)]

LEMMA ObeysAt ==
    ASSUME NEW f, NEW p, NEW D, Obeys(f, p, D), NEW t \in D
    PROVE  f[t] = StoredBy(f, t) /\ p[t] = PlainBy(p, t)
<1>1. f[t] = StoredBy(f, t)
  BY DEF Obeys
<1>2. p[t] = PlainBy(p, t)
  BY DEF Obeys
<1> QED BY <1>1, <1>2

\* f and p say of t's components what g and q say.
Agree(f, g, p, q, t) ==
    \A i \in DOMAIN t.part :
        /\ f[Component(t, i)] = g[Component(t, i)]
        /\ p[Component(t, i)] = q[Component(t, i)]

\* What they say of a value depends on its components only.
LEMMA SameParts ==
    ASSUME NEW t \in Trees, NEW f, NEW g, NEW p, NEW q,
           Agree(f, g, p, q, t)
    PROVE  StoredBy(f, t) = StoredBy(g, t) /\ PlainBy(p, t) = PlainBy(q, t)
<1>1. PartsBy(f, t) = PartsBy(g, t)
  BY DEF PartsBy, Component, Agree
<1>2. StoredBy(f, t) = StoredBy(g, t)
  BY <1>1 DEF StoredBy
<1>3. (\A i \in DOMAIN t.part : p[t.part[i].value]) <=>
          (\A i \in DOMAIN t.part : q[t.part[i].value])
  BY DEF Component, Agree
<1>4. PlainBy(p, t) = PlainBy(q, t)
  BY <1>3 DEF PlainBy
<1> QED BY <1>2, <1>4

LEMMA Components ==
    ASSUME NEW height \in [Trees -> Nat], Nested(height), NEW k \in Nat,
           NEW t \in Lower(height, k + 1), NEW i \in DOMAIN t.part
    PROVE  Component(t, i) \in Lower(height, k)
<1>1. t \in Trees /\ t.part \in Seq([name : STRING, value : Trees])
  BY TreesAssumption DEF Lower
<1>2. t.part[i] \in [name : STRING, value : Trees]
  <2> DEFINE S == [name : STRING, value : Trees]
             s == t.part
  <2>1. s \in Seq(S) /\ i \in DOMAIN s
    BY <1>1
  <2> HIDE DEF s, S
  <2>2. s[i] \in S
    BY <2>1
  <2> QED BY <2>2 DEF s, S
<1>3. Component(t, i) \in Trees
  BY <1>2 DEF Component
<1>4. height[Component(t, i)] < height[t]
  BY <1>1 DEF Nested, Component
<1>5. height[Component(t, i)] \in Nat /\ height[t] \in Nat /\ height[t] < k + 1
  BY <1>1, <1>3 DEF Lower
<1> QED BY <1>3, <1>4, <1>5 DEF Lower

LEMMA ObeysUnique ==
    ASSUME NEW height \in [Trees -> Nat], Nested(height),
           NEW j \in Nat, NEW k \in Nat, NEW f, NEW g, NEW p, NEW q,
           Obeys(f, p, Lower(height, j)), Obeys(g, q, Lower(height, k)),
           NEW t \in Lower(height, j), t \in Lower(height, k)
    PROVE  f[t] = g[t] /\ p[t] = q[t]
<1> DEFINE both == {s \in Lower(height, j) : s \in Lower(height, k)}
           differ == {s \in both : ~ (f[s] = g[s] /\ p[s] = q[s])}
           T == {height[s] : s \in differ}
<1>1. SUFFICES ASSUME T # {} PROVE FALSE
  OBVIOUS
<1>2. T \subseteq Nat
  BY DEF Lower
<1>3. PICK m \in T : \A n \in T : m <= n
  <2> HIDE DEF T
  <2> QED BY <1>1, <1>2, Least
<1>4. PICK s \in differ : height[s] = m
  BY <1>3
<1>5. s \in Trees /\ m \in Nat /\ m < j /\ m < k /\ s \in both
  BY <1>2, <1>3, <1>4 DEF Lower
<1>6. ASSUME NEW i \in DOMAIN s.part
      PROVE  /\ f[Component(s, i)] = g[Component(s, i)]
             /\ p[Component(s, i)] = q[Component(s, i)]
  <2>1. s \in Lower(height, m + 1)
    BY <1>4, <1>5 DEF Lower
  <2>2. Component(s, i) \in Lower(height, m)
    BY <1>5, <2>1, Components
  <2>3. /\ Component(s, i) \in Trees
        /\ height[Component(s, i)] \in Nat /\ height[Component(s, i)] < m
    BY <2>2 DEF Lower
  <2>4. Component(s, i) \in both
    <3>1. height[Component(s, i)] < j /\ height[Component(s, i)] < k
      BY <1>5, <2>3
    <3>2. Component(s, i) \in Lower(height, j)
      BY <2>3, <3>1 DEF Lower
    <3>3. Component(s, i) \in Lower(height, k)
      BY <2>3, <3>1 DEF Lower
    <3> QED BY <3>2, <3>3
  <2>5. height[Component(s, i)] \notin T
    <3> HIDE DEF T
    <3> QED BY <1>3, <1>5, <2>3
  <2> QED BY <2>4, <2>5
<1>7. StoredBy(f, s) = StoredBy(g, s) /\ PlainBy(p, s) = PlainBy(q, s)
  <2>1. Agree(f, g, p, q, s)
    BY <1>6 DEF Agree
  <2> QED BY <1>5, <2>1, SameParts
<1>8. f[s] = StoredBy(f, s) /\ p[s] = PlainBy(p, s)
  BY <1>5, ObeysAt
<1>9. g[s] = StoredBy(g, s) /\ q[s] = PlainBy(q, s)
  BY <1>5, ObeysAt
<1> QED BY <1>4, <1>7, <1>8, <1>9

LEMMA ObeysExists ==
    ASSUME NEW height \in [Trees -> Nat], Nested(height), NEW n \in Nat
    PROVE  \E f, p : Obeys(f, p, Lower(height, n))
<1> DEFINE T == {k \in Nat : ~ \E f, p : Obeys(f, p, Lower(height, k))}
<1>1. SUFFICES ASSUME T # {} PROVE FALSE
  OBVIOUS
<1>2. T \subseteq Nat
  OBVIOUS
<1>3. PICK m \in T : \A k \in T : m <= k
  <2> HIDE DEF T
  <2> QED BY <1>1, <1>2, Least
<1>4. CASE m = 0
  <2>1. Lower(height, m) = {}
    BY <1>4 DEF Lower
  <2> DEFINE f == [t \in {} |-> 0]
  <2>2. f = [t \in {} |-> StoredBy(f, t)] /\ f = [t \in {} |-> PlainBy(f, t)]
    OBVIOUS
  <2>3. Obeys(f, f, {})
    <3> HIDE DEF f
    <3> QED BY <2>2 DEF Obeys
  <2> QED BY <2>1, <2>3
<1>5. CASE m # 0
  <2>1. m - 1 \in Nat /\ m - 1 \notin T /\ m = (m - 1) + 1 /\ m \in Nat
    BY <1>3, <1>5
  <2> DEFINE k == m - 1
  <2>2. PICK g, q : Obeys(g, q, Lower(height, k))
    BY <2>1
  <2> DEFINE f == [t \in Lower(height, m) |-> StoredBy(g, t)]
             p == [t \in Lower(height, m) |-> PlainBy(q, t)]
  <2>3. k \in Nat /\ m = k + 1
    BY <2>1
  <2>4. Lower(height, k) \subseteq Lower(height, m) /\ Lower(height, m) \subseteq Trees
    <3> HIDE DEF k
    <3> QED BY <2>3 DEF Lower
  <2>5. \A t \in Lower(height, k) : f[t] = g[t] /\ p[t] = q[t]
    <3>1. ASSUME NEW t \in Lower(height, k)
          PROVE  g[t] = StoredBy(g, t) /\ q[t] = PlainBy(q, t)
      BY <2>2, ObeysAt
    <3> QED BY <2>4, <3>1
  <2> HIDE DEF k
  <2>6. ASSUME NEW t \in Lower(height, m)
        PROVE  StoredBy(g, t) = StoredBy(f, t) /\ PlainBy(q, t) = PlainBy(p, t)
    <3>1. \A i \in DOMAIN t.part : Component(t, i) \in Lower(height, k)
      BY <2>3, Components
    <3>2. \A i \in DOMAIN t.part :
             /\ g[Component(t, i)] = f[Component(t, i)]
             /\ q[Component(t, i)] = p[Component(t, i)]
      <4> HIDE DEF f, p
      <4> QED BY <2>5, <3>1
    <3> HIDE DEF f, p
    <3>3. Agree(g, f, q, p, t)
      BY <3>2 DEF Agree
    <3> QED BY <2>4, <3>3, SameParts
  <2>7. f = [t \in Lower(height, m) |-> StoredBy(f, t)]
    <3>1. f = [t \in Lower(height, m) |-> StoredBy(g, t)]
      OBVIOUS
    <3> HIDE DEF f
    <3> QED BY <2>6, <3>1
  <2>8. p = [t \in Lower(height, m) |-> PlainBy(p, t)]
    <3>1. p = [t \in Lower(height, m) |-> PlainBy(q, t)]
      OBVIOUS
    <3> HIDE DEF p
    <3> QED BY <2>6, <3>1
  <2>9. Obeys(f, p, Lower(height, m))
    <3> HIDE DEF f, p
    <3> QED BY <2>7, <2>8 DEF Obeys
  <2> QED BY <2>9
<1> QED BY <1>4, <1>5

\* The functions of the levels together are one for all values.
LEMMA ObeysAll ==
    ASSUME NEW height \in [Trees -> Nat], Nested(height)
    PROVE  \E f, p : Obeys(f, p, Trees)
<1> DEFINE D(t) == Lower(height, height[t] + 1)
           level(t) == CHOOSE x : Obeys(x[1], x[2], D(t))
           f == [t \in Trees |-> level(t)[1][t]]
           p == [t \in Trees |-> level(t)[2][t]]
<1>1. ASSUME NEW t \in Trees
      PROVE  Obeys(level(t)[1], level(t)[2], D(t)) /\ t \in D(t) /\ height[t] + 1 \in Nat
  <2>1. height[t] + 1 \in Nat /\ t \in D(t)
    BY DEF Lower
  <2>2. PICK g, q : Obeys(g, q, D(t))
    BY <2>1, ObeysExists
  <2> DEFINE x == <<g, q>>
  <2>3. Obeys(x[1], x[2], D(t))
    BY <2>2
  <2>4. \E y : Obeys(y[1], y[2], D(t))
    <3> HIDE DEF x
    <3> QED BY <2>3
  <2> QED BY <2>1, <2>4
<1> HIDE DEF level, D
<1>2. ASSUME NEW t \in Trees, NEW i \in DOMAIN t.part
      PROVE  /\ Component(t, i) \in Trees
             /\ level(t)[1][Component(t, i)] = f[Component(t, i)]
             /\ level(t)[2][Component(t, i)] = p[Component(t, i)]
  <2> DEFINE c == Component(t, i)
  <2>1. t \in Lower(height, height[t] + 1) /\ height[t] \in Nat
    BY <1>1 DEF D
  <2>2. c \in Lower(height, height[t])
    BY <2>1, Components
  <2>3. c \in Trees /\ c \in D(t) /\ height[c] + 1 \in Nat /\ height[t] + 1 \in Nat
    BY <2>1, <2>2 DEF Lower, D
  <2> HIDE DEF c
  <2>4. /\ Obeys(level(t)[1], level(t)[2], Lower(height, height[t] + 1))
        /\ Obeys(level(c)[1], level(c)[2], Lower(height, height[c] + 1))
        /\ c \in Lower(height, height[t] + 1) /\ c \in Lower(height, height[c] + 1)
    BY <1>1, <2>3 DEF D
  <2>5. level(t)[1][c] = level(c)[1][c] /\ level(t)[2][c] = level(c)[2][c]
    BY <2>3, <2>4, ObeysUnique
  <2>6. f[c] = level(c)[1][c] /\ p[c] = level(c)[2][c]
    BY <2>3
  <2> QED BY <2>3, <2>5, <2>6 DEF c
<1>3. ASSUME NEW t \in Trees PROVE f[t] = StoredBy(f, t) /\ p[t] = PlainBy(p, t)
  <2>1. f[t] = level(t)[1][t] /\ p[t] = level(t)[2][t]
    OBVIOUS
  <2>2. /\ level(t)[1][t] = StoredBy(level(t)[1], t)
        /\ level(t)[2][t] = PlainBy(level(t)[2], t)
    BY <1>1, ObeysAt
  <2> HIDE DEF f, p
  <2>3. StoredBy(level(t)[1], t) = StoredBy(f, t) /\ PlainBy(level(t)[2], t) = PlainBy(p, t)
    <3>1. Agree(level(t)[1], f, level(t)[2], p, t)
      BY <1>2 DEF Agree
    <3> QED BY <3>1, SameParts
  <2> QED BY <2>1, <2>2, <2>3
<1>4. f = [t \in Trees |-> f[t]] /\ p = [t \in Trees |-> p[t]]
  OBVIOUS
<1>5. Obeys(f, p, Trees)
  <2> HIDE DEF f, p
  <2> QED BY <1>3, <1>4 DEF Obeys
<1> QED BY <1>5

\* Stored and PlainText are such functions.
LEMMA StoredUnfolds ==
    ASSUME NEW height \in [Trees -> Nat], Nested(height), NEW t \in Trees
    PROVE  Stored[t] = StoredBy(Stored, t) /\ PlainText[t] = PlainBy(PlainText, t)
<1>1. PICK f, p : Obeys(f, p, Trees)
  BY ObeysAll
<1>2. \E g : g = [s \in Trees |->
                    [kind |-> s.kind,
                     val  |-> IF s.kind = "text" THEN Units(s.val) ELSE s.val,
                     part |-> [i \in DOMAIN s.part |->
                        [s.part[i] EXCEPT !.value = g[s.part[i].value]]]]]
  <2>1. f = [s \in Trees |->
                    [kind |-> s.kind,
                     val  |-> IF s.kind = "text" THEN Units(s.val) ELSE s.val,
                     part |-> [i \in DOMAIN s.part |->
                        [s.part[i] EXCEPT !.value = f[s.part[i].value]]]]]
    BY <1>1 DEF Obeys, StoredBy, PartsBy
  <2> QED BY <2>1
<1>3. Stored = [s \in Trees |-> StoredBy(Stored, s)]
  BY <1>2 DEF Stored, StoredBy, PartsBy
<1>4. \E q : q = [s \in Trees |->
                    /\ s.kind = "text" => Range(s.val) \subseteq {1}
                    /\ \A i \in DOMAIN s.part : q[s.part[i].value]]
  <2>1. p = [s \in Trees |->
                    /\ s.kind = "text" => Range(s.val) \subseteq {1}
                    /\ \A i \in DOMAIN s.part : p[s.part[i].value]]
    BY <1>1 DEF Obeys, PlainBy
  <2> QED BY <2>1
<1>5. PlainText = [s \in Trees |-> PlainBy(PlainText, s)]
  BY <1>4 DEF PlainText, PlainBy
<1> QED BY <1>3, <1>5

\* A text of characters of one byte gets one unit per character.
LEMMA PlainUnits ==
    ASSUME NEW chars \in Seq(Nat), Range(chars) \subseteq {1}
    PROVE  Units(chars) = chars
<1> DEFINE n == Len(chars)
           bytes == {byte \in (DOMAIN chars) \X (1 .. 4) : byte[2] <= chars[byte[1]]}
           f == [i \in 1 .. n |-> <<i, 1>>]
<1>1. n \in Nat /\ DOMAIN chars = 1 .. n /\ \A i \in 1 .. n : chars[i] = 1
  BY DEF Range
<1>2. f \in Bijection(1 .. n, bytes)
  <2>1. \A i \in 1 .. n : <<i, 1>> \in bytes
    BY <1>1
  <2>2. ASSUME NEW byte \in bytes PROVE \E i \in 1 .. n : byte = <<i, 1>>
    <3>1. PICK i \in 1 .. n, b \in 1 .. 4 : byte = <<i, b>>
      BY <1>1
    <3>2. b <= chars[i]
      BY <3>1
    <3>3. b = 1
      BY <1>1, <3>2
    <3> QED BY <3>1, <3>3
  <2> HIDE DEF bytes, n
  <2>3. f \in [1 .. n -> bytes]
    BY <2>1
  <2>4. \A i, j \in 1 .. n : f[i] = f[j] => i = j
    OBVIOUS
  <2>5. \A byte \in bytes : \E i \in 1 .. n : f[i] = byte
    BY <2>2
  <2> HIDE DEF f
  <2> QED BY <2>3, <2>4, <2>5 DEF Bijection, Injection, Surjection, IsInjective
<1>3. Cardinality(bytes) = n
  <2> HIDE DEF bytes, f, n
  <2>1. ExistsBijection(1 .. n, bytes)
    BY <1>2 DEF ExistsBijection
  <2> QED BY <1>1, <2>1, FS_CountingElements
<1>4. Bytes(chars) = n
  BY <1>3 DEF Bytes
<1>5. Nuls(Bytes(chars) - Len(chars)) = << >>
  <2>1. Bytes(chars) - Len(chars) = 0
    BY <1>1, <1>4
  <2>2. Nuls(0) = << >>
    BY DEF Nuls
  <2> QED BY <2>1, <2>2
<1>6. 4 \notin Range(chars)
  OBVIOUS
<1>7. chars \o << >> = chars
  OBVIOUS
<1> QED BY <1>5, <1>6, <1>7 DEF Units

\* A value with characters of one byte only is stored as it is.
LEMMA PlainStored ==
    ASSUME NEW height \in [Trees -> Nat], Nested(height), NEW t \in Trees, PlainText[t]
    PROVE  Stored[t] = t
<1> DEFINE changed == {s \in Trees : PlainText[s] /\ Stored[s] # s}
           T == {height[s] : s \in changed}
<1>1. SUFFICES ASSUME T # {} PROVE FALSE
  OBVIOUS
<1>2. T \subseteq Nat
  OBVIOUS
<1>3. PICK m \in T : \A k \in T : m <= k
  <2> HIDE DEF T
  <2> QED BY <1>1, <1>2, Least
<1>4. PICK s \in changed : height[s] = m
  BY <1>3
<1>5. s \in Trees /\ m \in Nat /\ PlainText[s] /\ Stored[s] # s
  BY <1>4
<1>6. Stored[s] = StoredBy(Stored, s) /\ PlainBy(PlainText, s)
  BY <1>5, StoredUnfolds
<1>a. /\ s \in [kind : {"matrix", "text", "struct", "cell"}, val : Seq(Nat),
                part : Seq([name : STRING, value : Trees])]
  BY <1>5, TreesAssumption
<1>7. ASSUME NEW i \in DOMAIN s.part
      PROVE  [s.part[i] EXCEPT !.value = Stored[s.part[i].value]] = s.part[i]
  <2>1. s \in Lower(height, m + 1)
    BY <1>4, <1>5 DEF Lower
  <2>2. Component(s, i) \in Lower(height, m)
    BY <1>5, <2>1, Components
  <2>3. /\ Component(s, i) \in Trees
        /\ height[Component(s, i)] \in Nat /\ height[Component(s, i)] < m
    BY <2>2 DEF Lower
  <2>4. PlainText[Component(s, i)]
    BY <1>6 DEF PlainBy, Component
  <2>5. height[Component(s, i)] \notin T
    BY <1>3, <1>5, <2>3
  <2>6. Stored[Component(s, i)] = Component(s, i)
    BY <2>3, <2>4, <2>5
  <2>7. s.part[i] \in [name : STRING, value : Trees]
    <3> DEFINE S == [name : STRING, value : Trees]
               q == s.part
    <3>1. q \in Seq(S) /\ i \in DOMAIN q
      BY <1>a
    <3> HIDE DEF q, S
    <3>2. q[i] \in S
      BY <3>1
    <3> QED BY <3>2 DEF q, S
  <2>8. ASSUME NEW r \in [name : STRING, value : Trees], NEW v, v = r.value
        PROVE  [r EXCEPT !.value = v] = r
    BY <2>8
  <2> QED BY <2>6, <2>7, <2>8 DEF Component
<1>8. PartsBy(Stored, s) = s.part
  <2>1. s.part = [i \in DOMAIN s.part |-> s.part[i]]
    BY <1>a
  <2> QED BY <1>7, <2>1 DEF PartsBy
<1>9. (IF s.kind = "text" THEN Units(s.val) ELSE s.val) = s.val
  <2>1. s.val \in Seq(Nat)
    BY <1>a
  <2>2. s.kind = "text" => Range(s.val) \subseteq {1}
    BY <1>6 DEF PlainBy
  <2> QED BY <2>1, <2>2, PlainUnits
<1>10. StoredBy(Stored, s) = [kind |-> s.kind, val |-> s.val, part |-> s.part]
  BY <1>8, <1>9 DEF StoredBy
<1>11. s = [kind |-> s.kind, val |-> s.val, part |-> s.part]
  BY <1>a
<1> QED BY <1>5, <1>6, <1>10, <1>11

-----------------------------------------------------------------------------
(* What is read of a value. *)

\* The entry of a name has what was stored of the value reported last.
ValueInv ==
    \A n \in Links :
        acked[n].value # NoValue => entry[n].value = Stored[acked[n].value]

\* Writing an entry keeps it, if it is the one of the value reported.
LEMMA ValueWritten ==
    ASSUME FileInv, acked \in [Names -> Observed], ValueInv, NEW n \in Names, NEW e,
           entry' = WithEntry(n, e),
           \A m \in Links : m # n => acked'[m] = acked[m],
           acked'[n].value # NoValue => e.value = Stored[acked'[n].value]
    PROVE  ValueInv'
<1>1. /\ Links' = Links \cup {n} /\ entry'[n] = e
      /\ \A m \in Links : m # n => entry'[m] = entry[m]
  BY DEF Links, WithEntry
<1>2. ASSUME NEW m \in Links', acked'[m].value # NoValue
      PROVE  entry'[m].value = Stored[acked'[m].value]
  <2>1. CASE m = n
    BY <1>1, <1>2, <2>1
  <2>2. CASE m # n
    BY <1>1, <1>2, <2>2 DEF ValueInv
  <2> QED BY <2>1, <2>2
<1> QED BY <1>2 DEF ValueInv

LEMMA ValueNumeric ==
    ASSUME TypeInv, ValueInv, NEW n \in Names, NEW block \in Blocks, write(n, block)
    PROVE  ValueInv'
<1>a. FileInv /\ acked \in [Names -> Observed]
  BY DEF TypeInv
<1>1. CASE write_new(n, block)
  <2>1. acked'[n].value = NoValue /\ \A m \in Links : m # n => acked'[m] = acked[m]
    BY <1>1, <1>a DEF write_new, OfBlocks, FileInv
  <2> QED BY <1>1, <1>a, <2>1, ValueWritten DEF write_new
<1>2. CASE write_append(n, block)
  <2>1. acked'[n].value = NoValue /\ \A m \in Links : m # n => acked'[m] = acked[m]
    BY <1>2, <1>a DEF write_append, OfBlocks, FileInv
  <2> QED BY <1>2, <1>a, <2>1, ValueWritten DEF write_append
<1>3. CASE write_gap(n, block)
  <2>1. n \in Links /\ entry[n] \in EntryType /\ acked' = acked
    BY <1>3, <1>a DEF write_gap, Grows, FileInv
  <2>2. Extended(entry[n], Gap).value = entry[n].value
    BY <2>1 DEF Extended, EntryType
  <2>3. acked'[n].value # NoValue => Extended(entry[n], Gap).value = Stored[acked'[n].value]
    BY <2>1, <2>2 DEF ValueInv
  <2> QED BY <1>3, <1>a, <2>1, <2>3, ValueWritten DEF write_gap
<1>4. CASE write_refused(n, block)
  BY <1>4 DEF write_refused, ValueInv, Links
<1> QED BY <1>1, <1>2, <1>3, <1>4 DEF write

LEMMA ValueValue ==
    ASSUME TypeInv, DeletesOnlyNamed, ValueInv,
           NEW n \in Names, NEW t \in Trees, write_container(n, t)
    PROVE  ValueInv'
<1>a. FileInv /\ acked \in [Names -> Observed]
  BY DEF TypeInv
<1>b. ValueEntry(t).value = Stored[t]
  BY DEF ValueEntry
<1>1. CASE container_refused(n, t)
  BY <1>1 DEF container_refused, ValueInv, Links
<1>2. CASE container_failed(n, t)
  <2>1. acked' = acked /\ acked[n] = Nothing
    BY <1>2 DEF container_failed, DeletesOnlyNamed
  <2>2. acked'[n].value = NoValue
    BY <2>1 DEF Nothing, OfBlocks
  <2> QED BY <1>2, <1>a, <2>1, <2>2, ValueWritten DEF container_failed
<1>3. CASE container_written(n, t)
  <2>1. acked'[n].value = t /\ \A m \in Links : m # n => acked'[m] = acked[m]
    BY <1>3, <1>a DEF container_written, OfValue, FileInv
  <2> QED BY <1>3, <1>a, <1>b, <2>1, ValueWritten DEF container_written
<1> QED BY <1>1, <1>2, <1>3 DEF write_container

LEMMA ValueDelete ==
    ASSUME TypeInv, ValueInv, NEW n \in Names, delvar(n)
    PROVE  ValueInv'
<1>a. FileInv /\ acked \in [Names -> Observed]
  BY DEF TypeInv
<1>1. /\ entry' = [m \in Kept(n) |-> Copied(entry[m])]
      /\ acked' = [acked EXCEPT ![n] = Nothing]
  BY DEF delvar
<1>2. Links' = Kept(n) /\ Kept(n) \subseteq Links /\ n \notin Kept(n) /\ Links \subseteq Names
  BY <1>1, <1>a DEF Links, Kept, FileInv
<1>3. ASSUME NEW m \in Kept(n)
      PROVE  entry'[m].value = entry[m].value /\ acked'[m] = acked[m]
  <2>1. entry[m] \in EntryType
    BY <1>2, <1>a DEF FileInv
  <2>2. Copied(entry[m]).value = entry[m].value
    BY <2>1 DEF Copied, EntryType
  <2> QED BY <1>1, <1>2, <1>a, <2>2
<1> QED BY <1>2, <1>3 DEF ValueInv

LEMMA ValueInvStep ==
    TypeInv /\ DeletesOnlyNamed /\ ValueInv /\ [Next]_vars => ValueInv'
<1> SUFFICES ASSUME TypeInv, DeletesOnlyNamed, ValueInv, [Next]_vars PROVE ValueInv'
  OBVIOUS
<1>1. CASE init
  BY <1>1 DEF init, ValueInv, Links
<1>2. ASSUME NEW access \in {"rdwr", "rdonly"}, load(access) PROVE ValueInv'
  BY <1>2 DEF load, ValueInv, Links
<1>3. CASE close \/ get_var_names
  BY <1>3 DEF close, get_var_names, ValueInv, Links
<1>4. ASSUME NEW n \in Names, NEW block \in Blocks, write(n, block) PROVE ValueInv'
  BY <1>4, ValueNumeric
<1>5. ASSUME NEW n \in Names, NEW t \in Trees, write_container(n, t) PROVE ValueInv'
  BY <1>5, ValueValue
<1>6. ASSUME NEW n \in Names, delvar(n) PROVE ValueInv'
  BY <1>6, ValueDelete
<1>7. CASE UNCHANGED vars
  BY <1>7 DEF vars, ValueInv, Links
<1> QED BY <1>1, <1>2, <1>3, <1>4, <1>5, <1>6, <1>7 DEF Next

\* Values that nest finitely deep, with characters of one byte: read_container
\* returns what write_container reported as written, in this or a later session,
\* whatever else was written, refused or deleted.
THEOREM ValuesSurvive ==
    ASSUME HiddenDeletes = FALSE, \E height \in [Trees -> Nat] : Nested(height)
    PROVE  Spec => []ReadsWhatWasSaved
<1>1. Init => ValueInv
  BY DEF Init, ValueInv, Links
<1>2. Inv => DeletesOnlyNamed
  BY DEF Inv
<1>3. ValueInv => ReadsWhatWasSaved
  <2> SUFFICES ASSUME ValueInv, NEW n \in Links, acked[n].value \in Trees,
                      PlainText[acked[n].value], HasData(acked[n].value)
               PROVE  HasData(entry[n].value) /\ entry[n].value = acked[n].value
    BY DEF ReadsWhatWasSaved
  <2>1. acked[n].value # NoValue
    BY DEF HasData, NoValue, Text
  <2>2. Stored[acked[n].value] = acked[n].value
    BY PlainStored
  <2> QED BY <2>1, <2>2 DEF ValueInv
<1> QED BY <1>1, <1>2, <1>3, TypeInvInit, TypeInvStep, InvInit, InvStep, ValueInvStep,
           PTL DEF Spec

=============================================================================
