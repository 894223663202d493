---------------------------- MODULE MatioBackend ----------------------------
(***************************************************************************)
(* MatioBackend (src/matio_backend.cpp) over a version 7.3 MAT-file, with  *)
(* the bookkeeping matio keeps in its handle (matio/src/mat.c, mat73.c).   *)
(*                                                                         *)
(* The file has one link per entry, iterated in the order of the names,    *)
(* and, once a cell array was written, one to the group "#refs#", which    *)
(* sorts before them.  The handle counts data sets (num) and caches their  *)
(* names (dir); names are looked up by walking the links while the index   *)
(* of the next one is below num.  What is counted differs: Mat_Open counts *)
(* every link, "#refs#" too, writing counts the names written, and         *)
(* Mat_VarDelete the names kept.                                           *)
(*                                                                         *)
(* A session is one backend: init or load, calls, close.  The calls come   *)
(* from one thread at a time, as from MatLogger2's flushing thread.        *)
(***************************************************************************)
EXTENDS MatContainer, Integers, FiniteSets

CONSTANTS
    NumNames,       \* the names used, 1 .. NumNames in the order of the links
    Blocks,         \* shapes of numeric blocks: records [rows, slices]
    HiddenDeletes,  \* FALSE: callers delete only when no other name is hidden
    MaxWrites,      \* bound on numeric writes
    MaxSessions     \* bound on sessions

Names == 1 .. NumNames

ASSUME BackendAssumption ==
    /\ NumNames \in Nat
    /\ Blocks \subseteq [rows : Nat, slices : Int]
    /\ HiddenDeletes \in BOOLEAN
    /\ MaxWrites \in Nat /\ MaxSessions \in Nat

VARIABLES
    exists,     \* whether there is a file
    entry,      \* its entries, a function on the names linked
    refs,       \* whether it has the group "#refs#"
    mode,       \* "closed", "rdwr" or "rdonly": the handle, and _mat_access_mode
    num,        \* mat->num_datasets
    built,      \* mat->dir # NULL
    dir,        \* mat->dir: names, and Hole for a null pointer
    acked,      \* observer: by name, the blocks and the value reported as written
    writes,     \* numeric writes so far; the next block's identity
    sessions    \* sessions so far

fileVars == <<exists, entry, refs>>
handleVars == <<num, built, dir>>
countVars == <<writes, sessions>>
vars == <<exists, entry, refs, mode, num, built, dir, acked, writes, sessions>>

Hole == 0
Gap == -1
Links == DOMAIN entry
NoValue == Text(<< >>)
OfBlocks(ids) == [blocks |-> ids, value |-> NoValue]
OfValue(t) == [blocks |-> {}, value |-> t]
Nothing == OfBlocks({})

Rank(block) == IF block.slices = 1 THEN 2 ELSE 3

\* An entry: numeric data appended block by block, in a data set that grows, or
\* a value written whole.  Blocks are known by their identity; Gap stands for
\* the room a failed append has made.
DataEntry(block) ==
    [rows |-> block.rows, rank |-> Rank(block), grows |-> TRUE,
     blocks |-> <<writes>>, value |-> NoValue, refs |-> FALSE]
ValueEntry(t) ==
    [rows |-> 0, rank |-> 0, grows |-> FALSE,
     blocks |-> << >>, value |-> Stored[t], refs |-> WritesRefs[t] = TRUE]

Extended(e, block) == [e EXCEPT !.blocks = Append(@, block)]

WithEntry(n, e) == [m \in Links \cup {n} |-> IF m = n THEN e ELSE entry[m]]

RefsLinks == IF refs THEN 1 ELSE 0

-----------------------------------------------------------------------------
(* Finding names. *)

\* How many of a set of names come before n in the iteration.
Preceding(S, n) == Cardinality({m \in S : m < n})

\* Mat_VarReadInfo starts at link 0 and goes on while the index is below num;
\* Mat_VarReadNextInfo73 skips "#refs#" and moves the index past what it found.
Found(n) ==
    /\ n \in Links
    /\ IF Preceding(Links, n) = 0 THEN num > 0
       ELSE Preceding(Links, n) + RefsLinks < num

Hidden == {n \in Links : ~ Found(n)}

InOrderOf(S) ==
    [i \in 1 .. Cardinality(S) |-> CHOOSE n \in S : Preceding(S, n) = i - 1]

\* Mat_GetDir: num slots, the names found, and null pointers after them.  With
\* nothing counted there is no directory.
Directory ==
    IF built \/ num = 0 THEN dir
    ELSE LET found == InOrderOf(Links \ Hidden)
         IN  found \o [i \in 1 .. num - Len(found) |-> Hole]

InDirectory(n) == n \in Range(Directory)

\* [Bug: num_datasets is not raised.]
ListedAlso_Uncounted(added) ==
    /\ dir' = Directory \o added
    /\ num' = num
    /\ built' = (built \/ num + Len(added) > 0)

\* The handle after a call that built the directory and added names to it.
ListedAlso(added) ==
    /\ dir' = Directory \o added
    /\ num' = num + Len(added)
    /\ built' = (built \/ num + Len(added) > 0)

-----------------------------------------------------------------------------
(* Sessions. *)

Init ==
    /\ exists = FALSE
    /\ entry = << >>
    /\ refs = FALSE
    /\ mode = "closed"
    /\ num = 0 /\ built = FALSE /\ dir = << >>
    /\ acked = [n \in Names |-> Nothing]
    /\ writes = 0 /\ sessions = 0

\* init: an existing file is removed, Mat_Create73 counts nothing.
init ==
    /\ mode = "closed" /\ sessions < MaxSessions
    /\ exists' = TRUE
    /\ entry' = << >>
    /\ refs' = FALSE
    /\ mode' = "rdwr"
    /\ num' = 0 /\ built' = FALSE /\ dir' = << >>
    /\ acked' = [n \in Names |-> Nothing]
    /\ sessions' = sessions + 1
    /\ UNCHANGED writes

\* [Bug: Mat_Open leaves "#refs#" out of the count.]
load_NamesOnly(access) ==
    /\ mode = "closed" /\ exists /\ sessions < MaxSessions
    /\ mode' = access
    /\ num' = Cardinality(Links)
    /\ built' = FALSE /\ dir' = << >>
    /\ sessions' = sessions + 1
    /\ UNCHANGED <<exists, entry, refs, acked, writes>>

\* load: Mat_Open counts all links.  Without a file it returns NULL, load fails
\* and nothing is open.
load(access) ==
    /\ mode = "closed" /\ exists /\ sessions < MaxSessions
    /\ mode' = access
    /\ num' = Cardinality(Links) + RefsLinks
    /\ built' = FALSE /\ dir' = << >>
    /\ sessions' = sessions + 1
    /\ UNCHANGED <<exists, entry, refs, acked, writes>>

close ==
    /\ mode # "closed"
    /\ mode' = "closed"
    /\ num' = 0 /\ built' = FALSE /\ dir' = << >>
    /\ UNCHANGED <<exists, entry, refs, acked, writes, sessions>>

get_var_names ==
    /\ mode # "closed"
    /\ ListedAlso(<< >>)
    /\ UNCHANGED <<exists, entry, refs, mode, acked, writes, sessions>>

-----------------------------------------------------------------------------
(* Numeric blocks. *)

\* write itself refuses a handle opened for reading and a block without slices.
WriteAllowed(block) == mode = "rdwr" /\ block.slices > 0

Counted ==
    /\ writes < MaxWrites
    /\ writes' = writes + 1
    /\ UNCHANGED <<exists, refs, mode, sessions>>

\* Mat_VarWriteAppend73 creates a data set that can grow.
write_new(n, block) ==
    /\ WriteAllowed(block)
    /\ block.rows > 0
    /\ n \notin Links
    /\ Counted
    /\ entry' = WithEntry(n, DataEntry(block))
    /\ acked' = [acked EXCEPT ![n] = OfBlocks({writes})]
    /\ ListedAlso(IF InDirectory(n) THEN << >> ELSE <<n>>)

Grows(n, block) ==
    /\ n \in Links
    /\ entry[n].grows
    /\ entry[n].rank = Rank(block)

\* The data set grows along the last dimension, then the block is written into
\* the new part.  A block of fewer rows fits and leaves the other rows zero.
write_append(n, block) ==
    /\ WriteAllowed(block)
    /\ block.rows > 0
    /\ Grows(n, block)
    /\ block.rows <= entry[n].rows
    /\ Counted
    /\ entry' = WithEntry(n, Extended(entry[n], writes))
    /\ acked' = [acked EXCEPT ![n] = OfBlocks(@.blocks \cup {writes})]
    /\ ListedAlso(IF InDirectory(n) THEN << >> ELSE <<n>>)

\* [Bug: a block of other rows is reported as written.]
write_gap_Acked(n, block) ==
    /\ WriteAllowed(block)
    /\ Grows(n, block)
    /\ block.rows > entry[n].rows
    /\ Counted
    /\ entry' = WithEntry(n, Extended(entry[n], Gap))
    /\ acked' = [acked EXCEPT ![n] = OfBlocks(@.blocks \cup {writes})]
    /\ ListedAlso(<< >>)

\* A block of more rows does not fit: the write fails, the growth remains.
write_gap(n, block) ==
    /\ WriteAllowed(block)
    /\ Grows(n, block)
    /\ block.rows > entry[n].rows
    /\ Counted
    /\ entry' = WithEntry(n, Extended(entry[n], Gap))
    /\ ListedAlso(<< >>)
    /\ UNCHANGED acked

\* A block without elements, a data set of another rank, one that cannot grow.
write_refused(n, block) ==
    /\ WriteAllowed(block)
    /\ \/ block.rows = 0
       \/ n \in Links /\ ~ Grows(n, block)
    /\ Counted
    /\ ListedAlso(<< >>)
    /\ UNCHANGED <<entry, acked>>

-----------------------------------------------------------------------------
(* Values written whole. *)

\* Mat_VarWrite refuses a name in the directory; HDF5 one that only has a link,
\* and any in a file opened for reading.  Mat_VarWriteCell73 has made sure of
\* "#refs#" before the name clashes.
container_refused(n, t) ==
    /\ mode # "closed"
    /\ mode = "rdonly" \/ InDirectory(n) \/ n \in Links
    /\ refs' = (refs \/ (mode = "rdwr" /\ ~ InDirectory(n) /\ IsReferenceArray(t)))
    /\ ListedAlso(<< >>)
    /\ UNCHANGED <<exists, entry, mode, acked, writes, sessions>>

\* The write failed after it had created the entry: it stays, unlisted.
container_failed(n, t) ==
    /\ mode = "rdwr" /\ n \notin Links /\ ~ InDirectory(n)
    /\ ~ Accepted[t]
    /\ entry' = WithEntry(n, ValueEntry(t))
    /\ refs' = (refs \/ WritesRefs[t])
    /\ ListedAlso(<< >>)
    /\ UNCHANGED <<exists, mode, acked, writes, sessions>>

container_written(n, t) ==
    /\ mode = "rdwr" /\ n \notin Links /\ ~ InDirectory(n)
    /\ Accepted[t]
    /\ entry' = WithEntry(n, ValueEntry(t))
    /\ refs' = (refs \/ WritesRefs[t])
    /\ acked' = [acked EXCEPT ![n] = OfValue(t)]
    /\ ListedAlso(<<n>>)
    /\ UNCHANGED <<exists, mode, writes, sessions>>

-----------------------------------------------------------------------------
(* Deleting: the other variables are copied into a new file. *)

\* Mat_VarDelete copies what Mat_VarReadNext finds; a data set written whole
\* cannot grow any more.
Copied(e) == [e EXCEPT !.grows = FALSE]

Kept(n) == (Links \ Hidden) \ {n}

\* [Bug: the handle keeps the directory it had.]
delvar_StaleDirectory(n) ==
    /\ mode # "closed"
    /\ Links \ Hidden # {}
    /\ HiddenDeletes \/ Hidden \subseteq {n}
    /\ entry' = [m \in Kept(n) |-> Copied(entry[m])]
    /\ refs' = (\E m \in Kept(n) : entry[m].refs)
    /\ acked' = [acked EXCEPT ![n] = Nothing]
    /\ UNCHANGED <<exists, mode, num, built, dir, writes, sessions>>

\* With nothing to read nothing happens.  The new file replaces the old one and
\* the handle takes over its directory; its mode does not matter.
delvar(n) ==
    /\ mode # "closed"
    /\ Links \ Hidden # {}
    /\ HiddenDeletes \/ Hidden \subseteq {n}
    /\ entry' = [m \in Kept(n) |-> Copied(entry[m])]
    /\ refs' = (\E m \in Kept(n) : entry[m].refs)
    /\ dir' = InOrderOf(Kept(n))
    /\ num' = Cardinality(Kept(n))
    /\ built' = (Kept(n) # {})
    /\ acked' = [acked EXCEPT ![n] = Nothing]
    /\ UNCHANGED <<exists, mode, writes, sessions>>

-----------------------------------------------------------------------------

write(n, block) ==
    \/ write_new(n, block)
    \/ write_append(n, block)
    \/ write_gap(n, block)
    \/ write_refused(n, block)

write_container(n, t) ==
    \/ container_refused(n, t)
    \/ container_failed(n, t)
    \/ container_written(n, t)

Next ==
    \/ init
    \/ \E access \in {"rdwr", "rdonly"} : load(access)
    \/ close
    \/ get_var_names
    \/ \E n \in Names :
          \/ \E block \in Blocks : write(n, block)
          \/ \E t \in Trees : write_container(n, t)
          \/ delvar(n)

Spec == Init /\ [][Next]_vars

-----------------------------------------------------------------------------
(* Properties. *)

EntryType ==
    [rows : Nat, rank : {0, 2, 3}, grows : BOOLEAN, blocks : Seq(Nat \cup {Gap}),
     value : {NoValue} \cup {Stored[t] : t \in Trees}, refs : BOOLEAN]

\* The type of the file, of the handle's bookkeeping and of the observer.
TypeOK ==
    /\ exists \in BOOLEAN
    /\ Links \subseteq Names
    /\ entry \in [Links -> EntryType]
    /\ refs \in BOOLEAN
    /\ mode \in {"closed", "rdwr", "rdonly"}
    /\ num \in Nat
    /\ built \in BOOLEAN
    /\ dir \in Seq(Names \cup {Hole})
    /\ num = Len(dir) \/ ~ built
    /\ acked \in [Names -> [blocks : SUBSET Nat, value : Trees \cup {NoValue}]]
    /\ writes \in 0 .. MaxWrites /\ sessions \in 0 .. MaxSessions

\* Whatever order of sessions, refused calls and deletions: matio's directory,
\* on which Mat_VarWrite relies to refuse a name in use, lists no name twice and
\* none that has no entry; and an entry it misses was never reported as written.
DirectoryIsTruthful ==
    built =>
        /\ \A i, j \in DOMAIN dir : dir[i] = dir[j] => i = j \/ dir[i] = Hole
        /\ Range(dir) \subseteq Links \cup {Hole}
        /\ \A n \in Links \ Range(dir) : acked[n] = Nothing

\* The handle counts every entry of the file: no half-written one is missing from
\* its directory, or from the count on opening.
AllListed == IF built THEN Links \subseteq Range(dir) ELSE num > 0

\* readvar and read_container find every variable of a file just loaded; once a
\* session has written or deleted they may miss one, the last in the order of the
\* names, and only when the file has its group of references.  (A session that
\* left an entry half-written, out of its directory, is another matter.)
ReadsAllButLast ==
    (mode # "closed" /\ AllListed)
        => \A n \in Links : Found(n) \/ (built /\ refs /\ \A m \in Links : m <= n)

\* What delvar can destroy, whatever is hidden from the walk by which
\* Mat_VarDelete copies: besides the variable it names at most one, the last in
\* the order of the names, and that only when the handle has its directory and the
\* file its group of references.  (Half-written entries may go too.)
DeletionLosesAtMostLast ==
    [][\A n \in Names : delvar(n) /\ AllListed =>
          \A lost \in Links \ (Links' \cup {n}) :
              built /\ refs /\ \A m \in Links : m <= lost]_vars

StoredBlocks(n) == IF n \in Links THEN entry[n].blocks ELSE << >>

\* Over any sequence of sessions the entry of a name has exactly the blocks whose
\* write returned true since the name was last deleted, each once and in the
\* order they were written; what is between them is room of failed appends.
AckedIsStored ==
    \A n \in Names :
        LET blocks == StoredBlocks(n)
        IN  /\ {b \in Range(blocks) : b # Gap} = acked[n].blocks
            /\ \A i, j \in DOMAIN blocks :
                  i < j => blocks[i] < blocks[j] \/ blocks[i] = Gap \/ blocks[j] = Gap

\* A value write_container reported as written is what read_container returns, in
\* this or a later session and after other variables were deleted: for values
\* that have data at the top and one-byte characters only.
ReadsWhatWasSaved ==
    \A n \in Links :
        LET saved == acked[n].value
        IN  (saved \in Trees /\ PlainText[saved] /\ HasData(saved) /\ Found(n))
              => HasData(entry[n].value) /\ entry[n].value = saved

\* "Deletes a variable from a file": what was reported as written and not deleted
\* by its own name has its entry.
DeletesOnlyNamed ==
    \A n \in Names : acked[n] # Nothing => n \in Links
=============================================================================
