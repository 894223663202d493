------------------------------- MODULE MatData ------------------------------
(***************************************************************************)
(* MatData (mat_data.h, mat_data.cpp): each object owns, by a unique_ptr,  *)
(* a ScalarData, StructData or CellData, and the last two own the MatData  *)
(* objects that are their components.  heap maps the identities of the     *)
(* MatDataBase objects alive to what they hold; the object Scope stands    *)
(* for the program's variables.  A MatData object is known by its address  *)
(* <<variable, key, key, ...>>: the pointer at key, in the last object on  *)
(* the way.  Null is the pointer of an object moved from.                  *)
(*                                                                         *)
(* Callers keep to the interface: they use a value moved from only as the  *)
(* left side of an assignment, stay within the bounds of a cell array and  *)
(* never move a value into a component of itself.  Whether they assign a   *)
(* value to or from a component of itself is the constant Aliasing.        *)
(***************************************************************************)
EXTENDS Naturals, FiniteSets, SequencesExt

CONSTANTS
    Variables, Fields, Scalars, Zero, CellSizes,   \* as in MatValues
    Aliasing,    \* whether callers copy between a value and its components
    MaxNodes,    \* bound on the objects alive
    MaxDepth,    \* bound on the length of an address
    MaxSaved     \* bound on the values not yet written

ASSUME MatDataAssumption ==
    /\ IsFiniteSet(Variables) /\ Cardinality(Variables) <= MaxNodes
    /\ Zero \in Scalars /\ Scalars \cap {"struct", "cell"} = {} /\ CellSizes \subseteq Nat
    /\ Aliasing \in BOOLEAN
    /\ MaxNodes \in Nat /\ MaxDepth \in Nat /\ MaxSaved \in Nat

VARIABLES
    heap,    \* identity -> [label, child]: a kind or a scalar, and the pointers
    saved,   \* MatLogger2's _matdata_queue: the pointers of its elements
    fault    \* a call has read an object destroyed, or a null pointer

vars == <<heap, saved, fault>>

Null == 0
Scope == MaxNodes + 1

\* f, and g where f is not defined.
Extended(f, g) ==
    [x \in DOMAIN f \cup DOMAIN g |-> IF x \in DOMAIN f THEN f[x] ELSE g[x]]

-----------------------------------------------------------------------------
(* Trees of objects in a heap h. *)

\* The object at an address relative to the object n.
Follow(h, n, p) ==
    LET at[i \in 0 .. Len(p)] == IF i = 0 THEN n ELSE h[at[i - 1]].child[p[i]]
    IN  at[Len(p)]

\* The addresses, relative to n, of what it owns.
Addresses(h, n) ==
    LET below[m \in 0 .. Scope] ==
            {<< >>} \cup (IF m \notin DOMAIN h THEN {}
                          ELSE UNION {{<<k>> \o r : r \in below[h[m].child[k]]} :
                                         k \in DOMAIN h[m].child})
    IN  below[n]

Owned(h, n) == {Follow(h, n, r) : r \in Addresses(h, n)}

\* Nothing in the tree is moved from or destroyed.
Whole(h, n) == Owned(h, n) \subseteq DOMAIN h

\* _data_ptr of the MatData object at p becomes n.
Pointing(h, p, n) == [h EXCEPT ![Follow(h, Scope, Front(p))].child[Last(p)] = n]

\* _data_ptr.reset(): what it owned is destroyed.
Reset(h, p) ==
    Restrict(Pointing(h, p, Null), DOMAIN h \ Owned(h, Follow(h, Scope, p)))

Free(h) == 1 .. MaxNodes \ DOMAIN h

\* Identities not in use for the elements of a set of numbers, in their order.
New(h, S) ==
    [m \in S |-> CHOOSE x \in Free(h) :
        Cardinality({y \in Free(h) : y < x}) = Cardinality({y \in S : y < m})]

Fits(h, count) == count <= Cardinality(Free(h))

\* An object with size components, scalars by default.
Made(h, label, size) ==
    LET id == New(h, 0 .. size)
    IN  [ptr |-> id[0],
         objects |-> [m \in Range(id) |->
            IF m = id[0] THEN [label |-> label, child |-> [k \in 1 .. size |-> id[k]]]
            ELSE [label |-> Zero, child |-> << >>]]]

\* [Bug: the copy owns the components of the original.]
Clone_Shallow(h, n) ==
    LET id == New(h, {n}) IN [ptr |-> id[n], objects |-> [m \in {id[n]} |-> h[n]]]

\* clone(): the copy constructors of ScalarData, StructData and CellData copy
\* their components, as far as these are alive.
Clone(h, n) ==
    LET id == New(h, Owned(h, n) \cap DOMAIN h)
        Copy(m) == IF m \in DOMAIN id THEN id[m] ELSE Null
    IN  [ptr |-> Copy(n),
         objects |-> [x \in Range(id) |->
            LET original == h[AntiFunction(id)[x]]
            IN  [original EXCEPT !.child = [k \in DOMAIN @ |-> Copy(@[k])]]]]

\* The heap after p was given a new tree of objects.
Given(h, p, tree) == Pointing(Extended(h, tree.objects), p, tree.ptr)

-----------------------------------------------------------------------------
(* Operations.  A call that asks a value for another type throws bad_type and *)
(* has no effect: it is no step.                                              *)

Places == Addresses(heap, Scope) \ {<< >>}
Node(p) == Follow(heap, Scope, p)
Holds(p, label) == Node(p) # Null /\ heap[Node(p)].label = label

\* The objects the variables own at the start.
Numbered == CHOOSE f \in [Variables -> 1 .. Cardinality(Variables)] : IsInjective(f)

Init ==
    /\ heap = [n \in 1 .. Cardinality(Variables) \cup {Scope} |->
                  IF n # Scope THEN [label |-> Zero, child |-> << >>]
                  ELSE [label |-> "scope", child |-> Numbered]]
    /\ saved = << >>
    /\ fault = FALSE

\* A temporary, move-assigned: p = c, with the constructor from a scalar,
\* p = MatData::make_struct() and p = MatData::make_cell(size).
assign_new(p, label, size) ==
    /\ size > 0 => Len(p) < MaxDepth
    /\ Fits(heap, 1 + size)
    /\ heap' = Given(Reset(heap, p), p, Made(Reset(heap, p), label, size))
    /\ UNCHANGED <<saved, fault>>

\* [Bug: getScalar does not look at the type.]
set_value_Unchecked(p, c) ==
    /\ Node(p) # Null
    /\ heap' = [heap EXCEPT ![Node(p)].label = c]
    /\ UNCHANGED <<saved, fault>>

\* p.value() = c
set_value(p, c) ==
    /\ \E d \in Scalars : Holds(p, d)
    /\ heap' = [heap EXCEPT ![Node(p)].label = c]
    /\ UNCHANGED <<saved, fault>>

\* p[f]: std::map's operator[] makes the field there is not.
operator_index(p, f) ==
    /\ Holds(p, "struct")
    /\ f \notin DOMAIN heap[Node(p)].child
    /\ Len(p) < MaxDepth /\ Fits(heap, 1)
    /\ LET field == Made(heap, Zero, 0)
       IN  heap' = [Extended(heap, field.objects) EXCEPT
                       ![Node(p)].child = Extended(@, [x \in {f} |-> field.ptr])]
    /\ UNCHANGED <<saved, fault>>

\* A caller's copy: of a value that is whole, and unless Aliasing not between a
\* value and its own component.
MayCopy(p, q) ==
    /\ Whole(heap, Node(q))
    /\ Aliasing \/ p = q \/ ~ (IsPrefix(p, q) \/ IsPrefix(q, p))
    /\ \A r \in Addresses(heap, Node(q)) : Len(p) + Len(r) <= MaxDepth
    /\ Fits(heap, Cardinality(Owned(heap, Node(q))))

\* [Bug: no test for self-assignment.]
copy_assign_Unchecked(p, q) ==
    /\ MayCopy(p, q)
    /\ LET freed == Reset(heap, p)
       IN  /\ heap' = Given(freed, p, Clone(freed, Node(q)))
           /\ fault' = ~ Whole(freed, Node(q))
    /\ UNCHANGED saved

\* p = q: the left side is reset before the right side is cloned.
copy_assign(p, q) ==
    /\ MayCopy(p, q)
    /\ LET freed == Reset(heap, p)
       IN  /\ heap' = IF p = q THEN heap ELSE Given(freed, p, Clone(freed, Node(q)))
           /\ fault' = (p # q /\ ~ Whole(freed, Node(q)))
    /\ UNCHANGED saved

\* [Bug: the pointers are exchanged.]
move_assign_Swap(p, q) ==
    /\ ~ IsStrictPrefix(q, p)
    /\ \A r \in Addresses(heap, Node(q)) : Len(p) + Len(r) <= MaxDepth
    /\ heap' = Pointing(Pointing(heap, q, Node(p)), p, Node(q))
    /\ UNCHANGED <<saved, fault>>

\* p = std::move(q), unique_ptr's: the right side gives up its pointer, then the
\* left side destroys what it had.
move_assign(p, q) ==
    /\ ~ IsStrictPrefix(q, p)
    /\ \A r \in Addresses(heap, Node(q)) : Len(p) + Len(r) <= MaxDepth
    /\ heap' = Pointing(Reset(Pointing(heap, q, Null), p), p, Node(q))
    /\ UNCHANGED <<saved, fault>>

\* MatLogger2::save, both overloads: the queue gets a copy, an argument that may
\* be moved from too.
save(p) ==
    /\ Len(saved) < MaxSaved
    /\ Whole(heap, Node(p))
    /\ Fits(heap, Cardinality(Owned(heap, Node(p))))
    /\ LET copy == Clone(heap, Node(p))
       IN  heap' = Extended(heap, copy.objects) /\ saved' = Append(saved, copy.ptr)
    /\ UNCHANGED fault

\* The flush moves the first element out, writes it and destroys it.
flush ==
    /\ saved # << >>
    /\ heap' = Restrict(heap, DOMAIN heap \ Owned(heap, Head(saved)))
    /\ saved' = Tail(saved)
    /\ UNCHANGED fault

Next ==
    /\ ~ fault
    /\ \/ \E p \in Places :
             \/ \E c \in Scalars : assign_new(p, c, 0) \/ set_value(p, c)
             \/ assign_new(p, "struct", 0)
             \/ \E size \in CellSizes : assign_new(p, "cell", size)
             \/ \E f \in Fields : operator_index(p, f)
             \/ \E q \in Places : copy_assign(p, q) \/ move_assign(p, q)
             \/ save(p)
       \/ flush

Spec == Init /\ [][Next]_vars

-----------------------------------------------------------------------------
(* Properties. *)

Labels == Scalars \cup {"struct", "cell"}

\* The type of the heap; scalars own nothing.
TypeOK ==
    /\ DOMAIN heap \subseteq 1 .. Scope /\ Scope \in DOMAIN heap
    /\ \A n \in DOMAIN heap \ {Scope} :
          /\ heap[n].label \in Labels
          /\ DOMAIN heap[n].child \subseteq Fields \cup Nat
          /\ heap[n].label \in Scalars => heap[n].child = << >>
    /\ saved \in Seq(1 .. MaxNodes) /\ fault \in BOOLEAN

\* However values are assigned, moved, saved and written, every object alive is
\* owned by exactly one unique_ptr, of an object alive or of the queue, and no
\* pointer is left dangling: nothing is shared, leaked or destroyed twice.
OneOwner ==
    LET slots == (UNION {{<<n, k>> : k \in DOMAIN heap[n].child} : n \in DOMAIN heap})
                     \cup {<<Null, i>> : i \in DOMAIN saved}
        pointer(s) == IF s[1] = Null THEN saved[s[2]] ELSE heap[s[1]].child[s[2]]
    IN  /\ \A m \in DOMAIN heap \ {Scope} : Cardinality({s \in slots : pointer(s) = m}) = 1
        /\ \A s \in slots : pointer(s) \in DOMAIN heap \cup {Null}
        /\ DOMAIN heap \subseteq UNION {Owned(heap, n) : n \in {Scope} \cup Range(saved)}

\* "Copy assignment (deep copy)": no assignment clones an object that has been
\* destroyed or lost its value.
ClonesLiveData == ~ fault

Label(n) == IF n \in DOMAIN heap THEN heap[n].label ELSE "moved"

Contents(n) == [r \in Addresses(heap, n) |-> Label(Follow(heap, n, r))]

Values == INSTANCE MatValues WITH
    value <- [a \in Places |-> Label(Node(a))],
    saved <- [i \in DOMAIN saved |-> Contents(saved[i])]

\* The heap implements values: each operation changes its left side to the value
\* the right side had, and nothing else, whatever was copied or moved before; and
\* what was saved is not changed by what the caller does next.
ImplementsValues == Values!Spec
=============================================================================
