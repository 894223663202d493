------------------------------ MODULE MatValues -----------------------------
(***************************************************************************)
(* What mat_data.h promises of MatData: a variable of MATLAB's kinds with  *)
(* value semantics.  The variables of a program, and all components of     *)
(* their values, have addresses <<variable, key, key, ...>>; value maps    *)
(* the addresses that exist to what is there.  Assigning takes the value   *)
(* of the right side as it was before, and changes nothing but the left.   *)
(***************************************************************************)
EXTENDS Naturals, Sequences, SequencesExt, Functions, TLC

CONSTANTS
    Variables,   \* MatData objects of the program
    Fields,      \* names of fields
    Scalars,     \* values of scalars
    Zero,        \* the one a scalar has by default
    CellSizes    \* sizes given to make_cell

VARIABLES
    value,   \* the label at every address: "struct", "cell", "moved", a scalar
    saved    \* the values handed to MatLogger2::save, in order, not yet written

\* The addresses that a tree t has at p and below.
At(t, p) == {a \in DOMAIN t : IsPrefix(p, a)}

\* What t has at p, as a tree of its own: a function of the addresses relative to p.
ValueAt(t, p) ==
    [r \in {SubSeq(a, Len(p) + 1, Len(a)) : a \in At(t, p)} |-> t[p \o r]]

\* What t has elsewhere.
Elsewhere(t, p) == Restrict(t, DOMAIN t \ At(t, p))

\* t after the value at q was moved away.
Emptied(t, q) ==
    [a \in DOMAIN Elsewhere(t, q) \cup {q} |-> IF a = q THEN "moved" ELSE t[a]]

Leaf(label) == [r \in {<< >>} |-> label]

DefaultCell(size) ==
    [r \in {<< >>} \cup {<<i>> : i \in 1 .. size} |-> IF r = << >> THEN "cell" ELSE Zero]

\* A scalar, an empty struct, a cell array of defaults.
NewValues ==
    {Leaf(label) : label \in Scalars \cup {"struct"}}
        \cup {DefaultCell(size) : size \in CellSizes}

-----------------------------------------------------------------------------

Init ==
    /\ value = [a \in {<<v>> : v \in Variables} |-> Zero]
    /\ saved = << >>

\* From the tree t to the tree u: p = a new value, or p = q.
Assigned(t, u) ==
    \E p \in DOMAIN t :
        /\ p \in DOMAIN u
        /\ Elsewhere(u, p) = Elsewhere(t, p)
        /\ ValueAt(u, p) \in NewValues \cup {ValueAt(t, q) : q \in DOMAIN t}

\* p = std::move(q): q, unless it was part of what p held, has no value any more.
Moved(t, u) ==
    \E p \in DOMAIN t, q \in DOMAIN t :
        LET left == IF IsPrefix(p, q) THEN t ELSE Emptied(t, q)
        IN  /\ p \in DOMAIN left /\ p \in DOMAIN u
            /\ Elsewhere(u, p) = Elsewhere(left, p)
            /\ ValueAt(u, p) = ValueAt(t, q)

\* A field comes into being when it is first named.
FieldAdded(t, u) ==
    \E p \in DOMAIN t, f \in Fields :
        /\ t[p] = "struct" /\ Append(p, f) \notin DOMAIN t
        /\ u = t @@ (Append(p, f) :> Zero)

Assign ==
    /\ UNCHANGED saved
    /\ \E t \in {value}, u \in {value'} :
          Assigned(t, u) \/ FieldAdded(t, u) \/ Moved(t, u)

Save ==
    /\ UNCHANGED value
    /\ \E p \in DOMAIN value : saved' = Append(saved, ValueAt(value, p))

Written ==
    /\ saved # << >>
    /\ saved' = Tail(saved)
    /\ UNCHANGED value

Next == Assign \/ Save \/ Written

Spec == Init /\ [][Next]_<<value, saved>>
=============================================================================
