---------------------------- MODULE MatContainer ----------------------------
(***************************************************************************)
(* What becomes of a value (MatData) on its way into a version 7.3         *)
(* MAT-file and back: make_matvar builds matio's variable, Mat_VarWrite73  *)
(* stores it, Mat_VarRead73 reads it and make_matdata rebuilds the value.  *)
(*                                                                         *)
(* A value is a tree [kind, val, part].  The val of a matrix lists its     *)
(* elements; the val of a text lists its characters, each by the number of *)
(* bytes it takes in UTF-8, 0 being the NUL character.  part lists the     *)
(* fields of a struct, in the order of their names, or the elements of a   *)
(* cell array; the variants of MatScalarType (a double and a matrix) are   *)
(* both matrices in the file.                                              *)
(***************************************************************************)
EXTENDS Naturals, Sequences, FiniteSets, SequencesExt, Functions

CONSTANT Trees   \* the values that are saved and all their components

\* In a cell array matio stops at the first element it cannot encode and leaves
\* a data set no later call can make sense of: cells hold texts it can encode.
Encodable(t) == t.kind # "text" \/ 4 \notin Range(t.val)

ASSUME TreesAssumption ==
    /\ Trees \subseteq [kind : {"matrix", "text", "struct", "cell"}, val : Seq(Nat),
                        part : Seq([name : STRING, value : Trees])]
    /\ \A t \in Trees : \A i \in DOMAIN t.part :
          t.kind = "cell" => Encodable(t.part[i].value)

\* Values nest finitely deep when there is such a function.
Nested(height) ==
    \A t \in Trees : \A i \in DOMAIN t.part : height[t.part[i].value] < height[t]

Matrix(elements) == [kind |-> "matrix", val |-> elements, part |-> << >>]
Text(chars) == [kind |-> "text", val |-> chars, part |-> << >>]
Struct(fields) == [kind |-> "struct", val |-> << >>, part |-> fields]
CellArray(elements) ==
    [kind |-> "cell", val |-> << >>,
     part |-> [i \in DOMAIN elements |-> [name |-> "", value |-> elements[i]]]]

IsReferenceArray(t) == t.kind = "cell" /\ t.part # << >>

\* A cell array with elements is a data set of references to objects in the
\* group "#refs#", which Mat_VarWriteCell73 creates when it is missing.
WritesRefs[t \in Trees] ==
    \/ IsReferenceArray(t)
    \/ \E i \in DOMAIN t.part : WritesRefs[t.part[i].value]

\* Whether Mat_VarWrite73 reports success.  The loop over the fields of a struct
\* overwrites the error of every field but the last.
Accepted[t \in Trees] ==
    CASE t.kind = "struct" /\ t.part # << >> -> Accepted[Last(t.part).value]
      [] t.kind = "cell" -> \A i \in DOMAIN t.part : Accepted[t.part[i].value]
      [] OTHER -> Encodable(t)

\* A byte of a text is known by its character and its place there.
Bytes(chars) ==
    Cardinality({byte \in (DOMAIN chars) \X (1 .. 4) : byte[2] <= chars[byte[1]]})

Nuls(n) == [i \in 1 .. n |-> 0]

\* [Bug: one unit too many, as for a terminator.]
Units_Terminated(chars) == chars \o Nuls(1 + Bytes(chars) - Len(chars))

\* Mat_VarWriteChar73 gives the data set one UTF-16 unit per byte of the text,
\* fills one per character, and none when it meets a character of four bytes.
Units(chars) ==
    IF 4 \in Range(chars) THEN Nuls(Bytes(chars))
    ELSE chars \o Nuls(Bytes(chars) - Len(chars))

\* The value whose tree is in the file, as make_matdata reads it: every unit of
\* a text becomes a character.
Stored[t \in Trees] ==
    [kind |-> t.kind,
     val  |-> IF t.kind = "text" THEN Units(t.val) ELSE t.val,
     part |-> [i \in DOMAIN t.part |->
                  [t.part[i] EXCEPT !.value = Stored[t.part[i].value]]]]

\* read_container refuses a variable whose data pointer is null: nothing is read
\* for a matrix or text without elements and a struct without fields.
HasData(t) == IF t.kind \in {"matrix", "text"} THEN t.val # << >>
              ELSE t.kind = "cell" \/ t.part # << >>

\* Only characters of one byte, anywhere in the value.
PlainText[t \in Trees] ==
    /\ t.kind = "text" => Range(t.val) \subseteq {1}
    /\ \A i \in DOMAIN t.part : PlainText[t.part[i].value]
=============================================================================
