--------------------------- MODULE MCMatioBackend ---------------------------
(***************************************************************************)
(* Values and blocks for TLC: texts of each kind matio treats differently, *)
(* structs and cell arrays of them, empty ones, and blocks that differ in  *)
(* rank and in rows.                                                       *)
(***************************************************************************)
EXTENDS MatioBackend

Word == Text(<<1>>)
Latin == Text(<<1, 2>>)
Emoji == Text(<<4>>)
Field(name, t) == [name |-> name, value |-> t]

MCTrees ==
    {Word, Latin, Emoji, CellArray(<<Word>>), Struct(<< >>),
     Struct(<<Field("a", Emoji), Field("b", CellArray(<<Word>>))>>)}

\* These values nest at most two levels deep.
ASSUME FiniteValues == \E height \in [Trees -> 0 .. 2] : Nested(height)

Block(rows, slices) == [rows |-> rows, slices |-> slices]

MCBlocks == {Block(0, 1), Block(1, 1), Block(2, 1), Block(1, 2), Block(1, 0)}
=============================================================================
