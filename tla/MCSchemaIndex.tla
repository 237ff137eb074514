--------------------------- MODULE MCSchemaIndex ---------------------------
(***************************************************************************)
(* Instances of SchemaIndex for TLC.  Two row ids, 1 and 2, and three      *)
(* names: besides those two the name 3, which no row has as its id.  The   *)
(* texts are two versions that declare 1, one that declares 3, and one     *)
(* that does not parse.                                                    *)
(***************************************************************************)
EXTENDS SchemaIndex, TLC

CONSTANTS a1, b1, a3, bad

MCKeys == 1..3
MCIds == 1..2

\* Texts and the names they declare.
NameTable == [s \in {a1, b1, a3, bad} |->
    CASE s \in {a1, b1} -> 1 [] s = a3 -> 3 [] OTHER -> None]
MCNameOf == [s \in Sources |-> NameTable[s]]

\* Row 1 is edited, renamed and broken; row 2 is created as a copy of row 1.
MCSaves == ({1} \X Sources) \cup ({2} \X (Sources \cap {a1, b1}))
OneIdSaves == {1} \X Sources

\* Slots are interchangeable, and so are processes, and the two texts that
\* declare 1.
Symmetry == Permutations(Tasks) \cup Permutations(Procs) \cup Permutations({a1, b1})
=============================================================================
