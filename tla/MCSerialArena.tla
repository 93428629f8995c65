--------------------------- MODULE MCSerialArena ---------------------------
(***************************************************************************)
(* SerialArena for TLC: the layout constants of a 64-bit build divided by  *)
(* four where they bound a list, so that a second and a third block, chunk *)
(* and string block come within a few calls.                               *)
(***************************************************************************)
EXTENDS SerialArena

MCResidues == {0, 8}
MCSurplus == {0, 4}

\* A user block that is absent, too small, good for a header only, or larger
MCUserSizes == {0, 16, 44, 64}

\* Arrays that fill their list, that fit in two lists, and that need a larger
\* array of lists
MCArraySizes == {16, 24, 64}
=============================================================================
