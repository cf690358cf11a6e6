----------------------------- MODULE MCRecordIO -----------------------------
(***************************************************************************)
(* RecordIO for TLC: one byte value, records of at most one byte, blocks   *)
(* of two records.                                                         *)
(***************************************************************************)
EXTENDS RecordIO, TLC

CONSTANTS x

\* the empty str and a str of one byte
MCData == {<<>>, <<x>>}

\* size left out, 0 and 1: a prefix, the whole str, one byte past the empty str
MCSizes == {-1, 0, 1}

\* one str, its size left out
MCOneData == {<<x>>}

MCNoSize == {-1}

\* no option, RESUME_LAST_INCOMPLETE_BLOCK
MCOptions == {0, 2}

MCNoOption == {0}

\* [0, c) and [c, 6) for cuts at 0, on and inside blocks of 2 and 3 units,
\* and [-1, 3): a start that is left out beside an end that is given
MCRanges == {<<0, c>> : c \in {0, 2, 3}} \cup {<<c, 6>> : c \in {0, 2, 3}} \cup {<<-1, 3>>}

ReaderSymmetry == Permutations(Readers)

=============================================================================
