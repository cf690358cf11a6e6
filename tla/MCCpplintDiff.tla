---------------------------- MODULE MCCpplintDiff ----------------------------
(***************************************************************************)
(* CpplintDiff for TLC: two C++ files and a file of another kind, diffs of *)
(* one file with up to five lines of hunks and of two files with up to two *)
(* lines each, up to two errors a file on the lines 1 to 5.                *)
(***************************************************************************)
EXTENDS CpplintDiff

CONSTANTS f1, f2, doc

MCCcFiles == {f1, f2}

MCListings == {<<doc>>, <<f1>>, <<doc, f1>>, <<f1, f2>>}

\* the working directory /a/b, with BLADE_ROOT in any of /, /a, /a/b, /c
MCTrees == {[cwd |-> <<"a", "b">>, holders |-> h] :
               h \in SUBSET {<<>>, <<"a">>, <<"a", "b">>, <<"c">>}}

\* added, removed and context lines, and hunks that start at line 1 or 4
Kinds == {Line("+", 0), Line("-", 0), Line(" ", 0), Line("@@", 1), Line("@@", 4)}

BodiesUpTo(n) == {body \in BoundedSeq(Kinds, n) : IsDiffBody(body)}

\* no diff at all, one file with hunks of up to five lines, two files
MCDiffs ==
    {<<>>}
        \cup {<<[f |-> f1, body |-> body]>> : body \in BodiesUpTo(5)}
        \cup {<<[f |-> f2, body |-> body]>> : body \in BodiesUpTo(2)}
        \cup {<<[f |-> f1, body |-> b1], [f |-> f2, body |-> b2]>> :
                 b1 \in BodiesUpTo(2), b2 \in BodiesUpTo(2)}

\* up to two errors a file, in any order
MCErrLines == BoundedSeq(1..5, 2)

=============================================================================
