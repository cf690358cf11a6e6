----------------------------- MODULE MCToolsCommon ----------------------------
(***************************************************************************)
(* ToolsCommon for TLC.  The trees over six paths, r with a, f and b in it *)
(* and f and g in a; f has the extension.  r is a directory, a file or not *)
(* there; a is a directory, a file or a dangling link; b a directory or a  *)
(* dangling link; f and g are files.  The working directory is r/a.        *)
(*                                                                         *)
(* The character tables: without a fault, with an empty line, missing,     *)
(* with a traditional character of two simplified forms, and with a table  *)
(* of GB2312 that differs from the full one.  Words of up to two           *)
(* characters, and the dictionaries over four words of frequency 1, 2, 2   *)
(* and 5.                                                                  *)
(***************************************************************************)
EXTENDS ToolsCommon

r == <<"r">>
a == <<"r", "a">>
b == <<"r", "b">>

Kinds == (r :> {"dir", "file"}) @@ (a :> {"dir", "file", "other"})
         @@ (b :> {"dir", "other"})
         @@ (<<"r", "f">> :> {"file"})
         @@ (<<"r", "a", "f">> :> {"file"}) @@ (<<"r", "a", "g">> :> {"file"})

\* whatever is there lies in a directory that is there
MCFileSystems ==
    {tree \in UNION {[nodes -> {"dir", "file", "other"}] : nodes \in SUBSET DOMAIN Kinds} :
        \A node \in DOMAIN tree :
            /\ tree[node] \in Kinds[node]
            /\ node # r => Front(node) \in DOMAIN tree /\ tree[Front(node)] = "dir"}

MCWithExt == {"f"}
MCCwd == a
MCElsewhere == <<"r", "a\\f">>

Line(key, fields, path, spelling) ==
    [key |-> key, fields |-> fields, path |-> path, spelling |-> spelling]

MCLines == {Blank,
            Line("include", 2, r, "slash"),
            Line("include", 2, a, "backslash"),
            Line("include", 2, <<"r", "a", "f">>, "mixed"),
            Line("include", 1, <<>>, "slash"),
            Line("exclude", 2, a, "slash"),
            Line("exclude", 3, b, "slash"),
            Line("other", 2, r, "slash")}

\* MaxLines lines of these
MaxLines == 3
MCConfigs == BoundedSeq(MCLines, MaxLines)

\* '', 'r:r/a', 'r/a:r', 'r/b', 'r/f:r'
MCPathStrings == {<< <<>> >>, <<r, a>>, <<a, r>>, <<b>>, << <<"r", "f">>, r >>}

MCExcludes == {<<>>, <<a>>, <<r>>, << <<"r", "f">>, b >>, << <<>> >>}

\* Tables: s1 with the traditional t1, which GB2312 has, and s2 with t2 and
\* t3; t1 as the traditional form of s1 and of s2, and as the simplified
\* form of t2; a table with an empty line; a table of GB2312 with a
\* character the full table has not; a table that is not there.
Pairs(full, gb) == [full |-> full, gb |-> gb]

Clean == Pairs(<<Comment, <<"s1", "t1">>, <<"s2", "t2", "t3">> >>, << <<"s1", "t1">> >>)

EmptyLine == Pairs(<< <<"s1", "t1">>, <<>> >>, <<>>)

Missing == Pairs(<< <<"s1", "t1">> >>, NoTable)

MCWalkTables == {Clean, EmptyLine, Missing}

MCCognateTables ==
    {Clean, EmptyLine, Missing,
     Pairs(<< <<"s1", "t1">>, <<"s2", "t1">>, <<"t1", "t2">> >>, <<>>),
     Pairs(<< <<"s1", "t1">> >>, << <<"s2", "t2">>, <<"s3">> >>)}

\* the words of up to two of these characters
MCWords == BoundedSeq({"s1", "t1", "t2", "x"}, 2)

\* dictionaries of up to four words, two of them of one frequency
MCCounters ==
    {<<>>} \cup {Restrict([w1 |-> 1, w2 |-> 2, w3 |-> 2, w4 |-> 5], words) :
                    words \in SUBSET {"w1", "w2", "w3", "w4"}}

\* 0, 1/3, 1/2, 1 and 3/2
MCPortions == {[num |-> 0, den |-> 1], [num |-> 1, den |-> 3], [num |-> 1, den |-> 2],
               [num |-> 1, den |-> 1], [num |-> 3, den |-> 2]}

=============================================================================
