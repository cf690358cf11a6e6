----------------------------- MODULE MCSvnStat ------------------------------
(***************************************************************************)
(* SvnStat for TLC: logs of up to two commits by two users, each of up to  *)
(* two paths; a directory that answers with one of two groups, with no     *)
(* group, for another department, with nothing, or not at all.             *)
(***************************************************************************)
EXTENDS SvnStat

CONSTANTS u1, u2

MCUsers == {u1, u2}

\* The paths of a commit: none; one outside every directory of path_map; one
\* in a directory /ax that path_map does not have; one in /a/b; two of one
\* group, in /a and /ab; two of two groups, in /a and /d, and in /a/b and /a.
MCPaths == {
    {},
    {<<"/", "x">>},
    {<<"/", "a", "x">>},
    {<<"/", "a", "/", "b", "/", "x">>},
    {<<"/", "a", "/", "x">>, <<"/", "a", "b", "/", "x">>},
    {<<"/", "a", "/", "x">>, <<"/", "d", "/", "x">>},
    {<<"/", "a", "/", "b", "/", "x">>, <<"/", "a", "/", "x">>} }

MCEntries == [author : MCUsers \cup {NoAuthor}, paths : MCPaths]

MCLogs == BoundedSeq(MCEntries, 2)

MCBodies ==
    [kind : {"empty", "garbage", "null"}, group : {""}, ours : {TRUE}]
        \cup [kind : {"dict"}, group : {"", "common", "search"}, ours : BOOLEAN]

=============================================================================
