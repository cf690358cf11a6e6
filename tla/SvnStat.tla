------------------------------ MODULE SvnStat -------------------------------
(***************************************************************************)
(* svn_stat.py: the statistics of the commits of a period.  For every      *)
(* commit of 'svn log -v' the script asks a directory service for the      *)
(* group of the author, finds the groups that own the changed paths in     *)
(* path_map, and counts the commit once for each of them in the row of the *)
(* author's group.  The rows are written to a CSV file at the end.         *)
(*                                                                         *)
(* A path is the sequence of its characters, over an alphabet of '/' and   *)
(* three letters; a group is its name.                                     *)
(***************************************************************************)
EXTENDS Integers, Sequences, SequencesExt, FiniteSets, FiniteSetsExt

CONSTANTS
    Users,      \* the authors of commits
    NoAuthor,   \* a log entry without an author element
    Logs,       \* what svn log can print: sequences of [author, paths]
    Bodies      \* what the directory can answer: [kind, group, ours]

ASSUME NoAuthor \notin Users

VARIABLES
    pc,                \* main, get_group, done, exit, raised
    log,               \* root: the entries of the log
    child,             \* the index of the entry the loop of line 185 is at
    i,                 \* the requests get_group has made in vain
    group_map,         \* the cache of get_group: user |-> group
    author_group_map,  \* group of authors |-> (group of paths |-> commits)
    csv                \* the file: whether it is written, and its rows

vars == <<pc, log, child, i, group_map, author_group_map, csv>>

\* The table of lines 20 to 151, with what its 131 rows show: a directory
\* and one below it that belongs to another group (proto and proto/db), two
\* directories the name of one of which starts with the name of the other
\* (adbill and adbill_new), a row that is there twice (dsposs), in the order
\* of the strings.
path_map == <<
    << <<"/", "a">>,           "common" >>,
    << <<"/", "a", "/", "b">>, "platform" >>,
    << <<"/", "a", "b">>,      "common" >>,
    << <<"/", "d">>,           "media" >>,
    << <<"/", "d">>,           "media" >> >>

\* xrange(10)
Tries == 10

\* (mutant) the first row that matches is taken
first_match(path) ==
    LET rows == {r \in DOMAIN path_map : IsPrefix(path_map[r][1], path)} IN
    IF rows = {} THEN [length |-> 0, match |-> ""]
    ELSE [length |-> Len(path_map[Min(rows)][1]), match |-> path_map[Min(rows)][2]]

\* the loop over path_map for one path: length and match after it
longest_match(path) ==
    FoldLeft(LAMBDA at, p : IF IsPrefix(p[1], path) /\ Len(p[1]) > at.length
                            THEN [length |-> Len(p[1]), match |-> p[2]]
                            ELSE at,
             [length |-> 0, match |-> ""], path_map)

\* the set found of one entry
found(paths) ==
    {longest_match(path).match : path \in {q \in paths : longest_match(q).length # 0}}

\* p_map[i] = p_map.get(i, 0) + 1 for i in found
counted(p_map, paths) ==
    [g \in DOMAIN p_map \cup found(paths) |->
        (IF g \in DOMAIN p_map THEN p_map[g] ELSE 0) + (IF g \in found(paths) THEN 1 ELSE 0)]

\* the body of the loop over the authors of an entry, after get_group
count(author) ==
    LET p_map == IF author \in DOMAIN author_group_map
                 THEN author_group_map[author] ELSE <<>>
    IN  /\ author_group_map' =
               [g \in DOMAIN author_group_map \cup {author} |->
                   IF g = author THEN counted(p_map, log[child].paths)
                   ELSE author_group_map[g]]
        /\ child' = child + 1

\* what get_group stores for a body that json.loads accepts
group_of(body) ==
    IF body.kind = "dict" /\ body.ours /\ body.group # "" THEN body.group ELSE "Unknown"

\* user_id in group_map
cached(user) == user \in DOMAIN group_map

\* an entry without an author element: the loop over its authors is empty
no_author ==
    /\ pc = "main" /\ child \in DOMAIN log
    /\ log[child].author = NoAuthor
    /\ child' = child + 1
    /\ UNCHANGED <<pc, log, i, group_map, author_group_map, csv>>

\* get_group answers from its cache, and the entry is counted
get_group_cached ==
    /\ pc = "main" /\ child \in DOMAIN log
    /\ log[child].author \in Users
    /\ cached(log[child].author)
    /\ count(group_map[log[child].author])
    /\ UNCHANGED <<pc, log, i, group_map, csv>>

\* get_group starts to ask the directory
get_group ==
    /\ pc = "main" /\ child \in DOMAIN log
    /\ log[child].author \in Users
    /\ ~cached(log[child].author)
    /\ pc' = "get_group" /\ i' = 0
    /\ UNCHANGED <<log, child, group_map, author_group_map, csv>>

\* (mutant) the loop starts over after the last try
tries_for_ever ==
    /\ pc = "get_group"
    /\ i' = (i + 1) % Tries
    /\ UNCHANGED <<pc, log, child, group_map, author_group_map, csv>>

\* (mutant) one request more than xrange(10) makes
tries_once_more ==
    /\ pc = "get_group"
    /\ i' = i + 1
    /\ pc' = IF i' > Tries THEN "raised" ELSE pc
    /\ UNCHANGED <<log, child, group_map, author_group_map, csv>>

\* urlopen or read raises: a second of sleep and the next try.  After the
\* last one the test of line 172 reads str, which was never assigned.
urlopen_fails ==
    /\ pc = "get_group"
    /\ i' = i + 1
    /\ pc' = IF i' = Tries THEN "raised" ELSE pc
    /\ UNCHANGED <<log, child, group_map, author_group_map, csv>>

\* the directory answers: the rest of get_group, and the entry is counted.
\* An answer that is no JSON, or has no entry for the user, raises.
urlopen_answers ==
    /\ pc = "get_group"
    /\ \E body \in Bodies :
        \/ /\ body.kind = "empty"
           /\ pc' = "exit"
           /\ UNCHANGED <<child, group_map, author_group_map>>
        \/ /\ body.kind = "garbage"
           /\ pc' = "raised"
           /\ UNCHANGED <<child, group_map, author_group_map>>
        \/ /\ body.kind \in {"null", "dict"}
           /\ group_map' = [u \in DOMAIN group_map \cup {log[child].author} |->
                               IF u = log[child].author THEN group_of(body) ELSE group_map[u]]
           /\ count(group_of(body))
           /\ pc' = "main"
    /\ UNCHANGED <<log, i, csv>>

\* the rows of author_group_map are written when the log is through
write_csv ==
    /\ pc = "main" /\ child = Len(log) + 1
    /\ csv' = [written |-> TRUE, rows |-> author_group_map]
    /\ pc' = "done"
    /\ UNCHANGED <<log, child, i, group_map, author_group_map>>

Init ==
    /\ pc = "main"
    /\ log \in Logs
    /\ child = 1
    /\ i = 0
    /\ group_map = <<>>
    /\ author_group_map = <<>>
    /\ csv = [written |-> FALSE, rows |-> <<>>]

Next ==
    \/ no_author \/ get_group_cached \/ get_group
    \/ urlopen_fails \/ urlopen_answers
    \/ write_csv

Spec == Init /\ [][Next]_vars

\* The script runs until it ends.
FairSpec == Spec /\ WF_vars(Next)

-----------------------------------------------------------------------------
(* Properties                                                               *)

PathGroups == {path_map[r][2] : r \in DOMAIN path_map}

\* the rows of path_map for directories that hold the path, or whose name
\* the name of one of its directories starts with
Holding(path) == {r \in DOMAIN path_map : IsPrefix(path_map[r][1], path)}

\* the group that owns a path: the one of the longest row that holds it
Owns(g, path) ==
    \E r \in Holding(path) :
        /\ path_map[r][2] = g
        /\ \A l \in Holding(path) : Len(path_map[l][1]) <= Len(path_map[r][1])

\* the entries of the log by an author of group a that change a path of g
Commits(a, g) ==
    {k \in DOMAIN log :
        /\ log[k].author \in DOMAIN group_map
        /\ group_map[log[k].author] = a
        /\ \E path \in log[k].paths : Owns(g, path)}

TypeOK ==
    /\ pc \in {"main", "get_group", "done", "exit", "raised"}
    /\ child \in 1..(Len(log) + 1)
    /\ i \in 0..Tries
    /\ DOMAIN group_map \subseteq Users
    /\ \A a \in DOMAIN author_group_map :
         /\ DOMAIN author_group_map[a] \subseteq PathGroups
         /\ \A g \in DOMAIN author_group_map[a] : author_group_map[a][g] \in 1..Len(log)
    /\ csv.written <=> pc = "done"

\* What the file is for: in the row of a group of authors, the column of a
\* group holds the number of commits of the period by authors of the first
\* that changed a path of the second, each commit counted once however many
\* of its paths the group owns, and under the group get_group gave for its
\* author the first time, whatever the directory answered later.  (The loops
\* of lines 185 to 212, with the cache of get_group.)
CsvCountsCommits ==
    pc = "done" =>
        /\ DOMAIN csv.rows = {group_map[u] : u \in DOMAIN group_map}
        /\ \A a \in DOMAIN csv.rows, g \in PathGroups :
             IF Commits(a, g) = {} THEN g \notin DOMAIN csv.rows[a]
             ELSE g \in DOMAIN csv.rows[a] /\ csv.rows[a][g] = Cardinality(Commits(a, g))

\* The script ends, whatever the directory does: with the file, with
\* 'Cannot get group info' for an empty answer, or with an exception -- an
\* answer that is no JSON for the user, or the read of the unassigned str
\* after the tenth failed request of get_group (lines 163 to 172).
RunEnds == <>(pc \in {"done", "exit", "raised"})

=============================================================================
