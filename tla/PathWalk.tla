------------------------------ MODULE PathWalk ------------------------------
(***************************************************************************)
(* tools/common/path_walk.py: the files with a given extension below the   *)
(* paths a caller includes, without the sub-paths the caller excludes.     *)
(* traverse_path walks one path, traverse_path2 a list of paths,           *)
(* traverse_path3 a string of paths, traverse_path4 the paths a            *)
(* configuration file names with Include and Exclude lines.                *)
(*                                                                         *)
(* A path stands for its absolute, normalised form: the sequence of its    *)
(* names.  The file system is the function fs from the paths that exist to *)
(* "file", "dir" or "other" (a dangling link, a socket).  The order of     *)
(* os.listdir is left out: the result of traverse_path is a set, and a     *)
(* list is filled in the order in which TLC enumerates it.                 *)
(***************************************************************************)
EXTENDS Integers, Sequences, SequencesExt, FiniteSets, FiniteSetsExt

CONSTANTS
    FileSystems,  \* the trees the walk can find
    WithExt,      \* the names that end with the extension asked for
    NoExt,        \* the extension ''
    Ext,          \* any other extension
    Cwd,          \* the working directory, a path
    Elsewhere,    \* a path that names nothing
    Blank,        \* an empty line or a comment of the configuration file
    Configs,      \* the configuration files: sequences of Blank and
                  \* [key, fields, path, spelling]
    PathStrings,  \* the arguments of traverse_path3: sequences of paths and ''
    Excludes      \* the exclude lists a caller of traverse_path3 can pass

VARIABLES
    fs,            \* the file system
    ext,           \* the extension asked for
    pc,            \* parse, walk, done, IndexError, OSError
    conf,          \* the lines of the configuration file
    line,          \* the index of the line parse_config_file is at
    include_list,  \* of parse_config_file, or the argument of traverse_path2
    exclude_list,
    in_path,       \* the index in include_list the loop of traverse_path2 is at
    file_list      \* the result of traverse_path2

vars == <<fs, ext, pc, conf, line, include_list, exclude_list, in_path, file_list>>

\* os.path.isfile
isfile(path) == path \in DOMAIN fs /\ fs[path] = "file"

\* os.listdir, joined with the path: what the path holds
listdir(path) == {sub \in DOMAIN fs : Len(sub) = Len(path) + 1 /\ IsPrefix(path, sub)}

\* path.endswith(ext)
endswith(path, e) == e = NoExt \/ (path # <<>> /\ Last(path) \in WithExt)

\* os.path.abspath: '' is the working directory
abspath(path) == IF path = <<>> THEN Cwd ELSE path

\* normalize_path: a path spelled with '/' or with '\' is split into its
\* names; in one spelled with both, the names with a '\' stay as they are
normalize_path(l) == IF l.spelling = "mixed" THEN Elsewhere ELSE l.path

Raised == [raised |-> TRUE, files |-> {}]

\* (mutant) whatever has the extension is taken for a file
matches_any(sub, e) == endswith(sub, e)

\* the test of line 93
matches(sub, e) == isfile(sub) /\ endswith(sub, e)

\* (mutant) the exclude list is tested for the files only
excluded_files_only(subs, excluded) == {sub \in subs : ~isfile(sub) \/ sub \notin excluded}

\* the test of line 90
not_excluded(subs, excluded) == subs \ excluded

\* traverse_path, with the paths already absolute: the files, or the
\* OSError of os.listdir for what is no directory
RECURSIVE traverse_path(_, _, _)
traverse_path(e, path, excluded) ==
    IF isfile(path)
    THEN [raised |-> FALSE,
          files |-> IF endswith(path, e) /\ path \notin excluded THEN {path} ELSE {}]
    ELSE IF path \notin DOMAIN fs \/ fs[path] # "dir" THEN Raised
    ELSE LET subs == not_excluded(listdir(path), excluded)
             here == {sub \in subs : matches(sub, e)}
             below == {traverse_path(e, sub, excluded) : sub \in subs \ here}
         IN  IF \E walk \in below : walk.raised THEN Raised
             ELSE [raised |-> FALSE, files |-> here \cup UNION {walk.files : walk \in below}]

\* (mutant) every file of cur_list is appended
appended_all(list, cur_list) == list \o SetToSeq(cur_list)

\* the inner loop of traverse_path2: the files not yet in the list
appended(list, cur_list) == list \o SetToSeq(cur_list \ Range(list))

\* the test of line 51: an empty line or a comment
skips(l) == l = Blank

\* parse_config_file, a line that is skipped
parse_skip ==
    /\ pc = "parse" /\ line \in DOMAIN conf
    /\ skips(conf[line])
    /\ line' = line + 1
    /\ UNCHANGED <<fs, ext, pc, conf, include_list, exclude_list, in_path, file_list>>

\* parse_config_file, any other line.  'Skip error in config file' is
\* printed for a line that has not two fields, and for a first field that
\* is neither include nor exclude; the first does not end the turn, and
\* fields[1] of a line of one field is an IndexError.
parse_line ==
    /\ pc = "parse" /\ line \in DOMAIN conf
    /\ ~skips(conf[line])
    /\ LET l == conf[line] IN
       IF l.key # "other" /\ l.fields = 1
       THEN pc' = "IndexError" /\ UNCHANGED <<line, include_list, exclude_list>>
       ELSE /\ include_list' = IF l.key = "include"
                               THEN Append(include_list, normalize_path(l))
                               ELSE include_list
            /\ exclude_list' = IF l.key = "exclude"
                               THEN Append(exclude_list, normalize_path(l))
                               ELSE exclude_list
            /\ line' = line + 1
            /\ UNCHANGED pc
    /\ UNCHANGED <<fs, ext, conf, in_path, file_list>>

\* traverse_path4: the configuration file is read, traverse_path2 starts
parse_ends ==
    /\ pc = "parse" /\ line = Len(conf) + 1
    /\ pc' = "walk"
    /\ UNCHANGED <<fs, ext, conf, line, include_list, exclude_list, in_path, file_list>>

\* one turn of the loop of traverse_path2
traverse_path2 ==
    /\ pc = "walk" /\ in_path \in DOMAIN include_list
    /\ LET cur_list == traverse_path(ext, abspath(include_list[in_path]),
                                     {abspath(path) : path \in Range(exclude_list)})
       IN  IF cur_list.raised
           THEN pc' = "OSError" /\ UNCHANGED <<in_path, file_list>>
           ELSE /\ file_list' = appended(file_list, cur_list.files)
                /\ in_path' = in_path + 1
                /\ UNCHANGED pc
    /\ UNCHANGED <<fs, ext, conf, line, include_list, exclude_list>>

\* traverse_path2 returns
traverse_ends ==
    /\ pc = "walk" /\ in_path = Len(include_list) + 1
    /\ pc' = "done"
    /\ UNCHANGED <<fs, ext, conf, line, include_list, exclude_list, in_path, file_list>>

\* traverse_path4, up to the first line of the configuration file
traverse_path4 ==
    /\ pc = "parse"
    /\ conf \in Configs
    /\ include_list = <<>> /\ exclude_list = <<>>

\* traverse_path3, up to the loop of traverse_path2: split gives one path,
\* the empty one, for the empty string
traverse_path3 ==
    /\ pc = "walk"
    /\ conf = <<>>
    /\ include_list \in PathStrings
    /\ exclude_list \in Excludes

Init ==
    /\ fs \in FileSystems
    /\ ext \in {NoExt, Ext}
    /\ line = 1
    /\ in_path = 1
    /\ file_list = <<>>
    /\ traverse_path4 \/ traverse_path3

Next == parse_skip \/ parse_line \/ parse_ends \/ traverse_path2 \/ traverse_ends

Spec == Init /\ [][Next]_vars

-----------------------------------------------------------------------------
(* Properties                                                               *)

Excluded == {abspath(path) : path \in Range(exclude_list)}

\* what lies between top and the path, the path included and top left out
OnTheWay(top, path) ==
    {sub \in DOMAIN fs : sub # top /\ IsPrefix(top, sub) /\ IsPrefix(sub, path)}

\* the walk from top comes to the path: the path is at or below top, and
\* nothing on the way down to it is excluded
Visited(top, path) ==
    /\ path \in DOMAIN fs /\ IsPrefix(top, path)
    /\ OnTheWay(top, path) \cap Excluded = {}

\* the files the walk from top is to list
Wanted(top) ==
    {path \in DOMAIN fs : /\ isfile(path) /\ endswith(path, ext)
                          /\ Visited(top, path) /\ path \notin Excluded}

\* the walk from top cannot go on: top is not there, or it comes to
\* something that is neither a file nor a directory
Unlistable(top) ==
    \/ top \notin DOMAIN fs
    \/ \E path \in DOMAIN fs : fs[path] = "other" /\ Visited(top, path)

Tops(n) == {abspath(include_list[k]) : k \in 1..n}

\* a line that names the key and, against the rule of line 55, more than
\* one path: 'Skip error in config file' is printed and the line is used
UsedAlthoughReported(l) == l # Blank /\ l.key # "other" /\ l.fields > 2

ReadSoFar == SubSeq(conf, 1, line - 1)

\* the paths of the well-formed lines read so far that begin with the key
Paths(key) ==
    LET told == SelectSeq(ReadSoFar, LAMBDA l : l # Blank /\ l.key = key /\ l.fields = 2)
    IN  [k \in DOMAIN told |-> normalize_path(told[k])]

TypeOK ==
    /\ pc \in {"parse", "walk", "done", "IndexError", "OSError"}
    /\ line \in 1..(Len(conf) + 1)
    /\ in_path \in 1..(Len(include_list) + 1)
    /\ \A k \in DOMAIN file_list : isfile(file_list[k])
    /\ pc \in {"parse", "IndexError"} => in_path = 1 /\ file_list = <<>>

\* "Include <path> names a path to scan, Exclude <path> a sub-path to leave
\* out" and "returns the files below the path that have the extension ext"
\* (the docstrings of parse_config_file, traverse_path and traverse_path2):
\* as long as no line read was used although line 56 reported it as
\* skipped, the paths walked are those of the Include lines and the paths
\* left out those of the Exclude lines, in the order of the file; and
\* after every turn of traverse_path2 the list holds, once each, the files
\* with the extension at or below the included paths walked so far, but
\* those that are excluded or lie below an excluded sub-path: a file that
\* two included paths reach is listed once, and an included path is walked
\* although it is excluded.
ListsIncludedFilesOnce ==
    /\ (/\ conf # <<>> /\ pc # "IndexError"
        /\ \A k \in DOMAIN ReadSoFar : ~UsedAlthoughReported(conf[k])) =>
           include_list = Paths("include") /\ exclude_list = Paths("exclude")
    /\ pc \in {"walk", "done"} =>
        /\ Range(file_list) = UNION {Wanted(top) : top \in Tops(in_path - 1)}
        /\ Len(file_list) = Cardinality(Range(file_list))

\* 'Skip error in config file', without the exception: a line the message
\* was printed for adds no path.  parse_config_file has no continue after
\* line 56, and this fails for a line of three fields.
SkipsWhatItReports ==
    conf # <<>> /\ pc # "IndexError" =>
        include_list = Paths("include") /\ exclude_list = Paths("exclude")

\* The walk ends with an exception only for a reason.  os.listdir of line
\* 88 raises for an included path that is not there and for something the
\* walk comes to that is neither file nor directory; what is excluded, or
\* lies below an excluded path, is never listed and cannot make it raise;
\* and where there is such a thing in the way of the walk, it does not go
\* on to return a list without it.  parse_config_file raises for an Include
\* or Exclude line without a path, which line 56 reports as skipped.
RaisedForAReason ==
    /\ pc = "OSError" => Unlistable(abspath(include_list[in_path]))
    /\ pc = "IndexError" => conf[line].key # "other" /\ conf[line].fields = 1
    /\ pc \in {"walk", "done"} => \A top \in Tops(in_path - 1) : ~Unlistable(top)

=============================================================================
