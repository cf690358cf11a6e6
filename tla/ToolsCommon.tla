---------------------------- MODULE ToolsCommon ----------------------------
(***************************************************************************)
(* The modules of tools/common together.  path_walk.py imports util, and   *)
(* util reads the tables of characters when it is imported: a walk starts  *)
(* only when they are read.  A process is a caller of path_walk.py or a    *)
(* script of the dictionary, which shrinks a dictionary and makes no walk. *)
(***************************************************************************)
EXTENDS PathWalk, Util

CONSTANT WalkTables   \* bound: the tables a caller of path_walk.py is checked with

VARIABLE script   \* path_walk, dictionary

lib_vars == <<vars, ut_vars, script>>

\* no walk is asked for
NoWalk ==
    /\ fs = CHOOSE tree \in FileSystems : DOMAIN tree = {}
    /\ ext = NoExt
    /\ pc = "done"
    /\ conf = <<>> /\ line = 1
    /\ include_list = <<>> /\ exclude_list = <<>>
    /\ in_path = 1 /\ file_list = <<>>

LibInit ==
    /\ UtInit
    /\ \/ script = "path_walk" /\ tables \in WalkTables /\ counter = <<>> /\ Init
       \/ script = "dictionary" /\ NoWalk

\* line 17 of path_walk.py, and the import of util by a script
Import == import_util /\ UNCHANGED <<vars, script>>

\* a step of path_walk.py, once it is imported
Walk(step) == script = "path_walk" /\ ut_pc = "ready" /\ step /\ UNCHANGED <<ut_vars, script>>

Shrink ==
    /\ script = "dictionary"
    /\ \E portion \in Portions, delta \in Deltas : shrink_counter(portion, delta)
    /\ UNCHANGED <<vars, script>>

Convert ==
    /\ script = "dictionary"
    /\ \E word \in Words, conv_gbcht \in BOOLEAN : convert(word, conv_gbcht)
    /\ UNCHANGED <<vars, script>>

LibNext ==
    \/ Import
    \/ Walk(parse_skip) \/ Walk(parse_line) \/ Walk(parse_ends)
    \/ Walk(traverse_path2) \/ Walk(traverse_ends)
    \/ Shrink \/ Convert

LibSpec == LibInit /\ [][LibNext]_lib_vars

LibTypeOK == TypeOK /\ UtTypeOK /\ script \in {"path_walk", "dictionary"}

=============================================================================
