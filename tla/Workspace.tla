------------------------------ MODULE Workspace ------------------------------
(***************************************************************************)
(* The state that upload.py and submit.py share when they are run in one   *)
(* svn working copy: the per-workspace issue database that                 *)
(* common.save_issue_info / common.load_issue_info keep in                 *)
(* ~/.gdt_codereview_<inode>, the locally modified files svn reports, the  *)
(* code-review server.  Upload.tla and Submit.tla                          *)
(* add the two tools' steps; CodeReview.tla composes them.                 *)
(***************************************************************************)
EXTENDS Naturals, FiniteSets, FiniteSetsExt

CONSTANTS
    Issues,        \* code-review issue ids the server can hand out
    Files,         \* files of the working copy
    Paths,         \* directories a tool can be started in (relative to BLADE_ROOT)
    Under,         \* Under[p]: the files svn st reports when run in directory p
    Buildable,     \* source files some BUILD file lists
    DependsOn,     \* <<f, g>>: the target built from f depends on g's target
    UploadRuns,    \* slots for upload.py processes
    SubmitRuns,    \* slots for submit.py processes
    LegacyIssues,  \* issues recorded by the old upload.py, as a bare file set
    InitChanged,   \* the files modified when the behaviour starts
    MaxRunning,    \* bound: tool processes alive at the same time
    MaxEdits,      \* bound: edits the developer makes between invocations
    MaxKills,      \* bound: invocations that die between two of their steps
    NoIssue,       \* "no -i option"
    NoPath,        \* a legacy entry has no upload_path
    Truncated      \* the database file after open(.., 'wb'), before pickle.dump

ASSUME /\ Under \in [Paths -> SUBSET Files]
       /\ Buildable \subseteq Files
       /\ DependsOn \subseteq Buildable \X Files
       /\ LegacyIssues \subseteq Issues
       /\ InitChanged \subseteq Files
       /\ NoIssue \notin Issues
       /\ NoPath \notin Paths
       /\ {MaxRunning, MaxEdits, MaxKills} \subseteq Nat

VARIABLES
    issueFile,  \* content of ~/.gdt_codereview_<inode>, or Truncated
    changed,    \* files with local modifications (svn st -q)
    server,     \* per issue, what the code-review server holds
    up,         \* per upload.py invocation, its control point and locals
    sub,        \* per submit.py invocation, its control point and locals
    tracked,    \* history: issues an upload has recorded and no submit removed
    unsynced,   \* history: issues recorded by an upload whose tcr.py failed or
                \* that was overtaken by an edit, or uploaded again by one
                \* that was killed before it saved
    edits,      \* number of Edit steps so far
    kills       \* number of killed invocations so far

shared == <<issueFile, changed, server>>
bounds == <<edits, kills>>
history == <<tracked, unsynced>>
vars   == <<issueFile, changed, server, up, sub, tracked, unsynced, edits, kills>>

-----------------------------------------------------------------------------
(* The issue database: issue id -> what upload.py recorded for it.          *)

Entry == [legacy : BOOLEAN, filelist : SUBSET Files, upload_path : Paths \cup {NoPath}]

Dicts == UNION {[I -> Entry] : I \in SUBSET Issues}

EmptyDict == [i \in {} |-> NoPath]

\* dict.pop for every key of gone
Without(dict, gone) == [i \in DOMAIN dict \ gone |-> dict[i]]

\* dict[key] = entry, whether or not key was there
With(dict, key, entry) ==
    [i \in DOMAIN dict \cup {key} |-> IF i = key THEN entry ELSE dict[i]]

\* load_issue_info unpickles the file; a file cut short raises in pickle.load
Loadable == issueFile # Truncated

\* save_issue_info, first half: open(issue_info_file, 'wb') empties the file
SaveOpen == issueFile' = Truncated

\* save_issue_info, second half: pickle.dump writes the caller's whole dict
SaveDump(dict) == issueFile' = dict

\* what svn st -q lists for a tool started in directory cwd, narrowed to the
\* files named on the command line
DiffFiles(cwd, selected) == changed \cap Under[cwd] \cap selected

-----------------------------------------------------------------------------
(* Invocations: up and sub hold the processes that exist; a slot is idle     *)
(* until a tool is started in it and idle again when the process has ended. *)

Alive(run) == run.pc # "idle"

Running == {r \in UploadRuns : Alive(up[r])} \cup {r \in SubmitRuns : Alive(sub[r])}

MayStart == Cardinality(Running) < MaxRunning

Quiescent == Running = {}

-----------------------------------------------------------------------------
(* The environment: the developer, the reviewers and the review server.     *)

ServerEntry == [state : {"none", "open", "CLOSED", "SUBMITED"},
                approved : BOOLEAN, reviewed : SUBSET Files]

Finished == {"CLOSED", "SUBMITED"}

\* the runs that hold a list of files which is out of date
Edited(runs, Overtaken(_)) ==
    [r \in DOMAIN runs |-> IF Overtaken(runs[r])
                           THEN [runs[r] EXCEPT !.edited = TRUE] ELSE runs[r]]

\* The developer modifies or reverts a file, whether a tool is running or
\* not.  The tools read svn st more than once: the edit overtakes an
\* upload.py between tcr.py and _get_upload_diff_filelist, and a submit.py
\* between check_upload_submit_consistency and svn commit, when the file is
\* one the run lists.
Edit(f) ==
    /\ edits < MaxEdits
    /\ changed' = SymDiff(changed, {f})
    /\ edits' = edits + 1
    /\ up' = Edited(up, LAMBDA run :
                 run.pc = "record" /\ f \in Under[run.cwd] \cap run.selected)
    /\ sub' = Edited(sub, LAMBDA run :
                 run.pc \in {"dependency", "approve", "commit"} /\ f \in Under[run.cwd])
    /\ UNCHANGED <<issueFile, server, history, kills>>

\* A reviewer passes the request: usersPassRequest becomes non-empty.
Approve(i) ==
    /\ server[i].state = "open"
    /\ ~server[i].approved
    /\ server' = [server EXCEPT ![i].approved = TRUE]
    /\ UNCHANGED <<issueFile, changed, up, sub, history, edits, kills>>

\* The author closes the request on the server without submitting it.
Close(i) ==
    /\ server[i].state = "open"
    /\ server' = [server EXCEPT ![i].state = "CLOSED"]
    /\ UNCHANGED <<issueFile, changed, up, sub, history, edits, kills>>

EnvInit ==
    /\ issueFile = [i \in LegacyIssues |->
                      [legacy |-> TRUE, filelist |-> InitChanged, upload_path |-> NoPath]]
    /\ changed = InitChanged
    /\ server = [i \in Issues |->
                   IF i \in LegacyIssues
                   THEN [state |-> "open", approved |-> FALSE, reviewed |-> InitChanged]
                   ELSE [state |-> "none", approved |-> FALSE, reviewed |-> {}]]
    /\ tracked = LegacyIssues
    /\ unsynced = {}
    /\ edits = 0
    /\ kills = 0

EnvNext ==
    \/ \E f \in Files : Edit(f)
    \/ \E i \in Issues : Approve(i) \/ Close(i)

=============================================================================
