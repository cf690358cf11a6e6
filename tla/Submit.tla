------------------------------- MODULE Submit -------------------------------
(***************************************************************************)
(* submit.py: one invocation of main(), IssueCommitter.check() and         *)
(* commit_to_svn().  The checks run in the order of check(); the issue     *)
(* database is loaded in check_upload_submit_consistency and written back  *)
(* only after a successful svn commit.                                     *)
(***************************************************************************)
EXTENDS Workspace

SubmitRun == [pc : {"idle", "check", "consistency", "dependency", "approve",
                    "commit", "save_open", "save_dump"},
              issue : Issues \cup {NoIssue},
              cwd : Paths \cup {NoPath},
              approved : BOOLEAN,     \* usersPassRequest as fetched at start
              dict : Dicts,
              popped : SUBSET Issues, \* issues_to_pop
              warned : SUBSET Issues, \* dependency warnings the developer accepted
              degraded : BOOLEAN,     \* the dependency check could not see everything
              accepted : BOOLEAN,     \* history: 'y' to the files that differ
              edited : BOOLEAN]       \* history: an edit has overtaken the run

IdleSubmit == [pc |-> "idle", issue |-> NoIssue, cwd |-> NoPath, approved |-> FALSE,
               dict |-> EmptyDict, popped |-> {}, warned |-> {},
               degraded |-> FALSE, accepted |-> FALSE, edited |-> FALSE]

SubmitEnds(r) == sub' = [sub EXCEPT ![r] = IdleSubmit]

SubmitGoes(r, pc) == sub' = [sub EXCEPT ![r].pc = pc]

-----------------------------------------------------------------------------
\* main and IssueCommitter.__init__: without -i, or when the server does not
\* answer 'successfully' for the issue, the run ends; otherwise the issue's
\* details, its approvals among them, are fetched once and kept.
SubmitStart(r) ==
    /\ sub[r].pc = "idle"
    /\ MayStart
    /\ \/ \E i \in Issues, p \in Paths :
            /\ server[i].state # "none"
            /\ sub' = [sub EXCEPT ![r] = [IdleSubmit EXCEPT
                         !.pc = "check", !.issue = i, !.cwd = p,
                         !.approved = server[i].approved]]
       \/ SubmitEnds(r)
    /\ UNCHANGED <<shared, up, history, bounds>>

\* what ends check() before the database is read: 'N' to the unadded-files
\* prompt, a failing svn up, presubmit script, build or test run (blade, mvn
\* or buck), a failing svn st, a forbidden function
PreSubmitStops == {"svn_missing", "svn_up", "presubmit", "build_and_runtests",
                   "svn_st", "secure_scan"}

\* check() up to secure_scan.check: the checks in order, the first that stops
\* ends the run.
PreSubmit(r) ==
    /\ sub[r].pc = "check"
    /\ \/ \E stop \in PreSubmitStops : SubmitEnds(r)
       \/ SubmitGoes(r, "consistency")
    /\ UNCHANGED <<shared, up, history, bounds>>

\* (mutant) the answer 'y' leaves the recorded file list in place
AcceptedKeepsList(dict, issue, files) == dict

\* On 'y' the loaded entry takes the current file list:
Accepted(dict, issue, files) == [dict EXCEPT ![issue].filelist = files]

\* (mutant) the files missing from the recorded ones, not those added to them
difference_missing(file_list, entry) == entry.filelist \ file_list

\* file_list.symmetric_difference, of a bare set or of the filelist of an entry
difference_files(file_list, entry) == SymDiff(file_list, entry.filelist)

\* check_upload_submit_consistency: load the database; an issue it lacks is
\* only warned about; a new-format entry must have been uploaded from this
\* directory; files that differ from the recorded ones are asked about.  A
\* database that does not load and a failing svn st end the run.
CheckUploadSubmitConsistency(r) ==
    LET run == sub[r]  files == DiffFiles(run.cwd, Files)  dict == issueFile IN
    /\ run.pc = "consistency"
    /\ \/ ~Loadable /\ SubmitEnds(r)
       \/ /\ Loadable
          /\ run.issue \notin DOMAIN dict
          /\ sub' = [sub EXCEPT ![r].pc = "dependency", ![r].dict = dict]
       \/ /\ Loadable
          /\ run.issue \in DOMAIN dict
          /\ \/ SubmitEnds(r)                                 \* svn st fails
             \/ /\ ~dict[run.issue].legacy
                /\ dict[run.issue].upload_path # run.cwd
                /\ SubmitEnds(r)
             \/ /\ dict[run.issue].legacy \/ dict[run.issue].upload_path = run.cwd
                /\ \/ /\ difference_files(files, dict[run.issue]) = {}
                      /\ sub' = [sub EXCEPT ![r].pc = "dependency", ![r].dict = dict]
                   \/ /\ difference_files(files, dict[run.issue]) # {}
                      /\ \/ SubmitEnds(r)                      \* answer # 'y'
                         \/ sub' = [sub EXCEPT ![r].pc = "dependency", ![r].accepted = TRUE,
                                      ![r].dict = Accepted(dict, run.issue, files)]
    /\ UNCHANGED <<shared, up, history, bounds>>

-----------------------------------------------------------------------------
\* the .c/.cc/.cpp files of the issue being submitted that a BUILD file lists
Mine(run) ==
    IF run.issue \in DOMAIN run.dict
    THEN run.dict[run.issue].filelist \cap Buildable
    ELSE {}

Others(run) == DOMAIN run.dict \ {run.issue}

\* _has_dependency_relation: a target of a BUILD file that lists one of the
\* other issue's files is among blade's --deps of the submitted issue
Depends(files, on) == \E f \in files, g \in on : <<f, g>> \in DependsOn

\* the early returns of check_dependency_between_issues
NothingToCompare(run) ==
    \/ run.issue \notin DOMAIN run.dict
    \/ Cardinality(DOMAIN run.dict) < 2
    \/ Mine(run) = {}

\* the loop over the other issues of the loaded database: one whose details
\* the server does not return is skipped, a closed or submitted one is popped,
\* one the submitted issue depends on is asked about
Unanswered(run) == {j \in Others(run) : server[j].state = "none"}

Popped(run, seen) == {j \in seen : server[j].state \in Finished}

Suspects(run, seen) ==
    {j \in seen \ Popped(run, seen) : Depends(Mine(run), run.dict[j].filelist)}

CheckDependencyBetweenIssues(r) ==
    LET run == sub[r] IN
    /\ run.pc = "dependency"
    /\ \/ /\ NothingToCompare(run)
          /\ SubmitGoes(r, "approve")
       \/ /\ ~NothingToCompare(run)                                    \* blade query failed
          /\ sub' = [sub EXCEPT ![r].pc = "approve", ![r].degraded = TRUE]
       \/ /\ ~NothingToCompare(run)
          /\ \E unreachable \in SUBSET Others(run) :
               LET seen == Others(run) \ unreachable IN
               /\ Unanswered(run) \subseteq unreachable
               /\ \/ /\ Suspects(run, seen) # {}                       \* an answer # 'y'
                     /\ SubmitEnds(r)
                  \/ sub' = [sub EXCEPT ![r].pc = "approve",
                                        ![r].dict = Without(@, Popped(run, seen)),
                                        ![r].popped = Popped(run, seen),
                                        ![r].warned = Suspects(run, seen),
                                        ![r].degraded = unreachable # {}]
    /\ UNCHANGED <<shared, up, history, bounds>>

\* check_approve, last of check(), on the details fetched at start; then
\* main's --dry-run branch.
CheckApprove(r) ==
    /\ sub[r].pc = "approve"
    /\ \/ ~sub[r].approved /\ SubmitEnds(r)
       \/ sub[r].approved /\ SubmitEnds(r)                 \* --dry-run
       \/ sub[r].approved /\ SubmitGoes(r, "commit")
    /\ UNCHANGED <<shared, up, history, bounds>>

\* commit_to_svn: svn commit of everything modified under the current
\* directory, with --crid in the log message (the repository's hook marks the
\* request submitted); then the issue leaves the loaded dict, which is saved.
Committed(r) ==
    LET files == DiffFiles(sub[r].cwd, Files) IN
    /\ changed' = changed \ files
    /\ server' = IF files = {} THEN server
                 ELSE [server EXCEPT ![sub[r].issue].state = "SUBMITED"]

CommitToSvn(r) ==
    /\ sub[r].pc = "commit"
    /\ \/ /\ SubmitEnds(r)                                     \* "Not committed"
          /\ UNCHANGED <<changed, server>>
       \/ /\ Committed(r)
          /\ \/ /\ sub[r].issue \in DOMAIN sub[r].dict
                /\ sub' = [sub EXCEPT ![r].pc = "save_open",
                                      ![r].dict = Without(@, {sub[r].issue})]
             \/ /\ sub[r].issue \notin DOMAIN sub[r].dict
                /\ SubmitEnds(r)
    /\ UNCHANGED <<issueFile, up, history, bounds>>

\* save_issue_info: the file is emptied, then the run's dict is written.
SubmitSaveOpen(r) ==
    /\ sub[r].pc = "save_open"
    /\ SaveOpen
    /\ SubmitGoes(r, "save_dump")
    /\ UNCHANGED <<changed, server, up, history, bounds>>

SubmitSaveDump(r) ==
    /\ sub[r].pc = "save_dump"
    /\ SaveDump(sub[r].dict)
    /\ tracked' = tracked \ ({sub[r].issue} \cup sub[r].popped)
    /\ UNCHANGED unsynced
    /\ SubmitEnds(r)
    /\ UNCHANGED <<changed, server, up, bounds>>

\* The process is killed after svn commit and before the database is written;
\* earlier, a kill leaves what an error exit leaves.
SubmitKilled(r) ==
    /\ sub[r].pc \in {"save_open", "save_dump"}
    /\ kills < MaxKills
    /\ kills' = kills + 1
    /\ SubmitEnds(r)
    /\ UNCHANGED <<shared, up, history, edits>>

SubmitNext(r) ==
    \/ SubmitStart(r)
    \/ PreSubmit(r)
    \/ CheckUploadSubmitConsistency(r)
    \/ CheckDependencyBetweenIssues(r)
    \/ CheckApprove(r)
    \/ CommitToSvn(r)
    \/ SubmitSaveOpen(r)
    \/ SubmitSaveDump(r)
    \/ SubmitKilled(r)

=============================================================================
