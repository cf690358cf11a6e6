------------------------------- MODULE Upload -------------------------------
(***************************************************************************)
(* upload.py: one invocation of CodeUploader, from __init__ through        *)
(* pre_upload() and upload().  Every step that reads or writes something   *)
(* another invocation can see (the issue database file, svn status, the    *)
(* review server) is an action of its own, so that other invocations and   *)
(* a kill can fall between two steps.                                      *)
(***************************************************************************)
EXTENDS Workspace

CONSTANT FileOptions   \* values of the --files option; Files when it is absent

ASSUME FileOptions \subseteq SUBSET Files

UploadRun == [pc : {"idle", "pre_upload", "path_change", "tcr", "record",
                    "save_open", "save_dump", "comments"},
              issue : Issues \cup {NoIssue},
              cwd : Paths \cup {NoPath},
              selected : SUBSET Files,
              sent : BOOLEAN,      \* tcr.py has uploaded the change
              edited : BOOLEAN,    \* history: an edit has overtaken the run
              dict : Dicts]

IdleUpload == [pc |-> "idle", issue |-> NoIssue, cwd |-> NoPath,
               selected |-> {}, sent |-> FALSE, edited |-> FALSE, dict |-> EmptyDict]

\* the process exits, is killed or dies of an exception: its slot is free again
UploadEnds(r) == up' = [up EXCEPT ![r] = IdleUpload]

UploadGoes(r, pc) == up' = [up EXCEPT ![r].pc = pc]

-----------------------------------------------------------------------------
\* CodeUploader.__init__: parse the options, load the whole issue database.
UploadStart(r) ==
    /\ up[r].pc = "idle"
    /\ MayStart
    /\ \/ /\ Loadable
          /\ \E i \in Issues \cup {NoIssue}, p \in Paths, sel \in FileOptions :
               up' = [up EXCEPT ![r] = [IdleUpload EXCEPT
                         !.pc = "pre_upload", !.issue = i, !.cwd = p,
                         !.selected = sel, !.dict = issueFile]]
       \/ /\ ~Loadable
          /\ UploadEnds(r)
    /\ UNCHANGED <<shared, sub, history, bounds>>

\* what ends pre_upload before the upload: a failing svn st or svn up, a
\* forbidden function, 'N' to the missing-tests or the cpplint prompt,
\* cppcheck errors
PreUploadStops == {"svn_st", "svn_up", "secure_scan", "missing_tests", "cpplint", "cppcheck"}

\* pre_upload up to _cppcheck: the checks in order, the first that stops ends
\* the run.
PreUpload(r) ==
    /\ up[r].pc = "pre_upload"
    /\ \/ \E stop \in PreUploadStops : UploadEnds(r)
       \/ UploadGoes(r, "path_change")
    /\ UNCHANGED <<shared, sub, history, bounds>>

\* (mutant) the isinstance(.., dict) test is dropped
PathChangedAnyFormat(run) ==
    /\ run.issue \in DOMAIN run.dict
    /\ run.dict[run.issue].upload_path # run.cwd

\* _check_upload_path_change asks only for an issue given with -i that the
\* database holds in the new format with another upload_path.
PathChanged(run) ==
    /\ run.issue \in DOMAIN run.dict
    /\ ~run.dict[run.issue].legacy
    /\ run.dict[run.issue].upload_path # run.cwd

CheckUploadPathChange(r) ==
    /\ up[r].pc = "path_change"
    /\ \/ /\ ~PathChanged(up[r])
          /\ UploadGoes(r, "tcr")
       \/ /\ PathChanged(up[r])
          /\ \/ UploadEnds(r)                                  \* answer # 'y'
             \/ up' = [up EXCEPT ![r].pc = "tcr",
                                 ![r].dict[up[r].issue].upload_path = up[r].cwd]
    /\ UNCHANGED <<shared, sub, history, bounds>>

\* What tcr.py does on the server when it succeeds: a new request, or a new
\* patch set of an open one, holding the files svn reports at that moment.
TcrCreates(r, n) ==
    /\ up[r].issue = NoIssue
    /\ server[n].state = "none"
    /\ server' = [server EXCEPT ![n] =
                    [state |-> "open", approved |-> FALSE,
                     reviewed |-> DiffFiles(up[r].cwd, up[r].selected)]]

TcrUpdates(r) ==
    /\ up[r].issue # NoIssue
    /\ server[up[r].issue].state = "open"
    /\ server' = [server EXCEPT ![up[r].issue].reviewed =
                                   DiffFiles(up[r].cwd, up[r].selected)]

\* _get_issue_id, for a tcr.py that printed no "id:<n> ... success" line: the
\* -i option is the issue id when there is one
HasIssueId(run) == run.issue # NoIssue

\* upload() up to _get_issue_id: tcr.py runs under script(1) and its exit
\* status is dropped; without an issue id the run ends, also when tcr.py
\* made the request and the typescript holds no line "id:<n> ... success".
RunTcr(r) ==
    /\ up[r].pc = "tcr"
    /\ \/ /\ DiffFiles(up[r].cwd, up[r].selected) # {}
          /\ \/ \E n \in Issues :
                  /\ TcrCreates(r, n)
                  /\ \/ up' = [up EXCEPT ![r].pc = "record", ![r].issue = n, ![r].sent = TRUE]
                     \/ UploadEnds(r)
             \/ TcrUpdates(r) /\ up' = [up EXCEPT ![r].pc = "record", ![r].sent = TRUE]
       \/ /\ UNCHANGED server                                          \* tcr.py failed
          /\ \/ HasIssueId(up[r]) /\ UploadGoes(r, "record")
             \/ ~HasIssueId(up[r]) /\ UploadEnds(r)
    /\ UNCHANGED <<issueFile, changed, sub, history, bounds>>

\* (mutant) the entry is put into a fresh dict instead of the loaded one
RecordedAlone(dict, issue, cwd, files) ==
    With(EmptyDict, issue, [legacy |-> FALSE, filelist |-> files, upload_path |-> cwd])

\* (mutant) the file list of an issue the database holds is left as it was
RecordedOnce(dict, issue, cwd, files) ==
    IF issue \in DOMAIN dict
    THEN dict
    ELSE With(dict, issue, [legacy |-> FALSE, filelist |-> files, upload_path |-> cwd])

\* _get_upload_diff_filelist: svn st again, then the entry of the issue in
\* the dict loaded at start: a new entry, the filelist of a new-format entry,
\* or a bare set in place of a legacy one.
Recorded(dict, issue, cwd, files) ==
    IF issue \in DOMAIN dict
    THEN [dict EXCEPT ![issue].filelist = files]
    ELSE With(dict, issue, [legacy |-> FALSE, filelist |-> files, upload_path |-> cwd])

\* what an upload that ends after tcr.py and before the save leaves behind
Unsaved(r) == IF up[r].sent THEN unsynced \cup {up[r].issue} ELSE unsynced

\* A failing svn st ends the run with 'Diff files not found'.
RecordFilelist(r) ==
    /\ up[r].pc = "record"
    /\ \/ /\ up' = [up EXCEPT ![r].pc = "save_open",
                               ![r].dict = Recorded(@, up[r].issue, up[r].cwd,
                                                    DiffFiles(up[r].cwd, up[r].selected))]
          /\ UNCHANGED unsynced
       \/ UploadEnds(r) /\ unsynced' = Unsaved(r)
    /\ UNCHANGED <<shared, sub, tracked, bounds>>

\* save_issue_info: the file is emptied, then the run's dict is written.
UploadSaveOpen(r) ==
    /\ up[r].pc = "save_open"
    /\ SaveOpen
    /\ UploadGoes(r, "save_dump")
    /\ UNCHANGED <<changed, server, sub, history, bounds>>

UploadSaveDump(r) ==
    /\ up[r].pc = "save_dump"
    /\ SaveDump(up[r].dict)
    /\ tracked' = tracked \cup {up[r].issue}
    /\ unsynced' = IF up[r].sent /\ ~up[r].edited THEN unsynced \ {up[r].issue}
                   ELSE unsynced \cup {up[r].issue}
    /\ \/ UploadGoes(r, "comments")            \* _cpplint kept new messages
       \/ UploadEnds(r)
    /\ UNCHANGED <<changed, server, sub, bounds>>

\* _send_cpplint_result_to_comments: a failing svn info ends the run with an
\* exception, a failing tcr.py --comment is only warned about.
SendCpplintComments(r) ==
    /\ up[r].pc = "comments"
    /\ UploadEnds(r)
    /\ UNCHANGED <<shared, sub, history, bounds>>

\* The process is killed (a signal, a full disk, a closed terminal) after
\* tcr.py has run and before the database is written; earlier, a kill leaves
\* what an error exit leaves.
UploadKilled(r) ==
    /\ up[r].pc \in {"record", "save_open", "save_dump"}
    /\ kills < MaxKills
    /\ kills' = kills + 1
    /\ unsynced' = Unsaved(r)
    /\ UploadEnds(r)
    /\ UNCHANGED <<shared, sub, tracked, edits>>

UploadNext(r) ==
    \/ UploadStart(r)
    \/ PreUpload(r)
    \/ CheckUploadPathChange(r)
    \/ RunTcr(r)
    \/ RecordFilelist(r)
    \/ UploadSaveOpen(r)
    \/ UploadSaveDump(r)
    \/ SendCpplintComments(r)
    \/ UploadKilled(r)

=============================================================================
