----------------------------- MODULE CodeReview -----------------------------
(***************************************************************************)
(* upload.py and submit.py run by one developer in one svn working copy,   *)
(* with the reviewers and the review server as environment.  The tools     *)
(* communicate only through the issue database file, the working copy and  *)
(* the server; nothing in the code serialises two invocations.             *)
(***************************************************************************)
EXTENDS Upload, Submit

Init ==
    /\ EnvInit
    /\ up = [r \in UploadRuns |-> IdleUpload]
    /\ sub = [r \in SubmitRuns |-> IdleSubmit]

Next ==
    \/ \E r \in UploadRuns : UploadNext(r)
    \/ \E r \in SubmitRuns : SubmitNext(r)
    \/ EnvNext

Spec == Init /\ [][Next]_vars

-----------------------------------------------------------------------------
TypeOK ==
    /\ issueFile \in Dicts \cup {Truncated}
    /\ changed \in SUBSET Files
    /\ server \in [Issues -> ServerEntry]
    /\ up \in [UploadRuns -> UploadRun]
    /\ sub \in [SubmitRuns -> SubmitRun]
    /\ tracked \in SUBSET Issues
    /\ unsynced \in SUBSET Issues
    /\ edits \in 0..MaxEdits
    /\ kills \in 0..MaxKills
    \* a legacy entry is a bare set: it has no upload_path, a new one always has
    /\ Loadable => \A i \in DOMAIN issueFile :
                     issueFile[i].legacy <=> issueFile[i].upload_path = NoPath

\* The issue database holds exactly the issues that an upload.py run recorded
\* (save_issue_info at the end of upload()) and that no submit.py run removed
\* (the pops of check_dependency_between_issues and commit_to_svn, saved after
\* the commit): no save loses another run's issue or brings a removed one back.
IssueFileTracksUploads ==
    Loadable => DOMAIN issueFile = tracked

\* the open issues of the database that the files of a commit depend on
PendingAtCommit(r) ==
    IF ~Loadable THEN {}
    ELSE {j \in DOMAIN issueFile \ {sub[r].issue} :
            /\ server[j].state = "open"
            /\ Depends(DiffFiles(sub[r].cwd, Files) \cap Buildable, issueFile[j].filelist)}

Commits(r) == sub[r].pc = "commit" /\ changed' # changed

\* check_dependency_between_issues promises that an issue is not submitted
\* before an open issue of this workspace it depends on, unless the developer
\* was asked: at the svn commit of a recorded issue, every open issue the
\* database holds at that moment and the committed files depend on was warned
\* about and accepted, or the check said it could not see everything, or
\* the developer has edited a file since the check read svn st.
DependencyOrderWarned ==
    [][\A r \in SubmitRuns :
         /\ Commits(r) /\ sub[r].issue \in DOMAIN sub[r].dict
         /\ ~sub[r].degraded /\ ~sub[r].edited
         => PendingAtCommit(r) \subseteq sub[r].warned]_vars

\* check_upload_submit_consistency, "the following file[s] you submit are
\* not consistent with the ones you uploaded": the files of a commit are
\* the files the request holds on the server.
CommitsTheReviewedFiles ==
    [][\A r \in SubmitRuns :
         Commits(r) /\ sub[r].issue \in DOMAIN sub[r].dict
         => DiffFiles(sub[r].cwd, Files) = server[sub[r].issue].reviewed]_vars

\* What holds of it in the code, for an issue the database holds: svn
\* commit . (submit.py:373) takes other files than the reviewers saw only
\* when the developer answered 'y' to the warning, when the developer has
\* edited a file since the check read svn st (the build, the tests and the
\* other checks of the issues lie between that svn st and the commit), or
\* when the database was out of step with the server already.
CommitsTheReviewedFilesUnlessAskedOrEdited ==
    [][\A r \in SubmitRuns :
         /\ Commits(r) /\ sub[r].issue \in DOMAIN sub[r].dict \ unsynced
         /\ ~sub[r].accepted /\ ~sub[r].edited
         => DiffFiles(sub[r].cwd, Files) = server[sub[r].issue].reviewed]_vars

\* The file list upload.py records for an issue is the one tcr.py uploaded:
\* upload() stops with "Failed to find issue_id! Maybe upload failed!" when
\* the upload did not succeed, so whatever the database holds was reviewed.
RecordedFilelistWasUploaded ==
    (Quiescent /\ Loadable) =>
        \A i \in DOMAIN issueFile : issueFile[i].filelist = server[i].reviewed

\* What holds of it in the code: between two invocations the database and
\* the server disagree on the files of an issue only after an upload.py
\* whose tcr.py failed under -i and which recorded its file list all the
\* same (upload.py:205, _get_issue_id), or after one that was killed between
\* tcr.py and save_issue_info (upload.py:209), or after one that read svn st
\* for the database (upload.py:125) when the developer had edited a file
\* since tcr.py read it.  No submit.py run, no edit between two runs and no
\* step of a reviewer brings them apart, and the next upload.py that
\* succeeds for the issue brings them together again.
RecordedWasUploadedUnlessFailedKilledOrEdited ==
    (Quiescent /\ Loadable) =>
        \A i \in DOMAIN issueFile \ unsynced : issueFile[i].filelist = server[i].reviewed

=============================================================================
