----------------------------- MODULE CheckSubmit -----------------------------
(***************************************************************************)
(* check_submit.py: the audit that cron runs in a working copy.  A run     *)
(* reads the revision the last run ended at from check_submit.history,     *)
(* lists the log from there to HEAD, mails the commits that were not made  *)
(* with submit.py and stores the last revision it saw.  Nothing keeps two  *)
(* runs apart, and a run can die between any two of its steps.             *)
(*                                                                         *)
(* A log message is the set of marks it carries, a path is a member of     *)
(* Paths; authors, dates and the mail's layout are left out.               *)
(***************************************************************************)
EXTENDS Integers, Sequences, FiniteSets, FiniteSetsExt

CONSTANTS
    Procs,        \* the runs cron can have going at a time
    Commits,      \* the log entries developers commit
    Marks,        \* what submit.py puts in a message: Issue, Digest, --crid, four lines
    Paths,        \* the paths a commit can touch
    ExceptPaths,  \* the ones under a prefix of EXCEPT_PATHS
    MaxRevision,  \* bound: commits
    MaxFailures,  \* bound: runs killed and mails that fail
    Missing,      \* there is no check_submit.history
    Empty         \* the file is there and holds nothing

ASSUME /\ ExceptPaths \subseteq Paths
       /\ Commits \subseteq [msg : SUBSET Marks, paths : SUBSET Paths]
       /\ {MaxRevision, MaxFailures} \subseteq Nat

VARIABLES
    repo,      \* the log of the repository: repo[k] is revision k
    history,   \* check_submit.history
    run,       \* per run, where it is and its local variables
    mailed,    \* history: the revisions some mail has named
    failures   \* number of kills and failed mails so far

vars == <<repo, history, run, mailed, failures>>

Revision == 0..MaxRevision

Idle == [pc |-> "idle", revision |-> 0, last |-> 0, invalid |-> {}]

-----------------------------------------------------------------------------
(* the functions of check_submit.py                                         *)

\* (mutant) the entries after the first two
get_logentries_from_third(revision) ==
    LET listed == {k \in DOMAIN repo : k >= revision} IN
    {k \in listed : \E i, j \in listed : i < j /\ j < k}

\* svn log -r revision:HEAD without its first entry, as revision numbers
get_logentries(revision) ==
    LET listed == {k \in DOMAIN repo : k >= revision} IN
    IF listed = {} THEN {} ELSE listed \ {Min(listed)}

is_checked_path(path) == path \notin ExceptPaths

is_committed_by_submit_py(logentry) == Marks \subseteq logentry.msg

\* (mutant) a commit is invalid only when all its paths are checked ones
is_invalid_submit_all_paths(logentry) ==
    /\ ~is_committed_by_submit_py(logentry)
    /\ \A path \in logentry.paths : is_checked_path(path)

is_invalid_submit(logentry) ==
    /\ ~is_committed_by_submit_py(logentry)
    /\ \E path \in logentry.paths : is_checked_path(path)

get_invalid_submits(revision) ==
    LET logentries == get_logentries(revision) IN
    IF logentries = {}
    THEN [last |-> 0, invalid |-> {}]
    ELSE [last |-> Max(logentries),
          invalid |-> {k \in logentries : is_invalid_submit(repo[k])}]

-----------------------------------------------------------------------------
(* check_submit(), step by step                                             *)

Goes(p, local) == run' = [run EXCEPT ![p] = local]

\* (mutant) the history is read without the handler for a missing file
ReadHistoryUnhandled(p) ==
    /\ run[p].pc = "idle"
    /\ history # Empty
    /\ Goes(p, [run[p] EXCEPT !.pc = "read", !.revision = history])
    /\ UNCHANGED <<repo, history, mailed, failures>>

\* int(open('check_submit.history').read()), 0 on IOError.  An empty file
\* makes int() raise ValueError, which ends the run where it began.
ReadHistory(p) ==
    /\ run[p].pc = "idle"
    /\ history # Empty
    /\ Goes(p, [run[p] EXCEPT !.pc = "read",
                              !.revision = IF history = Missing THEN 0 ELSE history])
    /\ UNCHANGED <<repo, history, mailed, failures>>

\* get_invalid_submits(revision) and the tests on its result
GetInvalidSubmits(p) ==
    LET found == get_invalid_submits(run[p].revision) IN
    /\ run[p].pc = "read"
    /\ Goes(p, IF found.last <= run[p].revision THEN Idle
               ELSE [run[p] EXCEPT !.pc = IF found.invalid = {} THEN "write" ELSE "mail",
                                   !.last = found.last,
                                   !.invalid = found.invalid])
    /\ UNCHANGED <<repo, history, mailed, failures>>

\* mail_notify: one message that names every invalid commit
MailNotify(p) ==
    /\ run[p].pc = "mail"
    /\ mailed' = mailed \cup run[p].invalid
    /\ Goes(p, [run[p] EXCEPT !.pc = "write"])
    /\ UNCHANGED <<repo, history, failures>>

\* smtplib raises: before the message was taken, or after it (in quit)
MailFails(p) ==
    /\ run[p].pc = "mail"
    /\ failures < MaxFailures
    /\ \E sent \in BOOLEAN : mailed' = IF sent THEN mailed \cup run[p].invalid ELSE mailed
    /\ Goes(p, Idle)
    /\ failures' = failures + 1
    /\ UNCHANGED <<repo, history>>

\* open('check_submit.history', 'w') truncates the file
OpenHistory(p) ==
    /\ run[p].pc = "write"
    /\ history' = Empty
    /\ Goes(p, [run[p] EXCEPT !.pc = "opened"])
    /\ UNCHANGED <<repo, mailed, failures>>

\* write(str(last_revision)), on disk when the file object is released
WriteHistory(p) ==
    /\ run[p].pc = "opened"
    /\ history' = run[p].last
    /\ Goes(p, Idle)
    /\ UNCHANGED <<repo, mailed, failures>>

-----------------------------------------------------------------------------
(* the environment                                                          *)

\* The run is killed, or dies of an error of the system (a full disk when
\* the history is written); nothing of it is undone.
Killed(p) ==
    /\ run[p].pc # "idle"
    /\ failures < MaxFailures
    /\ Goes(p, Idle)
    /\ failures' = failures + 1
    /\ UNCHANGED <<repo, history, mailed>>

\* A developer commits, with submit.py or without.
Commit(c) ==
    /\ Len(repo) < MaxRevision
    /\ repo' = Append(repo, c)
    /\ UNCHANGED <<history, run, mailed, failures>>

Init ==
    /\ repo = <<>>
    /\ history = Missing
    /\ run = [p \in Procs |-> Idle]
    /\ mailed = {}
    /\ failures = 0

check_submit(p) ==
    \/ ReadHistory(p)
    \/ GetInvalidSubmits(p)
    \/ MailNotify(p)
    \/ MailFails(p)
    \/ OpenHistory(p)
    \/ WriteHistory(p)

Next ==
    \/ \E p \in Procs : check_submit(p) \/ Killed(p)
    \/ \E c \in Commits : Commit(c)

Spec == Init /\ [][Next]_vars

\* cron starts the audit again and again, and a run that was started goes
\* on to its end unless it is killed or the mail server refuses.
Fairness ==
    \A p \in Procs :
        /\ WF_vars(ReadHistory(p))
        /\ WF_vars(GetInvalidSubmits(p))
        /\ WF_vars(MailNotify(p))
        /\ WF_vars(OpenHistory(p))
        /\ WF_vars(WriteHistory(p))

FairSpec == Spec /\ Fairness

-----------------------------------------------------------------------------
(* Properties                                                               *)

\* The types of the variables, and what a run past get_invalid_submits
\* holds: a last revision beyond the one it started from, and invalid
\* commits between the two (check_submit's test last_revision > revision).
TypeOK ==
    /\ repo \in Seq(Commits) /\ Len(repo) <= MaxRevision
    /\ history \in Revision \cup {Missing, Empty}
    /\ mailed \subseteq DOMAIN repo
    /\ failures \in 0..MaxFailures
    /\ \A p \in Procs :
         /\ run[p].pc \in {"idle", "read", "mail", "write", "opened"}
         /\ run[p].revision \in Revision
         /\ run[p].last \in Revision
         /\ run[p].invalid \subseteq (run[p].revision + 1)..run[p].last
         /\ run[p].pc \in {"mail", "write", "opened"} => run[p].last > run[p].revision
         /\ run[p].pc = "mail" => run[p].invalid # {}

\* a commit the audit is there to report: made without submit.py, on a path
\* that is not excepted
Bypass(k) ==
    /\ k \in DOMAIN repo
    /\ Marks \ repo[k].msg # {}
    /\ repo[k].paths \ ExceptPaths # {}

\* the history says that the log has been audited up to revision k
Passed(k) == history \in Revision /\ k <= history

\* The header of check_submit.py, "Check submits that are not submitted by
\* submit.py": when the stored revision has passed a commit made without
\* submit.py, a mail has named that commit, whatever the order of the steps
\* of two runs and wherever a run is killed: check_submit() stores the
\* revision only after mail_notify returned.  The oldest revision of the
\* log is excepted: get_logentries drops it unseen when there is no history.
BypassAuditedAfterOldest == \A k \in 2..MaxRevision : Bypass(k) /\ Passed(k) => k \in mailed

\* no run is going and the history cannot be read: every later run ends
\* in ReadHistory
Wedged == history = Empty /\ \A p \in Procs : run[p].pc = "idle"

\* A commit made without submit.py, the first of the log apart, is named
\* in a mail in the end: check_submit() run again and again gets to it
\* although runs overlap, are killed or fail to send.
BypassEventuallyMailed == \A k \in 2..MaxRevision : Bypass(k) ~> k \in mailed

\* The same, as far as the code keeps it: unless a run died between
\* open(..., 'w') and the write, which leaves a history no run can read.
AuditResumes == \A k \in 2..MaxRevision : Bypass(k) ~> (k \in mailed \/ Wedged)

=============================================================================
