\* Two tool processes at a time in one working copy: an upload.py started
\* while another upload.py or a submit.py is still running.
SPECIFICATION Spec
CONSTANTS
    Issues = {i1, i2}
    Files = {f1, f2}
    f1 = f1
    f2 = f2
    Paths = {root, lib}
    root = root
    lib = lib
    Under <- MCUnder
    Buildable = {f1, f2}
    DependsOn <- MCDependsOn
    FileOptions <- NoFileOption
    UploadRuns = {u1, u2}
    SubmitRuns = {s1}
    LegacyIssues = {}
    InitChanged = {f1, f2}
    MaxRunning = 2
    MaxEdits = 0
    MaxKills = 0
    NoIssue = NoIssue
    NoPath = NoPath
    Truncated = Truncated
INVARIANT IssueFileTracksUploads
