\* upload.py and submit.py invocations one after the other, one of them
\* killed between two steps, the developer editing between or during them.
SPECIFICATION Spec
CONSTANTS
    Issues = {i1, i2}
    Files = {f1, f2}
    f1 = f1
    f2 = f2
    Paths = {root, lib}
    root = root
    lib = lib
    Under <- MCUnder
    Buildable = {f1, f2}
    DependsOn <- MCDependsOn
    FileOptions <- MCFileOptions
    UploadRuns = {u1}
    SubmitRuns = {s1}
    LegacyIssues = {i1}
    InitChanged = {f2}
    MaxRunning = 1
    MaxEdits = 1
    MaxKills = 1
    NoIssue = NoIssue
    NoPath = NoPath
    Truncated = Truncated
INVARIANT TypeOK
INVARIANT IssueFileTracksUploads
INVARIANT RecordedWasUploadedUnlessFailedKilledOrEdited
PROPERTY DependencyOrderWarned
PROPERTY CommitsTheReviewedFilesUnlessAskedOrEdited
