\* The audit: two overlapping runs, three commits, two failures.
SPECIFICATION FairSpec
CONSTANTS
    Procs = {p1, p2}
    Commits <- MCCommits
    Marks <- MCMarks
    Paths <- MCPaths
    ExceptPaths <- MCExceptPaths
    MaxRevision = 3
    MaxFailures = 2
    Missing = Missing
    Empty = Empty
INVARIANT TypeOK
INVARIANT BypassAuditedAfterOldest
PROPERTY AuditResumes
CHECK_DEADLOCK FALSE
