\* svn_stat.py on logs of up to two commits, with a directory that fails.
SPECIFICATION FairSpec
CONSTANTS
    u1 = u1
    u2 = u2
    NoAuthor = NoAuthor
    Users <- MCUsers
    Logs <- MCLogs
    Bodies <- MCBodies
INVARIANT TypeOK
INVARIANT CsvCountsCommits
PROPERTY RunEnds
CHECK_DEADLOCK FALSE
