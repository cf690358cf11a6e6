\* The crawl of keyword files of up to four lines, and the extraction of what it wrote.
SPECIFICATION SrFairSpec
CONSTANTS
    q1 = q1
    q2 = q2
    Queries <- MCQueries
    Blank = Blank
    Batch = 2
    MaxLines = 4
    MaxFailures = 2
    SrBatch = 2
    Illegal = Illegal
    Before = Before
    OldFiles <- MCOldFiles
PROPERTY EveryQuerySavedInTheEnd
INVARIANT PersistedUnlessLastBatchTruncated
INVARIANT SrTypeOK
INVARIANT ExtractedUnlessLastBatchTruncated
CHECK_DEADLOCK FALSE
