\* RecordIO: the writer and one reader, three records, one damaged block.
SPECIFICATION FairSpec
CONSTANTS
    Bytes = {x}
    x = x
    Readers = {r1}
    MaxRecordSize = 1
    BlockRecords = 2
    NoFile = NoFile
    NoEnd = NoEnd
    Data <- MCData
    Sizes <- MCSizes
    Options <- MCOptions
    Ranges <- MCRanges
    MaxWrites = 3
    MaxCorrupt = 1
INVARIANT TypeOK
INVARIANT RoundTrip
PROPERTY ImplementsRecordLog
PROPERTY IncompleteTailResumed
CHECK_DEADLOCK FALSE
