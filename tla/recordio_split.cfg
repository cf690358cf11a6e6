\* RecordIO: the writer and two split readers on adjacent ranges.
SPECIFICATION Spec
CONSTANTS
    Bytes = {x}
    x = x
    Readers = {r1, r2}
    MaxRecordSize = 1
    BlockRecords = 2
    NoFile = NoFile
    NoEnd = NoEnd
    Data <- MCOneData
    Sizes <- MCNoSize
    Options <- MCNoOption
    Ranges <- MCRanges
    MaxWrites = 3
    MaxCorrupt = 0
INVARIANT SplitReadersPartition
SYMMETRY ReaderSymmetry
CHECK_DEADLOCK FALSE
