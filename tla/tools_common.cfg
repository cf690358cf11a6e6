SPECIFICATION LibSpec
CONSTANTS
    Blank = Blank
    NoExt = NoExt
    Ext = Ext
    FileSystems <- MCFileSystems
    WithExt <- MCWithExt
    Cwd <- MCCwd
    Elsewhere <- MCElsewhere
    Configs <- MCConfigs
    PathStrings <- MCPathStrings
    Excludes <- MCExcludes
    Comment = Comment
    NoTable = NoTable
    CognateTables <- MCCognateTables
    WalkTables <- MCWalkTables
    Words <- MCWords
    Counters <- MCCounters
    Portions <- MCPortions
    Deltas = {0, 2, 6}
    MaxShrinks = 2
INVARIANT LibTypeOK
INVARIANT ListsIncludedFilesOnce
INVARIANT RaisedForAReason
INVARIANT ShrunkToTheMostFrequent
INVARIANT SimplifiedCharByCharUnlessAmbiguous
CHECK_DEADLOCK FALSE
