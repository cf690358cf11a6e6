\* The lint check of a change: every diff of the bounds, errors in any order.
SPECIFICATION Spec
CONSTANTS
    f1 = f1
    f2 = f2
    doc = doc
    Files = {f1, f2, doc}
    CcFiles <- MCCcFiles
    Listings <- MCListings
    Trees <- MCTrees
    Diffs <- MCDiffs
    ErrLines <- MCErrLines
    Nowhere = Nowhere
INVARIANT TypeOK
INVARIANT AddedLinesFoundUnlessRunPrecedes
INVARIANT NewIffInBlock
CHECK_DEADLOCK FALSE
