SPECIFICATION FairSpec
CONSTANTS
    s1 = s1
    s2 = s2
    Malformed = Malformed
    Submitters <- MCSubmitters
    Listings <- MCListings
INVARIANT TypeOK
PROPERTY ReplacesOnlyAfterARace
PROPERTY CallEnds
CHECK_DEADLOCK FALSE
