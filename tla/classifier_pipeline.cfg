\* The scripts of the classifier, run in any order on a corpus split up to twice.
SPECIFICATION FairSpec
CONSTANTS
    Source <- MCSource
    Taxonomies <- MCTaxonomies
    Misspelt <- MCMisspelt
    Corrected <- MCCorrected
    NA <- MCNA
    LongNames <- MCLongNames
    ShortDocs <- MCShortDocs
    Segmented <- MCSegmented
    DictOrder <- MCDictOrder
    vocab_size = 3
    MaxShuffles = 2
    NoFile = NoFile
    Space = "SP"
    Newline = "NL"
    Lead = "H1"
    Cont = "H2"
    FloatBytes = 4
    NaNs <- MCNaNs
    Zero = Zero
    Word2VecFiles <- MCWord2VecFiles
    maxlen = 1
    max_features = 3
    embedding_dims = 1
INVARIANT TypeOK
INVARIANT LabelsBelongToContentsUnlessResplit
INVARIANT AsciiRowsAreTheVectorsUnlessDecodeErrorOrRebuilt
INVARIANT IndexesAreRowsOfTheEmbedding
INVARIANT ScoresLeaveOutTheNegativeClass
PROPERTY LoadEndsUnlessCutShort
CHECK_DEADLOCK FALSE
