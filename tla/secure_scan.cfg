\* The scan of a change: every funcs.txt and every line of the bounds.
SPECIFICATION Spec
CONSTANTS
    strcpy = strcpy
    gets = gets
    app_cc = app_cc
    app_txt = app_txt
    third_cc = third_cc
    third2_cc = third2_cc
    Funcs <- MCFuncs
    Blank = Blank
    Comment = Comment
    Quoted = Quoted
    Other = Other
    Files <- MCFiles
    CcFiles <- MCCcFiles
    Thirdparty <- MCThirdparty
    Prefixed <- MCPrefixed
    Listings <- MCListings
    FuncsTxts <- MCFuncsTxts
    Sources <- MCSources
    Missing = Missing
INVARIANT TypeOK
INVARIANT ForbiddenUseEndsCheck
INVARIANT OnlyForbiddenUseReported
CHECK_DEADLOCK FALSE
