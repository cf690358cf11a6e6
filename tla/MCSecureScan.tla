---------------------------- MODULE MCSecureScan -----------------------------
(***************************************************************************)
(* SecureScan for TLC: two forbidden functions, a change of up to two      *)
(* files of which one is not a C++ file, one is under thirdparty and one   *)
(* in a directory whose name starts like it; lines of up to three tokens.  *)
(***************************************************************************)
EXTENDS SecureScan

CONSTANTS strcpy, gets, app_cc, app_txt, third_cc, third2_cc

MCFuncs == {strcpy, gets}

MCFiles == {app_cc, app_txt, third_cc, third2_cc}

MCCcFiles == {app_cc, third_cc, third2_cc}

MCThirdparty == {third_cc}

\* thirdparty2/x.cc starts with the text <root>/thirdparty
MCPrefixed == {third_cc, third2_cc}

MCListings == {<<>>} \cup {<<f>> : f \in MCFiles} \cup {<<app_cc, f>> : f \in MCFiles \ {app_cc}}

\* funcs.txt of up to two lines, the last one with or without its newline
MCFuncsTxts ==
    {txt \in [lines : BoundedSeq(MCFuncs \cup {Blank}, 2), newline : BOOLEAN] :
        ~txt.newline => txt.lines # <<>> /\ txt.lines[Len(txt.lines)] # Blank}

Tokens == MCFuncs \cup {Comment, Quoted, Other}

\* app.cc of one line, or missing; one line in each of the other files
MCSources ==
    {[f \in MCFiles |-> IF f = app_cc THEN lines ELSE <<<<use>>>>] :
        lines \in {Missing} \cup {<<line>> : line \in BoundedSeq(Tokens, 3)},
        use \in {strcpy, Other}}

=============================================================================
