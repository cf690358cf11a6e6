----------------------------- MODULE SecureScan ------------------------------
(***************************************************************************)
(* secure_scan.py: the scan for forbidden functions that upload.py and     *)
(* submit.py run on the files of a change.  The names of the functions are *)
(* the lines of makeinclude/funcs.txt; a use of one of them outside a      *)
(* comment, in a C or C++ file that is not under thirdparty, ends the tool *)
(* with an error.                                                          *)
(*                                                                         *)
(* A line of a source file is a sequence of tokens: a name of Funcs, the   *)
(* '//' that starts a comment, a '//' inside a string literal, or another  *)
(* word.  A regular expression is the name it is made from.                *)
(***************************************************************************)
EXTENDS Integers, Sequences, SequencesExt, FiniteSets, FiniteSetsExt

CONSTANTS
    Funcs,         \* the names funcs.txt can hold
    Blank,         \* an empty line of funcs.txt
    Comment,       \* the token //
    Quoted,        \* the token // inside a string literal
    Other,         \* any other word
    Files,         \* the paths of the change
    CcFiles,       \* the ones filter_cc_files keeps
    Thirdparty,    \* the ones under <root>/thirdparty
    Prefixed,      \* the ones whose path starts with the text <root>/thirdparty
    Listings,      \* the file lists the tool can be given
    FuncsTxts,     \* what funcs.txt can hold: [lines, newline at its end]
    Sources,       \* what the files can hold: file |-> lines, or Missing
    Missing        \* there is no such file

ASSUME Thirdparty \subseteq Prefixed /\ Prefixed \subseteq Files

VARIABLES
    pc,                     \* main, check, scan, ok, error
    files,                  \* the argument of check
    blade_root,             \* a BLADE_ROOT file is found
    funcs_txt,              \* makeinclude/funcs.txt
    source,                 \* the files of the working copy
    forbidden_fun_regexes,  \* of the scanner check() made
    forbidden_details       \* the result of scan: [regex, file, line]

vars == <<pc, files, blade_root, funcs_txt, source, forbidden_fun_regexes, forbidden_details>>

\* line[:-1] as a regular expression: the line without its last character,
\* which is the newline, or the last letter of a name that ends the file
regex(txt, k) == [name |-> txt.lines[k], whole |-> k < Len(txt.lines) \/ txt.newline]

\* regex.search(line): where the leftmost match starts, 0 for None.  \b\b
\* of an empty line matches at the first word; a name short of a letter is
\* no word of the sources.
search(re, line) ==
    LET starts == {i \in DOMAIN line :
                     IF re.name = Blank THEN line[i] \notin {Comment, Quoted}
                     ELSE re.whole /\ line[i] = re.name} IN
    IF starts = {} THEN 0 ELSE Min(starts)

\* line.find('//'), 0 for -1
find(line) ==
    LET slashes == {i \in DOMAIN line : line[i] \in {Comment, Quoted}} IN
    IF slashes = {} THEN 0 ELSE Min(slashes)

\* (mutant) a line with a comment is passed over
reported_without_comment(re, line) == search(re, line) # 0 /\ find(line) = 0

\* (mutant) a match is reported wherever it is
reported_anywhere(re, line) == search(re, line) # 0

\* the tests of lines 60 to 63
reported(re, line) ==
    /\ search(re, line) # 0
    /\ find(line) = 0 \/ search(re, line) < find(line)

\* the lines of open(absolute_file_name): none on IOError
text(f) == IF source[f] = Missing THEN <<>> ELSE source[f]

_check_forbidden_functions_for_file(regexes, diff_file) ==
    LET hits == {e \in (DOMAIN regexes) \X (DOMAIN text(diff_file)) :
                   reported(regexes[e[1]], text(diff_file)[e[2]])}
    IN  {[regex |-> regexes[e[1]], file |-> diff_file, line |-> e[2]] : e \in hits}

filter_out_exceptions(fs) == SelectSeq(fs, LAMBDA f : f \notin Prefixed)

\* (mutant) every file is taken for a C++ file
filter_nothing(fs) == fs

filter_cc_files(fs) == SelectSeq(fs, LAMBDA f : f \in CcFiles)

\* SecureScanner.scan
scanned(regexes, fs) ==
    UNION {_check_forbidden_functions_for_file(regexes, diff_file) :
             diff_file \in Range(filter_cc_files(filter_out_exceptions(fs)))}

\* SecureScanner(): init_regex ends the tool without BLADE_ROOT or funcs.txt
init_regex(then) ==
    IF blade_root /\ funcs_txt # Missing
    THEN /\ forbidden_fun_regexes' = [k \in DOMAIN funcs_txt.lines |-> regex(funcs_txt, k)]
         /\ pc' = then
    ELSE pc' = "error" /\ UNCHANGED forbidden_fun_regexes

\* __main__ makes a scanner of its own before it calls check
main ==
    /\ pc = "main"
    /\ init_regex("check")
    /\ UNCHANGED <<files, blade_root, funcs_txt, source, forbidden_details>>

\* check, up to the scanner it makes: nothing to do without files
check ==
    /\ pc = "check"
    /\ IF files = <<>>
       THEN pc' = "ok" /\ UNCHANGED forbidden_fun_regexes
       ELSE init_regex("scan")
    /\ UNCHANGED <<files, blade_root, funcs_txt, source, forbidden_details>>

\* check, the scan and the test of its result
scan ==
    /\ pc = "scan"
    /\ forbidden_details' = scanned(forbidden_fun_regexes, files)
    /\ pc' = IF forbidden_details' = {} THEN "ok" ELSE "error"
    /\ UNCHANGED <<files, blade_root, funcs_txt, source, forbidden_fun_regexes>>

\* The tool is run by hand (main) or called by upload.py and submit.py (check).
Init ==
    /\ pc \in {"main", "check"}
    /\ files \in Listings
    /\ blade_root \in BOOLEAN
    /\ funcs_txt \in FuncsTxts \cup {Missing}
    /\ source \in Sources
    /\ forbidden_fun_regexes = <<>>
    /\ forbidden_details = {}

Next == main \/ check \/ scan

Spec == Init /\ [][Next]_vars

-----------------------------------------------------------------------------
(* Properties                                                               *)

\* line n of file f uses fn outside a comment, before any // of the line
UsedBeforeSlashes(f, n, fn) ==
    \E i \in DOMAIN source[f][n] :
        /\ source[f][n][i] = fn
        /\ \A h \in 1..(i - 1) : source[f][n][h] \notin {Comment, Quoted}

\* line n of file f uses fn outside a comment
Used(f, n, fn) ==
    \E i \in DOMAIN source[f][n] :
        /\ source[f][n][i] = fn
        /\ \A h \in 1..(i - 1) : source[f][n][h] # Comment

\* fn is a line of funcs.txt that ends with a newline
ListedWhole(fn) ==
    \E k \in DOMAIN funcs_txt.lines :
        funcs_txt.lines[k] = fn /\ (k < Len(funcs_txt.lines) \/ funcs_txt.newline)

\* The types, and what the result of a scan names: lines of C and C++
\* files of the change that can be read, and expressions of the scanner.
TypeOK ==
    /\ pc \in {"main", "check", "scan", "ok", "error"}
    /\ pc = "scan" => files # <<>> /\ blade_root /\ funcs_txt # Missing
    /\ \A d \in forbidden_details :
         /\ d.file \in Range(files) \cap CcFiles
         /\ source[d.file] # Missing /\ d.line \in DOMAIN source[d.file]
         /\ d.regex \in Range(forbidden_fun_regexes)

\* "Run secure scan on c/c++ code": check() returns without an error only
\* when no C or C++ file of the change uses a function of funcs.txt outside
\* a comment, as far as the scanner sees it: the file is readable and its
\* path does not start like thirdparty (filter_out_exceptions), the name is
\* a whole line of funcs.txt (init_regex), and no // precedes the use on
\* its line (_check_forbidden_functions_for_file).
ForbiddenUseEndsCheck ==
    (pc = "ok" /\ files # <<>>) =>
        \A f \in (Range(files) \cap CcFiles) \ Prefixed, fn \in Funcs :
            source[f] # Missing /\ ListedWhole(fn)
                => \A n \in DOMAIN source[f] : ~UsedBeforeSlashes(f, n, fn)

\* "Ignore if in comment": the scan reports only uses outside comments of
\* functions that funcs.txt names, unless funcs.txt has an empty line.
OnlyForbiddenUseReported ==
    \A d \in forbidden_details :
        d.regex.name # Blank => Used(d.file, d.line, d.regex.name)

=============================================================================
