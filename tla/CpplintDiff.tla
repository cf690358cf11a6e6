----------------------------- MODULE CpplintDiff -----------------------------
(***************************************************************************)
(* cpplint_diff.py and the functions of common.py it uses: the check that  *)
(* upload.py and submit.py run before a change goes out.  svn_diff_added   *)
(* reads from 'svn diff' which lines of each file the change adds, and     *)
(* cpplint_diff sorts the errors cpplint reports into those on added lines *)
(* (new: they stop the upload) and the others (old: a warning).            *)
(*                                                                         *)
(* A line of the diff is its kind and, for a hunk header, the number after *)
(* '+'; an error message is its file and its line number.                  *)
(***************************************************************************)
EXTENDS Integers, Sequences, SequencesExt, FiniteSets, FiniteSetsExt

CONSTANTS
    Files,      \* the paths svn knows
    CcFiles,    \* the ones with an extension of C or C++ that is not banned_tx.h
    Listings,   \* what 'svn st -q' can list: sequences of files
    Trees,      \* where the tool can be run: [cwd, holders of a BLADE_ROOT file]
    Diffs,      \* what 'svn diff' can print: sequences of [f, body]
    ErrLines,   \* the line numbers of the errors cpplint reports on a file, in its order
    Nowhere     \* no directory

VARIABLES
    pc,            \* start, cpplint_diff, cpplint, exit0, exit1, IndexError
    cc_files,      \* the files of the change that are checked
    changed,       \* history: the hunks of the change, file by file
    diff_result,   \* the lines 'svn diff' printed
    diff_details,  \* the result of svn_diff_added: file |-> blocks <<first, last + 1>>
    report,        \* the errors of cpplint: per file of cc_files, their line numbers
    verdicts       \* per error: old (old_err_msgs), new (new_err_msgs), ignored

vars == <<pc, cc_files, changed, diff_result, diff_details, report, verdicts>>

Line(t, n) == [t |-> t, n |-> n]

Index(f) == [t |-> "Index", n |-> 0, f |-> f]

-----------------------------------------------------------------------------
(* common.py                                                                *)

\* the closest directory from working_dir upwards, the root apart, that
\* holds a file BLADE_ROOT
find_blade_root_dir(working_dir, holders) ==
    LET upper == {n \in 1..Len(working_dir) : SubSeq(working_dir, 1, n) \in holders} IN
    IF upper = {} THEN Nowhere ELSE SubSeq(working_dir, 1, Max(upper))

\* (mutant) every file is taken for a C++ file
filter_nothing(files) == files

filter_cc_files(files) == SelectSeq(files, LAMBDA f : f \in CcFiles)

\* (mutant) a removed line counts as a line of the new file
stepped_over_removed(line, line_index) ==
    IF line.t = "@@" THEN line.n ELSE line_index + 1

\* line_index after a line that is not an added one: set by a hunk header,
\* kept by a removed line, one more after any other line
stepped(line, line_index) ==
    CASE line.t = "@@" -> line.n
      [] line.t = "-" -> line_index
      [] OTHER -> line_index + 1

\* the inner while of svn_diff_added: the '+' lines from lines[i] on
modify_block_len(lines, i) ==
    Min({len \in 1..Len(lines) : i + len > Len(lines) \/ lines[i + len].t # "+"})

\* the outer while, from lines[i] on: a block for every run of '+' lines,
\* after which line_index is one more
RECURSIVE modify_block_list(_, _, _)
modify_block_list(lines, i, line_index) ==
    IF i > Len(lines) THEN <<>>
    ELSE IF lines[i].t = "+"
    THEN LET len == modify_block_len(lines, i) IN
         <<<<line_index, line_index + len>>>>
             \o modify_block_list(lines, i + len, line_index + 1)
    ELSE modify_block_list(lines, i + 1, stepped(lines[i], line_index))

\* the part of the output of 'svn diff' for each 'Index: ' line, without
\* its first four lines, walked from line_index 0
svn_diff_added(lines) ==
    LET file_diff_start_pos == {pos \in DOMAIN lines : lines[pos].t = "Index"}
        file_diff_end(pos) == Min({p \in file_diff_start_pos \cup {Len(lines) + 1} : p > pos}) - 1
    IN  [f \in {lines[pos].f : pos \in file_diff_start_pos} |->
            LET pos == CHOOSE p \in file_diff_start_pos : lines[p].f = f IN
            modify_block_list(SubSeq(lines, pos + 4, file_diff_end(pos)), 1, 0)]

-----------------------------------------------------------------------------
(* cpplint_diff.py                                                          *)

\* (mutant) the end of a block is taken for one of its lines
reaches_inclusive(line_num, block) == line_num <= block[2]

\* the tests of the inner while: the block is not yet behind the line
reaches(line_num, block) == line_num < block[2]

\* the while loops over the errors of one file: j goes on from where the
\* error before left it, and when it has passed the last block the rest of
\* the errors of the file is old
RECURSIVE judged(_, _, _)
judged(line_nums, current_diff_info, j) ==
    LET line_num == Head(line_nums)
        ahead == {k \in j..Len(current_diff_info) : reaches(line_num, current_diff_info[k])}
    IN  IF line_nums = <<>> THEN <<>>
        ELSE IF ahead = {} THEN [k \in DOMAIN line_nums |-> "old"]
        ELSE <<IF line_num < current_diff_info[Min(ahead)][1] THEN "old" ELSE "new">>
                 \o judged(Tail(line_nums), current_diff_info, Min(ahead))

\* the loop over the 'Done processing' lines: a file without diff details
\* is passed over
Partitioned(errors, details) ==
    [g \in DOMAIN errors |->
        IF errors[g].f \in DOMAIN details
        THEN judged(errors[g].lines, details[errors[g].f], 1)
        ELSE [k \in DOMAIN errors[g].lines |-> "ignored"]]

\* the text of 'svn diff': per file the Index line, three lines of header
\* and the hunks
Printed(diff) ==
    FlattenSeq([k \in DOMAIN diff |->
        <<Index(diff[k].f), Line("head", 0), Line("head", 0), Line("head", 0)>> \o diff[k].body])

\* __main__ up to the call of cpplint_diff: nothing to check, or no
\* BLADE_ROOT above the working directory
main ==
    /\ pc = "start"
    /\ \E diff_files \in Listings, tree \in Trees :
         /\ cc_files' = filter_cc_files(diff_files)
         /\ pc' = IF cc_files' = <<>> THEN "exit0"
                  ELSE IF find_blade_root_dir(tree.cwd, tree.holders) = Nowhere THEN "exit1"
                  ELSE "cpplint_diff"
    /\ UNCHANGED <<changed, diff_result, diff_details, report, verdicts>>

\* cpplint_diff, line 19: svn diff on the files, of which some have no
\* diff (added with history); without an 'Index: ' line svn_diff_added
\* ends in file_diff_start_pos[-1]
cpplint_diff_starts ==
    /\ pc = "cpplint_diff"
    /\ \E diff \in Diffs :
         /\ [k \in DOMAIN diff |-> diff[k].f]
              = SelectSeq(cc_files, LAMBDA f : \E k \in DOMAIN diff : diff[k].f = f)
         /\ changed' = diff
         /\ diff_result' = Printed(diff)
    /\ IF diff_result' = <<>>
       THEN pc' = "IndexError" /\ UNCHANGED diff_details
       ELSE pc' = "cpplint" /\ diff_details' = svn_diff_added(diff_result')
    /\ UNCHANGED <<cc_files, report, verdicts>>

\* 'svn diff' ends with an error: error_exit
svn_diff_fails ==
    /\ pc = "cpplint_diff"
    /\ pc' = "exit1"
    /\ UNCHANGED <<cc_files, changed, diff_result, diff_details, report, verdicts>>

\* the rest of cpplint_diff and of __main__: cpplint runs on the files and
\* its errors are partitioned; new errors make the exit code 1
cpplint_diff_ends ==
    /\ pc = "cpplint"
    /\ \E line_nums \in [Range(cc_files) -> ErrLines], ran \in BOOLEAN :
         /\ report' = IF ran THEN [k \in DOMAIN cc_files |->
                                     [f |-> cc_files[k], lines |-> line_nums[cc_files[k]]]]
                      ELSE <<>>
         /\ verdicts' = Partitioned(report', diff_details)
         /\ pc' = IF ran /\ \A g \in DOMAIN verdicts' : "new" \notin Range(verdicts'[g])
                  THEN "exit0" ELSE "exit1"
    /\ UNCHANGED <<cc_files, changed, diff_result, diff_details>>

Init ==
    /\ pc = "start"
    /\ cc_files = <<>>
    /\ changed = <<>>
    /\ diff_result = <<>>
    /\ diff_details = <<>>
    /\ report = <<>>
    /\ verdicts = <<>>

Next == main \/ cpplint_diff_starts \/ svn_diff_fails \/ cpplint_diff_ends

Spec == Init /\ [][Next]_vars

-----------------------------------------------------------------------------
(* Properties                                                               *)

\* the number in the new file of line k of a file's hunks
NewLine(body, k) ==
    LET hunk == Max({h \in 1..(k - 1) : body[h].t = "@@"}) IN
    body[hunk].n + Cardinality({m \in (hunk + 1)..(k - 1) : body[m].t \in {"+", " "}})

\* hunks as svn prints them: a header first, and every header at or after
\* the line the hunk before ended at
IsDiffBody(body) ==
    /\ body # <<>> => body[1].t = "@@"
    /\ \A k \in 2..Len(body) : body[k].t = "@@" => body[k].n >= NewLine(body, k)

\* the lines of the new file that the change adds
AddedLines(body) == {NewLine(body, k) : k \in {m \in DOMAIN body : body[m].t = "+"}}

\* the lines that blocks cover
Covered(blocks) == UNION {blocks[b][1]..(blocks[b][2] - 1) : b \in DOMAIN blocks}

\* The types, and the shape of what svn_diff_added returns: for the files
\* of the diff, which are C++ files, blocks that are not empty and whose
\* first lines go upwards.
TypeOK ==
    /\ pc \in {"start", "cpplint_diff", "cpplint", "exit0", "exit1", "IndexError"}
    /\ cc_files \in Seq(CcFiles)
    /\ DOMAIN diff_details = {changed[k].f : k \in DOMAIN changed}
    /\ \A f \in DOMAIN diff_details :
         LET blocks == diff_details[f] IN
         /\ \A b \in DOMAIN blocks : blocks[b][1] < blocks[b][2]
         /\ \A b \in 2..Len(blocks) : blocks[b - 1][1] < blocks[b][1]
    /\ DOMAIN verdicts = DOMAIN report
    /\ \A g \in DOMAIN report :
         /\ DOMAIN verdicts[g] = DOMAIN report[g].lines
         /\ Range(verdicts[g]) \subseteq {"old", "new", "ignored"}

\* in a hunk, a run of two or more added lines with added lines after it
RunPrecedes(body) ==
    \E k, m \in DOMAIN body :
        /\ k + 1 < m
        /\ body[k].t = "+" /\ body[k + 1].t = "+"
        /\ body[m].t = "+" /\ body[m - 1].t # "+"
        /\ \A h \in k..m : body[h].t # "@@"

\* svn_diff_added finds the added lines of a file (its docstring: the
\* blocks of the diff content that starts with '+'), as far as it does:
\* line_index goes on by one after a block, whatever its length, so the
\* blocks are the added lines unless a longer run precedes another run in
\* the same hunk.
AddedLinesFoundUnlessRunPrecedes ==
    \A k \in DOMAIN changed :
        ~RunPrecedes(changed[k].body)
            => Covered(diff_details[changed[k].f]) = AddedLines(changed[k].body)

\* cpplint_diff puts an error among the new ones exactly when its line is
\* in a block of its file, for every error that no error with a higher
\* line number precedes in cpplint's output: j is never set back, so the
\* loops rely on the line numbers going upwards.
NewIffInBlock ==
    \A g \in DOMAIN report :
        LET lines == report[g].lines
            f == report[g].f IN
        \A k \in DOMAIN lines :
            (f \in DOMAIN diff_details /\ \A e \in 1..(k - 1) : lines[e] <= lines[k])
                => (verdicts[g][k] = "new" <=> lines[k] \in Covered(diff_details[f]))

\* The docstring of cpplint_diff, "partition cpplint result into two
\* parts: the part not imported by your change and the yes part": an error
\* on a line that the change adds is among the new errors.
ErrorsOnAddedLinesAreNew ==
    \A g \in DOMAIN report, c \in DOMAIN changed :
        changed[c].f = report[g].f =>
            \A k \in DOMAIN report[g].lines :
                report[g].lines[k] \in AddedLines(changed[c].body) => verdicts[g][k] = "new"

=============================================================================
