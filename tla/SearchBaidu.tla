----------------------------- MODULE SearchBaidu -----------------------------
(***************************************************************************)
(* search_baidu.py: SearchEngine.search crawls the result page of every    *)
(* query of a keyword file.  The queries wait in a queue, a query whose    *)
(* download fails goes back to its end, results are collected in a         *)
(* dictionary that is written to a new file of the output directory every  *)
(* Batch downloads and once more at the end.  The file is named after the  *)
(* second in which it is written.                                          *)
(*                                                                         *)
(* A result page is not modelled: a query either has its result or not.    *)
(***************************************************************************)
EXTENDS Integers, Sequences, SequencesExt, FiniteSets, TLC

CONSTANTS
    Queries,      \* the queries a line of the keyword file can start with
    Blank,        \* a line whose first field is empty
    Batch,        \* downloads between two saves (3000)
    MaxLines,     \* bound: lines of the keyword file
    MaxFailures   \* bound: downloads that fail

ASSUME /\ Blank \notin Queries
       /\ Batch \in Nat \ {0}
       /\ {MaxLines, MaxFailures} \subseteq Nat

VARIABLES
    query_file,              \* the keyword file, line by line
    pc,                      \* where search() is: start, loop, done
    queue,                   \* the queue of fill_queue
    query_to_search_result,  \* the queries the dictionary has a result for
    query_num,               \* downloads that succeeded
    output_dir,              \* the output files: second of the name |-> queries in it
    clock,                   \* the second time.localtime() shows
    written,                 \* history: the queries some save has written
    failures                 \* downloads that failed so far

vars == <<query_file, pc, queue, query_to_search_result, query_num, output_dir,
          clock, written, failures>>

\* the queries of the keyword file
Wanted == Range(query_file) \ {Blank}

\* (mutant) a failed query is not put back
requeued_nothing(q, query) == q

\* queue.put(query) after a failure
requeued(q, query) == Append(q, query)

\* what queue.get() leaves
got(q) == Tail(q)

\* add_search_result: the dictionary has a result for the query, the one
\* downloaded last when the keyword file names the query twice
add_search_result(results, query) == results \cup {query}

\* save: the dictionary goes to the file named after the present second,
\* which is created or truncated, and is emptied
save(results, second) ==
    /\ output_dir' = (second :> results) @@ output_dir
    /\ written' = written \cup results
    /\ query_to_search_result' = {}

\* fill_queue: the first field of every line, if it is not empty
fill_queue ==
    /\ pc = "start"
    /\ queue' = SelectSeq(query_file, LAMBDA query : query # Blank)
    /\ pc' = "loop"
    /\ UNCHANGED <<query_file, query_to_search_result, query_num, output_dir,
                   clock, written, failures>>

\* one turn of the loop in which wget fails: the query is put back and the
\* crawler sleeps for 10 to 60 seconds
search_failed ==
    /\ pc = "loop" /\ queue # <<>>
    /\ failures < MaxFailures
    /\ queue' = requeued(got(queue), Head(queue))
    /\ clock' = clock + 1
    /\ failures' = failures + 1
    /\ UNCHANGED <<query_file, pc, query_to_search_result, query_num, output_dir, written>>

\* one turn in which wget succeeds: add_search_result, and a save when the
\* count is a multiple of Batch.  A download takes its time: no two turns
\* save in the same second.
search_ok ==
    LET results == add_search_result(query_to_search_result, Head(queue)) IN
    /\ pc = "loop" /\ queue # <<>>
    /\ queue' = got(queue)
    /\ query_num' = query_num + 1
    /\ clock' = clock + 1
    /\ IF query_num' % Batch = 0
       THEN save(results, clock')
       ELSE query_to_search_result' = results /\ UNCHANGED <<output_dir, written>>
    /\ UNCHANGED <<query_file, pc, failures>>

\* (mutant) search returns without the save of line 61
search_ends_unsaved ==
    /\ pc = "loop" /\ queue = <<>>
    /\ pc' = "done"
    /\ UNCHANGED <<query_file, queue, query_to_search_result, query_num, output_dir,
                   clock, written, failures>>

\* the queue is empty: what is left in the dictionary is saved
search_ends ==
    /\ pc = "loop" /\ queue = <<>>
    /\ save(query_to_search_result, clock)
    /\ pc' = "done"
    /\ UNCHANGED <<query_file, queue, query_num, clock, failures>>

\* The second of the last file's name is over.
SecondPasses ==
    /\ pc # "done"
    /\ clock \in DOMAIN output_dir
    /\ clock' = clock + 1
    /\ UNCHANGED <<query_file, pc, queue, query_to_search_result, query_num,
                   output_dir, written, failures>>

Init ==
    /\ query_file \in BoundedSeq(Queries \cup {Blank}, MaxLines)
    /\ pc = "start"
    /\ queue = <<>>
    /\ query_to_search_result = {}
    /\ query_num = 0
    /\ output_dir = <<>>
    /\ clock = 0
    /\ written = {}
    /\ failures = 0

search == fill_queue \/ search_failed \/ search_ok \/ search_ends

Next == search \/ SecondPasses

Spec == Init /\ [][Next]_vars

\* search() is one sequential process: it takes its next step when it has one.
\* Nothing is assumed of the downloads but the bound on those that fail.
FairSpec == Spec /\ WF_vars(search)

-----------------------------------------------------------------------------
(* Properties                                                               *)

\* the queries the files of the output directory hold
Persisted == UNION {output_dir[second] : second \in DOMAIN output_dir}

\* The types, and the bookkeeping of the loop: the dictionary never holds
\* a full batch after a turn, and what it holds has been downloaded.
TypeOK ==
    /\ pc \in {"start", "loop", "done"}
    /\ queue \in Seq(Queries)
    /\ query_to_search_result \subseteq Wanted
    /\ Cardinality(query_to_search_result) < Batch
    /\ query_num \in 0..(MaxLines + MaxFailures)
    /\ DOMAIN output_dir \subseteq 0..clock
    /\ \A second \in DOMAIN output_dir : output_dir[second] \subseteq Wanted
    /\ written \subseteq Wanted
    /\ failures \in 0..MaxFailures

\* No query of the keyword file gets lost on the way, and search() returns:
\* a query whose download fails goes back to the queue (line 52) and is
\* tried again, the loop ends when the queue is empty, and when search()
\* has returned a save has written every query of the file.  The loop has
\* no limit on retries: this holds of the crawls in which no more than
\* MaxFailures downloads fail, under the fairness of FairSpec.
EveryQuerySavedInTheEnd == <>(pc = "done" /\ Wanted \subseteq written)

\* The header of search_baidu.py (the results are crawled and stored) and
\* the comment on the save after the loop: when search() returns, the
\* files of the output directory hold a result for every query.
EveryResultPersisted == pc = "done" => Wanted \subseteq Persisted

\* The same, as far as the code keeps it: results are missing from the
\* files only when the number of downloads is a multiple of Batch -- the
\* save after the loop (line 61) then follows the save of the last batch
\* (line 60) in the same second and truncates its file -- and no more than
\* that one batch is missing.
PersistedUnlessLastBatchTruncated ==
    pc = "done" /\ ~(Wanted \subseteq Persisted) =>
        /\ query_num > 0 /\ query_num % Batch = 0
        /\ Cardinality(Wanted \ Persisted) <= Batch

=============================================================================
