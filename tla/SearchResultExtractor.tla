------------------------ MODULE SearchResultExtractor ------------------------
(***************************************************************************)
(* search_result_extractor.py: SearchResultExtractor.extract reads the     *)
(* files the crawl of search_baidu.py has left in its output directory,    *)
(* takes the adverts, the snippets or the related searches out of every    *)
(* result page, and writes them to files of its own: one every SrBatch     *)
(* lines and one at the end, each named after the second it is written in. *)
(*                                                                         *)
(* The module extends the crawler: the extractor runs when the crawl is    *)
(* over, on the directory the crawl has written and on what was in that    *)
(* directory before.  A file is the set of its lines, a line the query it  *)
(* starts with, or Illegal when it has no '\t\t'.  The names of the        *)
(* extractor's own state carry sr_, the name of its object in __main__,    *)
(* where the crawler has a variable of the same name.                      *)
(***************************************************************************)
EXTENDS SearchBaidu

CONSTANTS
    SrBatch,    \* lines between two saves (10000)
    Illegal,    \* a line without '\t\t'
    Before,     \* a name for the file that was in the directory before the crawl
    OldFiles    \* what that file can hold, sets of lines

ASSUME /\ SrBatch \in Nat \ {0}
       /\ Illegal \notin Queries
       /\ Before \notin Nat

VARIABLES
    sr_pc,                      \* idle, extract, done, exit, raised
    suffix,                     \* sys.argv[1]
    search_result_dir,          \* the directory as os.walk finds it: name |-> lines
    files,                      \* the files os.walk has yet to yield
    istream,                    \* the lines of the open file not yet read
    sr_query_to_search_result,  \* the queries the dictionary has a text for
    sr_query_num,               \* the legal lines read
    sr_output_dir,              \* the output files: second |-> queries in it
    truncated                   \* history: the queries of files a save has emptied

sr_vars == <<sr_pc, suffix, search_result_dir, files, istream,
             sr_query_to_search_result, sr_query_num, sr_output_dir, truncated>>

Types == {"ads", "snippet", "related_search"}

\* (mutant) the dictionary is written and not emptied
sr_save_keeps_results(results) ==
    /\ sr_output_dir' = (clock :> results) @@ sr_output_dir
    /\ sr_query_to_search_result' = results
    /\ UNCHANGED truncated

\* save, after the dictionary has taken the line: the dictionary goes to the
\* file named after the present second, which is created or truncated
sr_save(results) ==
    /\ sr_output_dir' = (clock :> results) @@ sr_output_dir
    /\ truncated' = truncated \cup
           (IF clock \in DOMAIN sr_output_dir THEN sr_output_dir[clock] \ results ELSE {})
    /\ sr_query_to_search_result' = {}

\* extract, up to the first file: any value of <type>, and a directory that
\* holds the files of the crawl and perhaps an older one
extract_starts ==
    /\ sr_pc = "idle" /\ pc = "done"
    /\ suffix' \in Types \cup {"other"}
    /\ \/ search_result_dir' = output_dir
       \/ \E old \in OldFiles : search_result_dir' = (Before :> old) @@ output_dir
    /\ files' = search_result_dir'
    /\ sr_pc' = "extract"
    /\ UNCHANGED <<istream, sr_query_to_search_result, sr_query_num, sr_output_dir, truncated>>

\* the file before is read to its end: os.walk yields the next one, in the
\* order of the file system
next_file ==
    /\ sr_pc = "extract" /\ istream = {}
    /\ \E file \in DOMAIN files :
         /\ istream' = files[file]
         /\ files' = [f \in DOMAIN files \ {file} |-> files[f]]
    /\ UNCHANGED <<sr_pc, suffix, search_result_dir, sr_query_to_search_result,
                   sr_query_num, sr_output_dir, truncated>>

\* a line without '\t\t': a warning in the log
line_is_illegal ==
    /\ sr_pc = "extract" /\ Illegal \in istream
    /\ istream' = istream \ {Illegal}
    /\ UNCHANGED <<sr_pc, suffix, search_result_dir, files, sr_query_to_search_result,
                   sr_query_num, sr_output_dir, truncated>>

\* the first legal line under a <type> that is none of the three
suffix_is_unknown ==
    /\ sr_pc = "extract" /\ istream \ {Illegal} # {}
    /\ suffix \notin Types
    /\ sr_pc' = "exit"
    /\ UNCHANGED <<suffix, search_result_dir, files, istream, sr_query_to_search_result,
                   sr_query_num, sr_output_dir, truncated>>

\* extract_ads on a page with an advert among the results: match_group of
\* line 85 is no name
extract_ads_raises ==
    /\ sr_pc = "extract" /\ istream \ {Illegal} # {}
    /\ suffix = "ads"
    /\ sr_pc' = "raised"
    /\ UNCHANGED <<suffix, search_result_dir, files, istream, sr_query_to_search_result,
                   sr_query_num, sr_output_dir, truncated>>

\* len(items) >= 2
is_query(line) == line # Illegal

\* extract_snippet and extract_related_search, and extract_ads on a page
\* without an advert among the results: the dictionary has a text, which can
\* be empty, for the query of the line
extract_text(results, line) == results \cup {line}

\* a legal line: its text goes into the dictionary, and every SrBatch lines
\* the dictionary is saved.  SrBatch pages take more than a second: no two of these saves fall
\* into the same one.
extract_line ==
    /\ sr_pc = "extract" /\ suffix \in Types
    /\ \E line \in istream :
         /\ is_query(line)
         /\ istream' = istream \ {line}
         /\ sr_query_num' = sr_query_num + 1
         /\ IF sr_query_num' % SrBatch = 0
            THEN /\ clock \notin DOMAIN sr_output_dir
                 /\ sr_save(extract_text(sr_query_to_search_result, line))
            ELSE /\ sr_query_to_search_result' = extract_text(sr_query_to_search_result, line)
                 /\ UNCHANGED <<sr_output_dir, truncated>>
    /\ UNCHANGED <<sr_pc, suffix, search_result_dir, files>>

\* (mutant) extract returns without the save of line 69
extract_ends_unsaved ==
    /\ sr_pc = "extract" /\ istream = {} /\ DOMAIN files = {}
    /\ sr_pc' = "done"
    /\ UNCHANGED <<suffix, search_result_dir, files, istream, sr_query_to_search_result,
                   sr_query_num, sr_output_dir, truncated>>

\* the last file is read: what is left in the dictionary is saved
extract_ends ==
    /\ sr_pc = "extract" /\ istream = {} /\ DOMAIN files = {}
    /\ sr_save(sr_query_to_search_result)
    /\ sr_pc' = "done"
    /\ UNCHANGED <<suffix, search_result_dir, files, istream, sr_query_num>>

\* The second of the extractor's last file is over.
SrSecondPasses ==
    /\ sr_pc = "extract"
    /\ clock \in DOMAIN sr_output_dir
    /\ clock' = clock + 1
    /\ UNCHANGED <<query_file, pc, queue, query_to_search_result, query_num,
                   output_dir, written, failures>>
    /\ UNCHANGED sr_vars

SrInit ==
    /\ Init
    /\ sr_pc = "idle"
    /\ suffix = "other"
    /\ search_result_dir = <<>>
    /\ files = <<>>
    /\ istream = {}
    /\ sr_query_to_search_result = {}
    /\ sr_query_num = 0
    /\ sr_output_dir = <<>>
    /\ truncated = {}

\* The crawl, then the extraction: a step of one leaves the other alone.
SrNext ==
    \/ fill_queue /\ UNCHANGED sr_vars
    \/ search_failed /\ UNCHANGED sr_vars
    \/ search_ok /\ UNCHANGED sr_vars
    \/ search_ends /\ UNCHANGED sr_vars
    \/ SecondPasses /\ UNCHANGED sr_vars
    \/ extract_starts /\ UNCHANGED vars
    \/ next_file /\ UNCHANGED vars
    \/ line_is_illegal /\ UNCHANGED vars
    \/ suffix_is_unknown /\ UNCHANGED vars
    \/ extract_ads_raises /\ UNCHANGED vars
    \/ extract_line /\ UNCHANGED vars
    \/ extract_ends /\ UNCHANGED vars
    \/ SrSecondPasses

SrSpec == SrInit /\ [][SrNext]_<<vars, sr_vars>>

\* The crawler is a process that goes on while it can; the extractor is
\* started by hand and nothing is assumed of it.
SrFairSpec == SrSpec /\ WF_<<vars, sr_vars>>(search /\ UNCHANGED sr_vars)

-----------------------------------------------------------------------------
(* Properties                                                               *)

\* the queries of the lines os.walk has found
Crawled == UNION {search_result_dir[f] : f \in DOMAIN search_result_dir} \ {Illegal}

\* the queries the files of the extractor hold
Extracted == UNION {sr_output_dir[second] : second \in DOMAIN sr_output_dir}

\* The types of the crawler and of the extractor, and the bookkeeping of
\* the extractor's loop: the dictionary never holds a full batch after a
\* line, and it holds queries of lines already read.
SrTypeOK ==
    /\ TypeOK
    /\ sr_pc \in {"idle", "extract", "done", "exit", "raised"}
    /\ suffix \in Types \cup {"other"}
    /\ DOMAIN files \subseteq DOMAIN search_result_dir
    /\ sr_query_to_search_result \subseteq Crawled
    /\ Cardinality(sr_query_to_search_result) < SrBatch
    /\ sr_query_num \in 0..(MaxLines + MaxFailures + Cardinality(Queries))
    /\ \A second \in DOMAIN sr_output_dir :
         second \in 0..clock /\ sr_output_dir[second] \subseteq Crawled
    /\ truncated \subseteq Crawled

\* "Parse the crawled search results and store them" (the header of the
\* file), with the comment on the save after the loop, "mind to save the
\* last group": when extract returns, its files hold a text for every query
\* the directory has a line for -- but for what the save after the loop has
\* emptied: when it falls into the second in which the last full batch was
\* written, it truncates that file.  Nothing else is lost, and nothing
\* before extract returns.
ExtractedUnlessLastBatchTruncated ==
    /\ truncated # {} => sr_pc = "done" /\ sr_query_num >= SrBatch
    /\ sr_pc = "done" => Crawled \subseteq Extracted \cup truncated

=============================================================================
