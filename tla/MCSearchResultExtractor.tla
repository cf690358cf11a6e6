----------------------- MODULE MCSearchResultExtractor -----------------------
(***************************************************************************)
(* The crawl and the extraction for TLC: two queries, a crawl that saves   *)
(* every second download and an extraction that saves every second line;  *)
(* a directory that held nothing before the crawl, or a file with a line   *)
(* for one of the queries, with a line cut short, or with both.            *)
(***************************************************************************)
EXTENDS SearchResultExtractor

CONSTANTS q1, q2

MCQueries == {q1, q2}

MCOldFiles == {{q1}, {Illegal}, {q1, Illegal}}

=============================================================================
