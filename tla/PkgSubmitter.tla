---------------------------- MODULE PkgSubmitter -----------------------------
(***************************************************************************)
(* pkg_submitter.py: PkgSubmitter releases a package on the package        *)
(* server.  submit asks the server for the versions of the package, takes  *)
(* the last of the list, adds one to its third number and submits the      *)
(* package under that version; upload_file has the server fetch files.     *)
(* Every request is repeated until the server answers returnValue 0, ten   *)
(* times at most.                                                          *)
(*                                                                         *)
(* Several submitters, on the machines of several developers, release the  *)
(* same package.  The server is not in the repository: it answers a        *)
(* request in one step, with returnValue 0 or with another, and keeps the  *)
(* list of the versions in the order in which they were made.  A version   *)
(* is its third number, or Malformed when it has none.                     *)
(***************************************************************************)
EXTENDS Integers, Sequences, SequencesExt, FiniteSets

CONSTANTS
    Submitters,  \* the PkgSubmitter objects at work
    Malformed,   \* a version without a third number
    Listings     \* the lists of versions the server can have at the start

VARIABLES
    pc,        \* of a submitter: idle, the interfaceName of its request,
               \* done, exit, raised
    x,         \* the requests of the present send_http_request that failed
    response,  \* returnData.version of the answer to ListPackageVersion
    version,   \* of submit
    versions,  \* the server: the versions of the package
    content,   \* the server: version |-> the submitter whose package it is
    fetched    \* the server: the submitters whose files it has fetched

vars == <<pc, x, response, version, versions, content, fetched>>

\* what a package that was there at the start holds
Before == "before"

repeated_times == 10

Interfaces == {"remoteDownloadFile", "ListPackageVersion", "submitUpdatePackage"}

\* (mutant) the number is not raised
same_version(current) == current

\* generate_new_version, for a version of three numbers
generate_new_version(current) == current + 1

\* upload_file, up to its request
upload_file(s) ==
    /\ pc[s] = "idle"
    /\ pc' = [pc EXCEPT ![s] = "remoteDownloadFile"]
    /\ x' = [x EXCEPT ![s] = 0]
    /\ UNCHANGED <<response, version, versions, content, fetched>>

\* submit, up to the request of get_current_version
submit(s) ==
    /\ pc[s] = "idle"
    /\ pc' = [pc EXCEPT ![s] = "ListPackageVersion"]
    /\ x' = [x EXCEPT ![s] = 0]
    /\ UNCHANGED <<response, version, versions, content, fetched>>

\* (mutant) the count starts over after the last request
repeats_for_ever(s) ==
    /\ pc[s] \in Interfaces
    /\ x' = [x EXCEPT ![s] = (x[s] + 1) % repeated_times]
    /\ UNCHANGED <<pc, response, version, versions, content, fetched>>

\* (mutant) one request more before the exit
repeats_once_more(s) ==
    /\ pc[s] \in Interfaces
    /\ x' = [x EXCEPT ![s] = x[s] + 1]
    /\ pc' = [pc EXCEPT ![s] = IF x'[s] > repeated_times THEN "exit" ELSE pc[s]]
    /\ UNCHANGED <<response, version, versions, content, fetched>>

\* send_http_request, an answer with a returnValue other than 0: the next
\* turn of the loop, which is the exit after repeated_times requests
request_refused(s) ==
    /\ pc[s] \in Interfaces
    /\ x' = [x EXCEPT ![s] = x[s] + 1]
    /\ pc' = [pc EXCEPT ![s] = IF x'[s] = repeated_times THEN "exit" ELSE pc[s]]
    /\ UNCHANGED <<response, version, versions, content, fetched>>

\* send_http_request, urlopen raises or the answer is no JSON, or none that
\* eval takes: nothing catches it
request_raises(s) ==
    /\ pc[s] \in Interfaces
    /\ pc' = [pc EXCEPT ![s] = "raised"]
    /\ UNCHANGED <<x, response, version, versions, content, fetched>>

\* upload_file, the server has fetched the files
upload_answered(s) ==
    /\ pc[s] = "remoteDownloadFile"
    /\ fetched' = fetched \cup {s}
    /\ pc' = [pc EXCEPT ![s] = "done"]
    /\ UNCHANGED <<x, response, version, versions, content>>

\* get_current_version and generate_new_version on the answer of the
\* server, and submit up to its request: [-1] of an empty list and [2] of a
\* version of two numbers are IndexErrors
list_answered(s) ==
    /\ pc[s] = "ListPackageVersion"
    /\ response' = [response EXCEPT ![s] = versions]
    /\ IF versions = <<>> \/ Last(versions) = Malformed
       THEN pc' = [pc EXCEPT ![s] = "raised"] /\ UNCHANGED <<x, version>>
       ELSE /\ version' = [version EXCEPT ![s] = generate_new_version(Last(versions))]
            /\ pc' = [pc EXCEPT ![s] = "submitUpdatePackage"]
            /\ x' = [x EXCEPT ![s] = 0]
    /\ UNCHANGED <<versions, content, fetched>>

\* submit, the server has taken the package: a version it has is replaced
submit_answered(s) ==
    /\ pc[s] = "submitUpdatePackage"
    /\ versions' = IF version[s] \in Range(versions) THEN versions
                   ELSE Append(versions, version[s])
    /\ content' = (version[s] :> s) @@ content
    /\ pc' = [pc EXCEPT ![s] = "done"]
    /\ UNCHANGED <<x, response, version, fetched>>

Init ==
    /\ pc = [s \in Submitters |-> "idle"]
    /\ x = [s \in Submitters |-> 0]
    /\ response = [s \in Submitters |-> <<>>]
    /\ version = [s \in Submitters |-> 0]
    /\ versions \in Listings
    /\ content = [v \in Range(versions) |-> Before]
    /\ fetched = {}

Next ==
    \E s \in Submitters :
        \/ upload_file(s) \/ submit(s)
        \/ request_refused(s) \/ request_raises(s)
        \/ upload_answered(s) \/ list_answered(s) \/ submit_answered(s)

Spec == Init /\ [][Next]_vars

\* A call that has begun runs on, and the server answers every request.
answered(s) ==
    \/ request_refused(s) \/ request_raises(s)
    \/ upload_answered(s) \/ list_answered(s) \/ submit_answered(s)

FairSpec == Spec /\ \A s \in Submitters : WF_vars(answered(s))

-----------------------------------------------------------------------------
(* Properties                                                               *)

Ascending(list) == \A j, k \in DOMAIN list : j < k => list[j] < list[k]

TypeOK ==
    /\ pc \in [Submitters -> {"idle", "done", "exit", "raised"} \cup Interfaces]
    /\ \A s \in Submitters :
         /\ x[s] \in 0..repeated_times
         /\ x[s] = repeated_times <=> pc[s] = "exit"
         /\ version[s] \in Nat
         /\ IsPrefix(response[s], versions)
    /\ fetched \subseteq Submitters
    /\ DOMAIN content = Range(versions)

\* "Input : 1.0.369  Output: 1.0.370" (generate_new_version): submit makes
\* a version of its own.  A step of submit that replaces a version the
\* server has is taken only by a submitter whose list is out of date --
\* another one has submitted between its ListPackageVersion (line 69) and
\* its submitUpdatePackage (line 77) -- or whose list does not end with its
\* highest version.
ReplacesOnlyAfterARace ==
    [][\A s \in Submitters :
          /\ pc[s] = "submitUpdatePackage" /\ pc'[s] = "done"
          /\ version[s] \in DOMAIN content
          => response[s] # versions \/ ~Ascending(response[s])]_vars

\* Every call returns or ends the process, whatever the server answers: a
\* request is repeated repeated_times times and no more (the loop of lines
\* 42 to 54), for each of the two requests of submit.
CallEnds == \A s \in Submitters : pc[s] \in Interfaces ~> pc[s] \in {"done", "exit", "raised"}

=============================================================================
