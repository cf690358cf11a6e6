------------------------------ MODULE RecordLog ------------------------------
(***************************************************************************)
(* What a RecordIO file promises to the programs that read it, with the    *)
(* blocks, the offsets and the writer's buffer left out: the file is a     *)
(* sequence of records that only grows, and a reader hands out, one by     *)
(* one and in order, the records that follow the place it was opened at.   *)
(* RecordIO.tla is shown to implement this specification.                  *)
(***************************************************************************)
EXTENDS Naturals, Sequences, SequencesExt

CONSTANTS
    Records,   \* the byte strings a record can be
    Readers    \* the reader handles

VARIABLES
    log,       \* the records readers can see, in the order they were written
    from,      \* from[r]: the number of records before the place r was opened at
    out        \* out[r]: the records r has returned so far

vars == <<log, from, out>>

Init ==
    /\ log = <<>>
    /\ from = [r \in Readers |-> 0]
    /\ out = [r \in Readers |-> <<>>]

\* Records become visible at the end of the log, several at once when a
\* block holds several; what is visible stays as it is.
Extend ==
    /\ log' \in Seq(Records)
    /\ IsStrictPrefix(log, log')
    /\ UNCHANGED <<from, out>>

\* A reader is opened at a record boundary of what is visible.
Attach(r) ==
    /\ \E k \in 0..Len(log) : from' = [from EXCEPT ![r] = k]
    /\ out' = [out EXCEPT ![r] = <<>>]
    /\ UNCHANGED log

\* A read returns the record after the ones the reader has returned.
Deliver(r) ==
    LET next == from[r] + Len(out[r]) + 1 IN
    /\ next <= Len(log)
    /\ out' = [out EXCEPT ![r] = Append(@, log[next])]
    /\ UNCHANGED <<log, from>>

\* A reader is released; what it returned is no longer of interest.
Detach(r) ==
    /\ from' = [from EXCEPT ![r] = 0]
    /\ out' = [out EXCEPT ![r] = <<>>]
    /\ UNCHANGED log

Next == Extend \/ \E r \in Readers : Attach(r) \/ Deliver(r) \/ Detach(r)

Spec == Init /\ [][Next]_vars

=============================================================================
