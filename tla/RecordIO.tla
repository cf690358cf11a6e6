------------------------------ MODULE RecordIO ------------------------------
(***************************************************************************)
(* recordio.py: the Python classes RecordWriter and RecordReader over the  *)
(* engine of RecordFile.tla.  One writer object and the reader objects of  *)
(* Readers live in separate processes and share the file.  Each method is  *)
(* one action; a block append that a method starts is finished by the      *)
(* engine's FinishAppend, so that readers and a crash can fall in between. *)
(***************************************************************************)
EXTENDS RecordFile

CONSTANTS
    Data,        \* the str values callers pass to write_record
    Sizes,       \* the values of its size parameter
    Options,     \* the values of the readers' options parameter
    Ranges,      \* the <<start, end>> split readers are opened with
    MaxWrites,   \* bound: write_record calls
    MaxCorrupt   \* bound: blocks damaged on disk

ASSUME /\ Data \subseteq Record
       /\ Sizes \subseteq -1..MaxRecordSize
       /\ Options \subseteq Nat
       /\ Ranges \subseteq (Int \X Int) \ {<<-1, -1>>}
       /\ {MaxWrites, MaxCorrupt} \subseteq Nat

VARIABLES
    wobj,       \* the RecordWriter object: none, live, null (IOError), released
    robj,       \* the same for each RecordReader object
    accepted,   \* history: the records the library took, in call order
    delivered,  \* history: per reader, the records read_record returned
    sealed,     \* history: the readers opened after the writer was released
    corrupted   \* number of Corrupt steps so far

vars == <<file, wst, pending, rd, wobj, robj, accepted, delivered, sealed, corrupted>>

Handle == {"none", "live", "null", "released"}

-----------------------------------------------------------------------------
(* RecordWriter                                                             *)

\* __init__: OpenRecordWriter; a null handle raises IOError
RecordWriter_init ==
    /\ wobj = "none"
    /\ \E ok \in BOOLEAN :
         /\ OpenRecordWriter(ok)
         /\ wobj' = IF ok THEN "live" ELSE "null"
    /\ UNCHANGED <<robj, accepted, delivered, sealed, corrupted>>

\* what WriteRecord receives: cast(data, c_char_p) and c_int(size), size
\* being len(data) when the parameter is -1.  A size beyond len(data) makes
\* the library read past the end of the str.
Marshalled(data, size) ==
    LET n == IF size = -1 THEN Len(data) ELSE size IN
    IF n <= Len(data)
    THEN {SubSeq(data, 1, n)}
    ELSE {data \o tail : tail \in TupleOf(Bytes, n - Len(data))}

\* write_record(data, size): a call returns before the next one is made
write_record(data, size) ==
    /\ wobj = "live"
    /\ Len(accepted) < MaxWrites
    /\ \E rec \in Marshalled(data, size), ok \in BOOLEAN :
         /\ WriteRecord(rec, ok)
         /\ accepted' = IF ok THEN Append(accepted, rec) ELSE accepted
    /\ UNCHANGED <<wobj, robj, delivered, sealed, corrupted>>

flush ==
    /\ wobj = "live"
    /\ \E ok \in BOOLEAN : FlushRecordWriter(ok)
    /\ UNCHANGED <<wobj, robj, accepted, delivered, sealed, corrupted>>

\* (mutant) the handle is dropped without CloseRecordWriter
RecordWriter_forgotten ==
    /\ wobj \in {"live", "null"}
    /\ wst \notin {"appending", "closing"}
    /\ wobj' = "released"
    /\ UNCHANGED <<engine, robj, accepted, delivered, sealed, corrupted>>

\* __del__: CloseRecordWriter when the handle is not null; nothing else
\* flushes what write_record took since the last block was appended.
RecordWriter_del ==
    /\ wobj \in {"live", "null"}
    /\ IF wobj = "live" THEN CloseRecordWriter ELSE UNCHANGED engine
    /\ wobj' = "released"
    /\ UNCHANGED <<robj, accepted, delivered, sealed, corrupted>>

\* The writing process dies: __del__ does not run, what is pending is lost
\* and a block whose append had begun stays partial.
WriterCrash ==
    /\ wst \in {"open", "appending", "closing"}
    /\ wst' = "dead"
    /\ pending' = <<>>
    /\ wobj' = "released"
    /\ UNCHANGED <<file, rd, robj, accepted, delivered, sealed, corrupted>>

-----------------------------------------------------------------------------
(* RecordReader                                                             *)

\* bound: a split reader is opened on a range that starts within the file
\* as it is
SplitRanges ==
    IF file = NoFile THEN Ranges
    ELSE {range \in Ranges : range[1] <= Offset(file, Len(Written(file)) + 1)}

\* __init__: a whole-file reader when neither start nor end is given, a
\* split reader otherwise; a null handle raises IOError
RecordReader_init(r, options, start, end) ==
    /\ robj[r] = "none"
    /\ \/ /\ file = NoFile
          /\ robj' = [robj EXCEPT ![r] = "null"]
          /\ UNCHANGED <<engine, sealed>>
       \/ /\ IF start = -1 /\ end = -1
             THEN OpenRecordReader(r, options)
             ELSE OpenSplitRecordReader(r, options, start, end)
          /\ robj' = [robj EXCEPT ![r] = "live"]
          /\ sealed' = IF wobj = "released" THEN sealed \cup {r} ELSE sealed
    /\ UNCHANGED <<wobj, accepted, delivered, corrupted>>

\* read_record: (True, the record) or (False, ""), whatever made it fail
read_record(r) ==
    /\ robj[r] = "live"
    /\ \E ok \in BOOLEAN, rec \in Record :
         /\ ReadRecord(r, ok, rec)
         /\ delivered' = IF ok THEN [delivered EXCEPT ![r] = Append(@, rec)] ELSE delivered
    /\ UNCHANGED <<wobj, robj, accepted, sealed, corrupted>>

\* __del__: CloseRecordReader when the handle is not null
RecordReader_del(r) ==
    /\ robj[r] \in {"live", "null"}
    /\ IF robj[r] = "live" THEN CloseRecordReader(r) ELSE UNCHANGED engine
    /\ robj' = [robj EXCEPT ![r] = "released"]
    /\ delivered' = [delivered EXCEPT ![r] = <<>>]
    /\ sealed' = sealed \ {r}
    /\ UNCHANGED <<wobj, accepted, corrupted>>

-----------------------------------------------------------------------------
\* The storage damages a block that was written whole.
Corrupt(k) ==
    /\ corrupted < MaxCorrupt
    /\ file # NoFile
    /\ k \in DOMAIN file
    /\ file[k].state = "full"
    /\ file' = [file EXCEPT ![k].state = "bad"]
    /\ corrupted' = corrupted + 1
    /\ UNCHANGED <<wst, pending, rd, wobj, robj, accepted, delivered, sealed>>

\* the engine's part of a write_record, flush or __del__ still in progress
Finishes == FinishAppend /\ UNCHANGED <<wobj, robj, accepted, delivered, sealed, corrupted>>

Fails == AppendFails /\ UNCHANGED <<wobj, robj, accepted, delivered, sealed, corrupted>>

Init ==
    /\ file = NoFile
    /\ wst = "none"
    /\ pending = <<>>
    /\ rd = [r \in Readers |-> NoCursor]
    /\ wobj = "none"
    /\ robj = [r \in Readers |-> "none"]
    /\ accepted = <<>>
    /\ delivered = [r \in Readers |-> <<>>]
    /\ sealed = {}
    /\ corrupted = 0

WriterNext ==
    \/ RecordWriter_init
    \/ \E data \in Data, size \in Sizes : write_record(data, size)
    \/ flush
    \/ RecordWriter_del
    \/ Finishes
    \/ Fails
    \/ WriterCrash

ReaderNext(r) ==
    \/ \E options \in Options :
         \/ RecordReader_init(r, options, -1, -1)
         \/ \E range \in SplitRanges : RecordReader_init(r, options, range[1], range[2])
    \/ read_record(r)
    \/ RecordReader_del(r)

Next ==
    \/ WriterNext
    \/ \E r \in Readers : ReaderNext(r)
    \/ \E k \in 1..MaxWrites : Corrupt(k)

Spec == Init /\ [][Next]_vars

\* An append that has begun is finished unless the storage fails or the
\* process dies; a reader's caller goes on calling read_record until it
\* releases the reader.
Fairness ==
    /\ WF_vars(Finishes)
    /\ \A r \in Readers : WF_vars(read_record(r))

FairSpec == Spec /\ Fairness

-----------------------------------------------------------------------------
(* Properties                                                               *)

TypeOK ==
    /\ file \in Seq(Block) \cup {NoFile}
    /\ wst \in {"none", "open", "appending", "closing", "closed", "failed", "dead"}
    /\ pending \in BoundedSeq(Record, BlockRecords - 1)
    /\ rd \in [Readers -> Cursor]
    /\ \A r \in Readers : rd[r].st = "Reading" =>
           /\ rd[r].blk \in DOMAIN file
           /\ rd[r].idx \in 1..(Len(file[rd[r].blk].recs) - 1)
    /\ wobj \in Handle
    /\ robj \in [Readers -> Handle]
    /\ accepted \in BoundedSeq(Record, MaxWrites)
    /\ delivered \in [Readers -> BoundedSeq(Record, MaxWrites)]
    /\ sealed \subseteq Readers
    /\ corrupted \in 0..MaxCorrupt

\* the number of records in the blocks before block k
RecordsBefore(k) == IF file = NoFile THEN 0 ELSE Len(Durable(SubSeq(file, 1, k - 1)))

\* Refinement: through every step of the writer, the readers, a crash and
\* the storage, the records of the written blocks only grow at the end, and
\* each successful read_record returns the record that follows, in the file,
\* the ones the reader has returned since it was opened: no record is
\* skipped, repeated or returned before its block is whole (ReadRecord's
\* cursor over the blocks BeginAppend and FinishAppend put on disk).
Log == INSTANCE RecordLog WITH
           Records <- Record,
           log <- Durable(file),
           from <- [r \in Readers |-> RecordsBefore(rd[r].first)],
           out <- delivered

ImplementsRecordLog == Log!Spec

NoDamage == \A k \in DOMAIN file : file[k].state = "full"

\* a reader that has returned (False, "") at the end of what it was to read
Done(r) == robj[r] = "live" /\ rd[r].st = "Exhausted"

\* Round trip: once the writer object has been released (RecordWriter.__del__)
\* with no failed call, no crash and no damage to the file, a whole-file
\* reader opened afterwards that has read to the end has returned exactly
\* the records write_record took, in order, whatever mix of write_record,
\* flush and block thresholds produced the blocks.
RoundTrip ==
    \A r \in sealed :
        (Done(r) /\ rd[r].end = NoEnd /\ wst \notin {"failed", "dead"} /\ NoDamage)
            => delivered[r] = accepted

\* r and s were opened on [0, c) and [c, e) with e at or past the end of
\* the file; a start of -1 beside an end that is given is passed on as it
\* is, and the first block boundary at or after it is that of offset 0
Adjacent(r, s) ==
    /\ rd[r].end # NoEnd /\ rd[s].end # NoEnd
    /\ rd[r].start \in {-1, 0}
    /\ rd[s].start = rd[r].end
    /\ rd[s].end >= Offset(file, Len(file) + 1)

\* Split-read partition: two split readers opened (RecordReader.__init__
\* with start and end) on adjacent ranges of a finished, undamaged file, and
\* read to their ends, have between them returned every record once: the
\* records of the first followed by those of the second are the records of
\* the file, wherever the cut falls -- on a block boundary, inside a block,
\* at 0 or past the end.
SplitReadersPartition ==
    \A r, s \in sealed :
        (r # s /\ Done(r) /\ Done(s) /\ Adjacent(r, s) /\ wst = "closed" /\ NoDamage)
            => delivered[r] \o delivered[s] = accepted

\* r has the option set and stands before a block whose append is not finished
Stalled(r) ==
    /\ robj[r] = "live"
    /\ rd[r].resume
    /\ rd[r].st = "Positioned"
    /\ Found(rd[r]) = "partial"

\* Incomplete tail: a reader opened with RESUME_LAST_INCOMPLETE_BLOCK that is
\* given (False, "") at a block the writer is still appending returns, on a
\* later read_record, a record of that block once the append is finished --
\* unless the writer fails or dies first, the block is damaged, or the
\* reader is released (the docstring of RecordReader: "would resume from it
\* when user calls readxxx function again").
IncompleteTailResumed ==
    \A r \in Readers, n \in 0..MaxWrites :
        (Stalled(r) /\ Len(delivered[r]) = n)
            ~> \/ Len(delivered[r]) > n
               \/ robj[r] # "live"
               \/ rd[r].st = "Failed"
               \/ wst \in {"failed", "dead"}

=============================================================================
