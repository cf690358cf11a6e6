----------------------------- MODULE RecordFile -----------------------------
(***************************************************************************)
(* The RecordIO engine behind libdynamic_recordio_jna.so, whose entry      *)
(* points recordio.py calls: a file of blocks, one writer that collects    *)
(* records into a block and appends it, readers that walk the blocks.      *)
(* The engine's source is not in the repository; this module follows the   *)
(* repository's specification of it.  Bytes within a block are not         *)
(* modelled: a block is the records it frames and whether its trailer is   *)
(* missing (partial), valid (full) or wrong (bad).                         *)
(***************************************************************************)
EXTENDS Integers, Sequences, SequencesExt, FiniteSetsExt

CONSTANTS
    Bytes,          \* the values of a byte
    Readers,        \* reader handles
    MaxRecordSize,  \* bound: length of a record
    BlockRecords,   \* the writer's threshold: records a block holds before it is appended
    NoFile,         \* the path names no file
    NoEnd           \* a whole-file reader has no end offset

ASSUME /\ MaxRecordSize \in Nat
       /\ BlockRecords \in Nat \ {0}

VARIABLES
    file,      \* the blocks on disk, or NoFile
    wst,       \* the writer: none, open, appending, closing, closed, failed, dead
    pending,   \* the records framed into the writer's open block
    rd         \* per reader, its cursor

engine == <<file, wst, pending, rd>>

Record == BoundedSeq(Bytes, MaxRecordSize)

Block == [recs : Seq(Record) \ {<<>>}, state : {"partial", "full", "bad"}]

\* a block's length in the file, in units: one per framed record, one for
\* header and trailer
BlockSize(b) == Len(b.recs) + 1

\* the offset at which block k of f starts (k = Len(f) + 1: the end of f)
Offset(f, k) == MapThenSumSet(LAMBDA j : BlockSize(f[j]), 1..(k - 1))

\* the blocks a reader can take as written: all but a partial last one
Written(f) == SelectSeq(f, LAMBDA b : b.state # "partial")

\* the records of the blocks written so far, in file order
Durable(f) == IF f = NoFile THEN <<>> ELSE FlattenSeq([k \in DOMAIN Written(f) |-> f[k].recs])

Cursor == [st : {"Positioned", "Reading", "Exhausted", "Failed", "Closed"},
           start : Int,            \* the offset it was asked to start at
           first : Nat \ {0},      \* the block the reader was opened at
           blk : Nat \ {0},        \* the block it is at
           idx : Nat,              \* records of that block already returned
           resume : BOOLEAN,       \* RESUME_LAST_INCOMPLETE_BLOCK
           end : Int \cup {NoEnd}]

NoCursor == [st |-> "Closed", start |-> 0, first |-> 1, blk |-> 1, idx |-> 0,
             resume |-> FALSE, end |-> NoEnd]

-----------------------------------------------------------------------------
(* Sequential Writer                                                        *)

\* open(path, options): the file is created; ok is false when it cannot be
OpenRecordWriter(ok) ==
    /\ wst = "none"
    /\ \/ ok /\ file' = <<>> /\ wst' = "open"
       \/ ~ok /\ UNCHANGED <<file, wst>>
    /\ UNCHANGED <<pending, rd>>

\* The open block is encoded and its append begins: readers see a partial
\* block until the trailer is on disk.
BeginAppend(recs, during) ==
    /\ file' = Append(file, [recs |-> recs, state |-> "partial"])
    /\ pending' = <<>>
    /\ wst' = during

\* write_record(bytes): the record joins the open block, which is appended
\* when it reaches the threshold; after a failure the writer is unusable.
WriteRecord(rec, ok) ==
    /\ \/ /\ wst = "open" /\ ok
          /\ IF Len(pending) + 1 >= BlockRecords
             THEN BeginAppend(Append(pending, rec), "appending")
             ELSE pending' = Append(pending, rec) /\ UNCHANGED <<file, wst>>
       \/ /\ wst = "open" /\ ~ok
          /\ wst' = "failed"
          /\ UNCHANGED <<file, pending>>
       \/ /\ wst = "failed" /\ ~ok
          /\ UNCHANGED <<file, wst, pending>>
    /\ UNCHANGED rd

\* flush(): the open block is appended although under the threshold
FlushRecordWriter(ok) ==
    /\ \/ /\ wst = "open" /\ ok
          /\ IF pending = <<>>
             THEN UNCHANGED <<file, wst, pending>>
             ELSE BeginAppend(pending, "appending")
       \/ /\ wst = "open" /\ ~ok
          /\ wst' = "failed"
          /\ UNCHANGED <<file, pending>>
       \/ /\ wst = "failed" /\ ~ok
          /\ UNCHANGED <<file, wst, pending>>
    /\ UNCHANGED rd

\* close: what is pending is flushed, the descriptor is closed
CloseRecordWriter ==
    /\ \/ /\ wst = "open"
          /\ IF pending = <<>>
             THEN wst' = "closed" /\ UNCHANGED <<file, pending>>
             ELSE BeginAppend(pending, "closing")
       \/ /\ wst = "failed"
          /\ UNCHANGED <<file, wst, pending>>
    /\ UNCHANGED rd

\* The append in progress completes (the block is whole and valid), or the
\* storage refuses the rest of it.
FinishAppend ==
    /\ wst \in {"appending", "closing"}
    /\ file' = [file EXCEPT ![Len(file)].state = "full"]
    /\ wst' = IF wst = "closing" THEN "closed" ELSE "open"
    /\ UNCHANGED <<pending, rd>>

AppendFails ==
    /\ wst \in {"appending", "closing"}
    /\ wst' = "failed"
    /\ UNCHANGED <<file, pending, rd>>

-----------------------------------------------------------------------------
(* Sequential / Split Reader                                                *)

\* options & RESUME_LAST_INCOMPLETE_BLOCK (0x0002)
Resumes(options) == (options \div 2) % 2 = 1

\* the first full block boundary at or after start
FirstBoundary(f, start) ==
    Min({k \in 1..(Len(Written(f)) + 1) : Offset(f, k) >= start})

Opened(r, options, start, end) ==
    LET k == FirstBoundary(file, start) IN
    /\ file # NoFile
    /\ rd' = [rd EXCEPT ![r] = [st |-> "Positioned", start |-> start, first |-> k,
                                blk |-> k, idx |-> 0,
                                resume |-> Resumes(options), end |-> end]]
    /\ UNCHANGED <<file, wst, pending>>

\* open(path, options, whole_file)
OpenRecordReader(r, options) == Opened(r, options, 0, NoEnd)

\* open(path, options, [start, end))
OpenSplitRecordReader(r, options, start, end) == Opened(r, options, start, end)

\* (mutant) the block that starts at end is read as well
InRangeWithEnd(c, k) == c.end = NoEnd \/ Offset(file, k) <= c.end

\* range = [start, end): the reader stops after the block containing end,
\* the last one that starts before end
InRange(c, k) == c.end = NoEnd \/ Offset(file, k) < c.end

\* there is a block at the cursor, and the cursor's range lets it be read
AtBlock(c) == c.blk <= Len(file) /\ InRange(c, c.blk)

\* (mutant) the cursor stays in the block after its last record
AdvanceWithin(c) == [c EXCEPT !.st = "Reading", !.idx = @ + 1]

\* after a record: on within the block, or to the next block boundary
Advance(c) ==
    IF c.idx + 1 = Len(file[c.blk].recs)
    THEN [c EXCEPT !.st = "Positioned", !.blk = @ + 1, !.idx = 0]
    ELSE [c EXCEPT !.st = "Reading", !.idx = @ + 1]

\* (mutant) an incomplete block ends the stream
IncompleteEnds(c) == [c EXCEPT !.st = "Exhausted"]

\* an incomplete block: the offset is kept when the option is set, the
\* reader fails as on corruption when it is not
Incomplete(c) == IF c.resume THEN c ELSE [c EXCEPT !.st = "Failed"]

\* (mutant) a block is taken as whole before its trailer is on disk
FoundUnchecked(c) ==
    IF ~AtBlock(c) THEN "end"
    ELSE IF file[c.blk].state = "bad" THEN "bad" ELSE "full"

\* what a reader at a block boundary finds there: the end of the file or of
\* its range, or a block that is partial, full or bad
Found(c) == IF AtBlock(c) THEN file[c.blk].state ELSE "end"

\* read_record(): ok and the record, or no record
ReadRecord(r, ok, rec) ==
    LET c == rd[r]
        found == IF c.st = "Positioned" THEN Found(c) ELSE "none"
        goes(d) == rd' = [rd EXCEPT ![r] = d]
    IN
    /\ \/ /\ c.st \in {"Exhausted", "Failed"}
          /\ ~ok /\ UNCHANGED rd
       \/ /\ found = "end"
          /\ ~ok /\ goes([c EXCEPT !.st = "Exhausted"])
       \/ /\ found = "bad"
          /\ ~ok /\ goes([c EXCEPT !.st = "Failed"])
       \/ /\ found = "partial"
          /\ ~ok /\ goes(Incomplete(c))
       \/ /\ c.st = "Reading" \/ found = "full"
          /\ ok /\ rec = file[c.blk].recs[c.idx + 1]
          /\ goes(Advance(c))
    /\ UNCHANGED <<file, wst, pending>>

\* close: the handle and the cursor are released
CloseRecordReader(r) ==
    /\ rd' = [rd EXCEPT ![r] = NoCursor]
    /\ UNCHANGED <<file, wst, pending>>

=============================================================================
