# Neptune: TLA+ models of the review tools, RecordIO, the audit, the crawler, the batch tools and the classifier scripts

This directory holds TLA+ specifications of the parts of the repository whose
behaviour depends on the order of steps, on failures between steps, or on
several processes sharing files, together with the TLC configurations that
check them. `PROJECT.json` lists the components, the runs, the map from
definitions to source lines, the findings and the hazards.

## 1. Inventory of the system

The repository holds three groups of programs.

### 1.1 Code review workflow (`src/app/qzap/common/tool/`)

| part | state | operations that change state | talks to |
|---|---|---|---|
| issue database (`common.py` `save_issue_info`, `load_issue_info`) | one pickle file per workspace, `~/.gdt_codereview_<inode>`: dict issue id -> `{filelist, upload_path}` (or a bare set, the format of older versions) | load (whole file), save (truncate, then dump of the caller's whole dict) | upload.py, submit.py |
| `upload.py` (`CodeUploader`) | the dict loaded in `__init__`, the options, the new cpplint messages | `pre_upload` (svn up, secure_scan, missing tests, cpplint, cppcheck, upload-path prompt), `upload` (tcr.py, issue id, file list, save, lint comments) | svn, tcr.py / review server, issue database |
| `submit.py` (`IssueCommitter`) | issue details fetched at start, the dict loaded in the consistency check | `check` (svn, presubmit or build and tests, secure_scan, consistency with the upload, dependency between issues, approval), `commit_to_svn` (commit, pop, save) | svn, blade, review server, issue database |
| `check_submit.py` | `check_submit.history` (last audited revision) | read history, `svn log`, mail the commits made without submit.py, write history | svn, send_mail |
| `pkg_submitter.py` (`PkgSubmitter`) | none of its own; the versions of the package on the package server | `upload_file`, `submit` (list the versions, derive the next, submit), each request repeated up to ten times | package server |
| `svn_stat.py` | `group_map` (cache of the directory's answers), `author_group_map` (the counts) | `get_group` (ten requests), the count of a log entry, the CSV at the end | svn, directory service |
| `secure_scan.py`, `cpplint_diff.py`, `common.svn_diff_added`, `filter_cc_files`, `find_file_bottom_up` | none (pure functions over files and diffs) | - | called by upload.py and submit.py |
| `send_mail.py`, `cppcheck.py`, `astyle.py` | none | wrappers around SMTP and command-line tools | - |

Hard behaviours: two tools started in the same workspace (submit.py builds
and tests for minutes; upload.py waits at prompts) share the database file
with no lock; a run can be killed between the svn commit or the upload and
the save; `save_issue_info` is not atomic; tcr.py can fail after a run has
decided what to record; the approval is read long before it is used.

What must hold: the database holds the issues uploaded from the workspace
and not yet submitted; an issue is not committed ahead of an open issue it
depends on without the developer being asked; what is recorded as uploaded
was uploaded.

### 1.2 RecordIO (`src/app/qzap/common/recordio/`)

`recordio.py` is the ctypes binding of the RecordIO library: `RecordWriter`
(open, `write_record`, `flush`, release on `__del__`) and `RecordReader`
(open on a whole file or on a split `[start, end)`, `read_record`, release).
The engine behind it (block codec, framer, checksums, the
`RESUME_LAST_INCOMPLETE_BLOCK` option) is described by the repository's
specification and is not among the sources. State: the file, the writer's
unflushed records, the reader's position and state. Hard behaviours: a reader
on a file that is still being written, a truncated or corrupt tail, split
readers that must partition the records.

### 1.3 Text analysis scripts (`src/app/qzap/text_analysis/`)

`search_baidu.py` is a crawler with a work queue (a failed query is queued
again, results are saved every 3000 queries);
`search_result_extractor.py` reads the files the crawler wrote and saves
the texts it extracts every 10000 lines; `path_walk.py` lists the files
below included paths without excluded ones, from arguments or from a
configuration file; it imports `util.py`, which reads two tables of
simplified and traditional characters when it is imported and holds the
helpers of the dictionary scripts (`cht2chs`, `shrink_counter`,
`prodList`), with `hanziTable.py` and `hanChar.py` behind it.

The classifier is a chain of scripts run by hand, each reading the files
the one before wrote: `shuffle.py` splits the labelled corpus,
`corpus_preprocess.py` writes labels and contents and, after
`text_segmenter_main` has cut the contents into words, pickles the data
set; `get_corpus_vocab_vec.py` reads the vectors of the vocabulary from a
file of the word2vec tool; `baseline_cnn_1d.py` and
`cnn_1d_multiconv_w2v.py` train Keras networks on the data set, the second
with the vectors as weights, and print the scores of `classifier_eval.py`.

## 2. Plan

| order | modules | what | state |
|---|---|---|---|
| 1 | `Workspace`, `Upload`, `Submit`, `CodeReview`, `MCCodeReview` | the review workflow in one workspace, sequential and overlapping runs, kills | done |
| 2 | `RecordLog`, `RecordFile`, `RecordIO`, `MCRecordIO` | the binding from the source, the engine from the specification, and the abstract "sequence of records" that the block-level model implements | done |
| 3 | `CheckSubmit`, `MCCheckSubmit` | the audit's stored revision, mail before history write, overlapping cron runs, kills | done |
| 4 | `SearchBaidu`, `SearchResultExtractor`, `MCSearchResultExtractor` | the crawl queue, retries and the batch saves; the extraction of what the crawl wrote, as a composition with the crawler | done |
| 5 | `CpplintDiff`, `MCCpplintDiff`, `SecureScan`, `MCSecureScan` | the two checks of a change, their algorithms as operators checked against declarative definitions | done |
| 6 | `Workspace`, `Upload`, `Submit`, `CodeReview` | edits while a tool runs: the files recorded, reviewed and committed | done; the lint and scan results stay named outcomes of `PreUpload` (their own runs check them), and nothing is stated of a commit for a request that was closed meanwhile, which the code does not look at |
| 7 | `PkgSubmitter`, `MCPkgSubmitter` | version read-then-submit by several submitters and the repeated requests, with the server as environment | done |
| 8 | `SvnStat`, `MCSvnStat` | the statistics script: cache, retries, longest-prefix match, counts | done |
| 9 | `PathWalk`, `ToolsCommon`, `MCToolsCommon` | the configuration file, the recursive walk against a declarative definition, the list without duplicates; since `Util`, after the import of util.py | done |
| 10 | `RecordIO` extensions | several writers on one path, compression and checksum failures as separate block states, a lone end of -1 of a split reader | not modelled: the specification gives these cases no behaviour to translate (section 12) |
| 11 | `Util`, `ToolsCommon`, `MCToolsCommon` | the import of the character tables and what it does to path_walk.py; `shrink_counter` and `cht2chs` checked against declarative definitions, `prodList`, `commList` and the two functions of hanChar.py as operators | done |
| 12 | `Corpus`, `VocabVec`, `Classifier`, `MCClassifier` | the scripts of the classifier in any order: files of an earlier run read beside those of this one, the parser of the word2vec file byte by byte, the numbers that must agree between the scripts | done |

The modules of one component form an `EXTENDS` chain (state and
environment, then one module per tool, then the composition with the
properties) and an `MC` module that gives the constants their values for
TLC. Components that share nothing (the review workflow, RecordIO, the
audit, the crawl with the extraction, the two checks, the statistics, the
walk with the helpers, the package client, the classifier) are separate
specifications. The only abstract
specification is `RecordLog`: `RecordIO` instantiates it with a refinement
mapping and checks it as a property.

Where the code breaks what its comments promise in one exceptional case,
the runs check the promise with the exception named (`AuditResumes`,
`AddedLinesFoundUnlessRunPrecedes`, `PersistedUnlessLastBatchTruncated`,
`ExtractedUnlessLastBatchTruncated`, `ReplacesOnlyAfterARace`,
`RecordedWasUploadedUnlessFailedKilledOrEdited`,
`CommitsTheReviewedFilesUnlessAskedOrEdited`,
`LabelsBelongToContentsUnlessResplit`,
`AsciiRowsAreTheVectorsUnlessDecodeErrorOrRebuilt`, `LoadEndsUnlessCutShort`,
`SimplifiedCharByCharUnlessAmbiguous`): TLC then
shows that the exceptions named are the only ones. The promise without the
exception stays in the module as a definition (`BypassEventuallyMailed`,
`ErrorsOnAddedLinesAreNew`, `EveryResultPersisted`,
`RecordedFilelistWasUploaded`, `CommitsTheReviewedFiles`,
`LabelsBelongToContents`, `RowsAreTheVectors`, `SkipsWhatItReports`,
`SimplifiedCharByChar`); put in the place of the checked one in the
same configuration it gives the counterexample the finding describes.

Not planned: what the Keras networks learn (floating-point training, out of
TLC's reach), the file helpers of util.py, whose I/O goes through modules
the repository does not hold, and the thin wrappers `cppcheck.py` and
`astyle.py`.

## 3. The review workflow model

`Workspace.tla` declares the shared state and the environment; `Upload.tla`
and `Submit.tla` extend it with one action per step of the two tools;
`CodeReview.tla` composes them and states the properties; `MCCodeReview.tla`
gives the constants for TLC.

### State

| variable | code |
|---|---|
| `issueFile` | the pickle file: a function from issue ids to entries `[legacy, filelist, upload_path]`, or `Truncated` between `open(.., 'wb')` and `pickle.dump` |
| `changed` | what `svn st -q` reports in the workspace; `DiffFiles(cwd, selected)` is the part under the directory the tool was started in, narrowed by `--files` |
| `server` | per issue: `state` (none, open, CLOSED, SUBMITED), `approved` (`usersPassRequest` non-empty), `reviewed` (files of the last successful upload) |
| `up[r]`, `sub[r]` | a process of upload.py / submit.py: its control point `pc`, its options, `self.issue_dict`, for upload.py whether tcr.py has uploaded the change (`sent`), and for submit.py the approval fetched at start and what the dependency check found |
| `tracked` | history variable: issues whose upload has been saved and whose removal has not |
| `unsynced` | history variable: issues whose entry was saved by an upload.py whose tcr.py had failed or that an edit had overtaken, or that an upload.py uploaded and was killed before it saved; a saved upload that succeeded, with nothing edited between its two `svn st`, takes the issue out |
| `up[r].edited`, `sub[r].edited`, `sub[r].accepted` | history fields of a run: the developer edited a file the run lists after the run read `svn st` for the last time (upload.py: between tcr.py and `_get_upload_diff_filelist`; submit.py: between `check_upload_submit_consistency` and `svn commit`); the developer answered 'y' to the files that differ |
| `edits`, `kills` | counters for the bounds `MaxEdits`, `MaxKills` |

A slot of `up` or `sub` is `idle` when no process runs in it; a process that
exits, aborts or is killed frees its slot, so the number of invocations in a
behaviour is not bounded, only the number alive at once (`MaxRunning`).

### Actions

Every step that reads or writes something another process can see is one
action: for upload.py `UploadStart` (load), `PreUpload`, `CheckUploadPathChange`,
`RunTcr` (server), `RecordFilelist` (second svn st), `UploadSaveOpen`,
`UploadSaveDump`, `SendCpplintComments`; for submit.py `SubmitStart` (fetch of
the issue details), `PreSubmit`, `CheckUploadSubmitConsistency` (load),
`CheckDependencyBetweenIssues` (server fetch per issue, prompts, pops),
`CheckApprove`, `CommitToSvn`, `SubmitSaveOpen`, `SubmitSaveDump`. Prompts are
nondeterministic answers; every `error_exit` is a disjunct that ends the run:
a failing `svn st` in `RecordFilelist` ('Diff files not found',
common.py:128) and in `CheckUploadSubmitConsistency`, and a tcr.py whose
output holds no issue id (upload.py:141 to 149), which can have made the
request on the server all the same.
`CheckDependencyBetweenIssues` is one step although its loop fetches issue
after issue: the files it compares are those of the dict loaded before,
and with one tool at a time nothing falls between two fetches but a
reviewer or a close, which the outcome of a fetch already chooses.
The lint, scan, build and test steps change nothing the model keeps: they
appear as the named outcomes (`PreUploadStops`, `PreSubmitStops`) that end a
run. BUILD files and `blade query --deps` are the relation `DependsOn` over
the files in `Buildable`.

The environment is the developer (`Edit`, at any moment, also between two
steps of a running tool: the build and the tests of submit.py take minutes), the
reviewers (`Approve`), the author closing a request (`Close`), and kills
(`UploadKilled`, `SubmitKilled`) at the points where a kill leaves something
an error exit would not: between the upload and the save, between the commit
and the save, and inside the save. What tcr.py and the repository's commit
hook do on the server (`TcrCreates`, `TcrUpdates`, the state SUBMITED after a
commit with `--crid`) is assumed, since neither is among the sources: an
upload succeeds only on an open request and with at least one modified file.

### Runs

| run | bounds | result |
|---|---|---|
| `review_sequential` | 2 issues (one in the legacy format), 2 files in 2 directories, `--files` absent or naming one file, `MaxRunning = 1`, `MaxEdits = 1`, `MaxKills = 1` | `TypeOK`, `IssueFileTracksUploads`, `RecordedWasUploadedUnlessFailedKilledOrEdited`, `DependencyOrderWarned`, `CommitsTheReviewedFilesUnlessAskedOrEdited` hold (5.5 million states) |
| `review_concurrent` | 2 upload slots, `MaxRunning = 2`, no kill, no edit | `IssueFileTracksUploads` is violated: lost update of the database |

Two issues and two files, one of which is only visible from the root
directory and depends on the other, are the smallest workspace in which an
issue can depend on another one, a path can differ between upload and
submit, and the recorded and current file lists can differ. One edit is
enough to make the lists differ, between two runs or in the middle of one;
one kill is enough to empty the database
file or to leave a commit unrecorded. The runs check safety only and assume
no fairness. No behaviour ends: a new tool run can always be started.

### Findings

1. **Lost update of the issue database** (`review_concurrent`). Both tools
   write back the dict they loaded earlier; the later save wins.
2. **Dependency check on a stale copy**. The warning promised by the
   docstring of `check_dependency_between_issues` is not given for an issue
   recorded after submit.py loaded the database. `DependencyOrderWarned`
   holds in `review_sequential`, where one tool runs at a time; checked
   under the constants of `review_concurrent.cfg` it is violated by a
   submit.py that loaded the database before an upload.py saved.
3. **Failed upload recorded** (`review_sequential`). With `-i`,
   `_get_issue_id` does not look at the upload's result, and the exit status
   of tcr.py is dropped. `RecordedFilelistWasUploaded` in `CodeReview.tla`
   states what the error message of `_get_issue_id` suggests; it fails after
   the seven steps of one `upload.py -i`. What the run checks is
   `RecordedWasUploadedUnlessFailedKilledOrEdited`: between two invocations
   the file list the database holds for an issue is the one on the server,
   except for an issue in `unsynced`. The three ways into `unsynced` are
   needed (without any one of them, TLC finds the invariant violated): the
   failed upload, the kill, and an edit between the `svn st` of tcr.py and
   the one of `_get_upload_diff_filelist` (upload.py:125), which records
   files the server never got. Nothing else brings the two apart while the
   tools run one at a time: no submit.py, no edit between runs, no reviewer. After a kill between tcr.py and `save_issue_info`
   the database keeps the file list of the upload before, and submit.py
   compares the working copy with that one, not with what was reviewed.
4. **The commit takes what is there, not what was checked**
   (`review_sequential`). `check_upload_submit_consistency` compares the
   `svn st` of line 214 with the recorded file list; `svn commit .`
   (line 369) runs after the dependency check and takes whatever is
   modified at that moment. `CommitsTheReviewedFiles` in `CodeReview.tla`
   states that the files of a commit of a recorded issue are those the
   request holds on the server; it fails. What the run checks is
   `CommitsTheReviewedFilesUnlessAskedOrEdited`: the files differ only
   after 'y' to the warning, after an edit of a listed file since the
   check, or for an issue in `unsynced`; each of the three exceptions is
   needed. `DependencyOrderWarned` has the same exception for an edit: a
   file added after the check can depend on an issue nobody was asked
   about.

The model keeps the files of a change, not their contents: an edit of a
file that is already modified changes nothing in `changed`, and the tools,
which compare lists of names, cannot see it either. The approval is
fetched once, in `IssueCommitter.__init__`, and the state of the request
is never looked at: a commit for a request that was closed meanwhile, or
submitted before, goes through in the code and in the model, and no
property is stated about it.

## 4. RecordIO

`RecordLog.tla` is what a RecordIO file promises: a sequence of records
that only grows (`Extend`), readers attached at a record boundary
(`Attach`) that are handed the following records one by one and in order
(`Deliver`). `RecordFile.tla` is the engine behind
`libdynamic_recordio_jna.so`, which is not among the sources and is
modelled from the repository's specification: the file as a sequence of
blocks (`recs`, and `state` partial, full or bad), the writer (`wst`,
`pending`) and a cursor per reader (`rd`). `RecordIO.tla` is `recordio.py`:
one action per method of `RecordWriter` and `RecordReader`, each calling
the entry point the method calls.

| action | code |
|---|---|
| `RecordWriter_init`, `RecordReader_init` | `__init__`: open, `IOError` on a null handle; the reader takes `OpenRecordReader` only for `(start, end) = (-1, -1)` |
| `write_record(data, size)` | `WriteRecord(cast(data), c_int(size))` with `size = len(data)` for -1; `Marshalled` is what the library receives, for a size beyond the str any bytes after it |
| `flush`, `RecordWriter_del`, `RecordReader_del` | `FlushRecordWriter`, `CloseRecordWriter`, `CloseRecordReader` |
| `read_record(r)` | `ReadRecord`; `(False, "")` at the end, at a damaged block and at an incomplete one |
| `Finishes`, `Fails` | the engine completes, or fails to complete, a block append that a write, a flush or the close began |
| `WriterCrash`, `Corrupt(k)` | the writer's process dies (the open block and a half-appended block stay as they are); a block on disk is damaged |

An append is two steps (`BeginAppend`, then `FinishAppend` or
`AppendFails`), so that a reader or a crash can meet a block without its
trailer. Bytes are abstracted: a record is a sequence of at most
`MaxRecordSize` values of `Bytes`, a block takes one unit of offset per
record and one for its frame; compression and checksums appear only as the
block states.

| run | bounds | result |
|---|---|---|
| `recordio_reader` | one writer, one reader, `MaxWrites = 3`, blocks of 2 records, str `''` and `'x'` with size -1, 0, 1, options 0 and 2, one damaged block, crash | `TypeOK`, `RoundTrip`, `ImplementsRecordLog`, `IncompleteTailResumed` hold |
| `recordio_split` | two readers opened on `[0, c)` and `[c, 6)` for c = 0, 2, 3, and on `[-1, 3)`, no damage | `SplitReadersPartition` holds |

Three writes with blocks of two records give a full block, a block closed
by `flush` or `__del__`, and a block left open at a crash; cuts at 0, 2 and
3 fall before, on and inside a block; a start of -1 is what recordio.py
passes when only `end` is given, and the first boundary at or after it is
offset 0. `ImplementsRecordLog` is the
refinement: `log` is `Durable(file)`, `from[r]` the records before the
block the reader was opened at, `out[r]` what it returned. `RoundTrip`: a
whole-file reader opened after the writer was released returns exactly the
accepted records. `IncompleteTailResumed` is checked under `FairSpec`: weak
fairness of `Finishes` (an append that began is completed unless `Fails` or
`WriterCrash` come first, which the property excepts) and of
`read_record(r)` (the caller of a live reader goes on reading until it
releases it, which the property also excepts). Deadlock checking is off:
with the writer released and the readers released nothing is left to do.
`recordio_split` uses the symmetry of the two reader handles (safety only).

`SplitReadersPartition`: two readers opened on adjacent ranges of a
finished, undamaged file and read to their ends return, one after the
other, exactly the accepted records. A reader takes the blocks that start
in `[start, end)` (`FirstBoundary`, `InRange`).

Finding (specification gap, on `recordio_split`): the specification words
the range rule as "stops after the block containing end is consumed" and
promises that disjoint ranges yield every record once. A block that starts
at the cut `c` contains `c`: read as worded, both readers return it.
`InRange` is the half-open reading, which the partition promised in three
places of the specification requires; the reading as worded is
`InRangeWithEnd`, and with it in the place of `InRange` TLC finds
`SplitReadersPartition` violated by the block at the cut.

## 5. The audit: check_submit.py

`CheckSubmit.tla`: `repo` is the svn log, `history` the file
`check_submit.history` (a revision, `Missing`, or `Empty`), `run[p]` the
local variables of a run, `mailed` the revisions some mail has named.

| action | code |
|---|---|
| `ReadHistory(p)` | line 142-144: `int(open(..).read())`, 0 on `IOError`; disabled for an empty file, where `int('')` raises `ValueError` and the run ends where it began |
| `GetInvalidSubmits(p)` | `get_invalid_submits` with `get_logentries` (the listing without its first entry), `is_invalid_submit`, and the test `last_revision > revision` |
| `MailNotify(p)`, `MailFails(p)` | `mail_notify`; `send_mail_html` raising before or after the server took the message |
| `OpenHistory(p)`, `WriteHistory(p)` | line 153 as truncation and write |
| `Killed(p)`, `Commit(c)` | the run dies between two steps; a developer commits |

A log message is the set of marks `is_committed_by_submit_py` looks for, a
path is excepted or not. `audit_cron` (two overlapping runs, three commits,
two failures) checks `TypeOK`, `BypassAuditedAfterOldest` (the stored
revision never passes a commit made without submit.py that no mail named)
and, under `FairSpec`, `AuditResumes` (every such commit is mailed in the
end, unless the history was left empty). Fairness is weak fairness of each
step of a run: cron starts the audit again and again, and a started run
proceeds; kills and mail failures are not fair and are bounded by
`MaxFailures`, so that a behaviour cannot consist of kills only. Deadlock
checking is off because the wedged audit is a state the code can stop in.

Findings: (1) a run that dies between the truncation and the write leaves
an empty history, and every later run ends in `ValueError`: `AuditResumes`
holds only with `Wedged` as a way out, and `BypassEventuallyMailed`, the
same property without it, fails under `audit_cron.cfg`. (2) On `audit_cron`:
`logentries[1:]` drops the oldest revision of the log unseen when there is
no history yet, which is why the invariant speaks of revisions from 2 on.

## 6. The crawler and the extractor: search_baidu.py, search_result_extractor.py

`SearchBaidu.tla` follows `SearchEngine.search` turn by turn: `fill_queue`,
`search_failed` (the query goes back to the end of the queue, the crawler
sleeps), `search_ok` (`add_search_result`, and `save` when the count of
downloads is a multiple of `Batch`), `search_ends` (the save after the
loop). `output_dir` maps the second in a file's name to the queries the
file holds; `save` creates or truncates that file. `SecondPasses` is the
clock of the machine. A download takes at least a second, the save after
the loop takes none.

`SearchResultExtractor.tla` extends the crawler: `extract_starts` is
enabled when the crawl is done, with any `<type>` and with the crawler's
`output_dir`, alone or with an older file, as `search_result_dir`. Then
`next_file` (os.walk, in any order), `line_is_illegal`, `suffix_is_unknown`
(exit at the first legal line), `extract_ads_raises` (the `NameError` of
line 85), `extract_line` (the text into the dictionary, `sr_save` every
`SrBatch` lines), `extract_ends` (the save after the loop). The extractor's
variables carry `sr_`, the name of its object in `__main__`. `truncated`
is a history variable: the queries of a file that a save has opened again
and that the save did not write back. Reading `SrBatch` pages takes more
than a second (two batch saves never share a second); reading fewer can
take less.

`crawl_extract` (`Batch = SrBatch = 2` for 3000 and 10000, keyword files of
up to 4 lines over two queries and the empty line, 2 failed downloads, an
older file with a query, an illegal line or both) checks `SrTypeOK` (the
types and the bookkeeping of both loops; `TypeOK` of the crawler is its
first conjunct), and for the crawler `EveryQuerySavedInTheEnd` (search()
returns, and by then a save has written every query of the keyword file:
none is lost between queue, dictionary and saves, also when its download
fails and it goes back to the queue) and
`PersistedUnlessLastBatchTruncated` (results are missing from the files
only when the count of downloads is a multiple of `Batch`, and then one
batch at most), and for the extractor `ExtractedUnlessLastBatchTruncated`
(when `extract` returns, every query of the directory has a text in a
file, except what the last save truncated). Four lines with two queries
cover repeated queries, an odd and an even count and a count of zero.
Deadlock checking is off because both programs return. 788 thousand
states.

Fairness: `SrFairSpec` assumes weak fairness of the crawler's own steps
(`search`): search() is one sequential process that takes its next step
when it has one. Nothing is assumed of the network; the loop of line 46
has no limit on retries, and a crawl in which a download fails for ever
does not end. The model has no such behaviour: the guard of
`search_failed` bounds the failed downloads by `MaxFailures`, and
`EveryQuerySavedInTheEnd` is a statement about the crawls in which
downloads fail up to that bound. The extractor is started by hand and no
fairness is assumed of it.

Findings: (1) `search_baidu.py:61`: when the last download fills a batch,
the save after the loop opens the file of the same second again and
truncates it. (2) `search_result_extractor.py:69`: the same in the
extractor, and there also when the lines after the last full batch are
read within the second of its save. (3) `search_result_extractor.py:85`:
`match_group(2)` for `match.group(2)`; with `<type>` `ads` the first page
with an advert among the results ends the run.

## 7. The checks of a change: cpplint_diff.py and secure_scan.py

`CpplintDiff.tla`: `main` (`get_diff_files`, `filter_cc_files`,
`find_blade_root_dir`), `cpplint_diff_starts` (`svn diff` and
`svn_diff_added`), `svn_diff_fails`, `cpplint_diff_ends` (cpplint and the
partition of its errors into old and new). `svn_diff_added` is the
recursive operator `modify_block_list` over the lines of a file's diff, the
partition is the recursive operator `judged`, which like the code never
sets the block index `j` back. The properties compare them with
declarative definitions: `AddedLines(body)` numbers the added lines from
the hunk headers, `Covered(blocks)` is the set of lines in blocks.

`lint_diff` takes every well-formed diff body of up to 5 lines in one file
(2 lines in each of two files), with hunks that start at line 1 or 4, and
up to two errors per file in any order: `AddedLinesFoundUnlessRunPrecedes`
and `NewIffInBlock` hold. The first has an exception, which is a finding:
after a run of two added lines the next added line of the hunk is placed
one too low (`common.py:192`), so that `ErrorsOnAddedLinesAreNew`, stated
in the module, fails under `lint_diff.cfg`. Five lines are the shortest
body that shows it: a header, a run of two added lines, a line between and
another added line.

`SecureScan.tla`: `main`, `check` and `scan` with `init_regex`,
`filter_out_exceptions`, `filter_cc_files` and
`_check_forbidden_functions_for_file` as operators. A source line is a
sequence of tokens (a name, `//`, a `//` inside a string literal, another
word); an expression is the name of its line of funcs.txt and whether the
line was whole. `secure_scan` takes every funcs.txt of up to two lines
(empty lines, last line with or without newline) and source lines of up to
three tokens. `ForbiddenUseEndsCheck` and `OnlyForbiddenUseReported` hold
with the exceptions they name, each of which TLC needs: a last line of
funcs.txt without newline loses its last letter (`line[:-1]`), an empty
line matches everything, a `//` in a string literal hides what follows, and
a directory whose name starts with `thirdparty` is skipped.

Both tools run once and stop: no fairness, deadlock checking off.

## 8. The statistics: svn_stat.py

`SvnStat.tla` follows the script entry by entry. `log` is the output of
`svn log` (a sequence of entries with an author, or `NoAuthor`, and a set
of paths), `child` the entry the loop is at, `group_map` the cache of
`get_group`, `author_group_map` the counts, `csv` the file.

| action | code |
|---|---|
| `no_author` | an entry without author element: the loop of line 187 is empty |
| `get_group_cached` | `get_group` answers from `group_map`; the entry is counted (`count`) |
| `get_group`, `urlopen_fails`, `urlopen_answers` | the loop of ten requests; a failure sleeps and tries again; an answer can be empty (`exit`), no JSON (`raised`), `null` or a record with a group and a department |
| `write_csv` | the rows are written when the log is through |

`path_map`, 131 rows in the code, is a table of five rows with the shapes
that matter to the longest-prefix search: a directory and one inside it
that belongs to another group, a name that begins with another name, a
row that is there twice. `longest_match` is the loop of lines 194 to 200
as a fold; the property uses a declarative `Owns`.

`svn_stat` (two users, logs of up to two entries over seven sets of paths)
checks `TypeOK`, `CsvCountsCommits` (the CSV holds, per group of authors
and owning group, the number of commits, each once, under the group the
directory gave for the author the first time) and `RunEnds` (the script
ends) under weak fairness of `Next`: a script that can take a step takes
it, and the directory answers or fails every request. Two entries are
needed for the cache and for a count of two; the seven path sets are the
empty set, an unowned path, the boundary case `/ab` against `/a`, a nested
owner, and pairs of paths of one group and of two. 67 thousand states.

Finding: after ten failed requests `str` was never assigned, and line 172,
which was written to print 'Cannot get group info' and exit, raises
`UnboundLocalError`.

## 9. tools/common: path_walk.py, util.py, hanziTable.py, hanChar.py

`PathWalk.tla`: a path is the sequence of its names, the file system `fs`
a function from the paths that exist to `file`, `dir` or `other` (a
dangling link, a socket). `traverse_path` is a recursive operator that
returns the files or that `os.listdir` raised; the loop of
`traverse_path2` is the action of the same name, one turn per included
path; `parse_skip`, `parse_line` and `parse_ends` are `parse_config_file`
line by line. `Init` is a call of `traverse_path4` (a configuration file)
or of `traverse_path3` (a string of paths, where the empty string gives
the working directory). A line of the configuration file is `Blank` or a
record of its key, the number of its fields, its path and how the path is
spelled; `normalize_path` makes the same path of `/` and `\` spellings and
another of a mixed one.

`Util.tla`: `tables` are the two files of characters, a table the sequence
of its lines, a line `Comment` or the sequence of its fields (a simplified
character and its traditional forms). `import_util` is the module level of
util.py: both tables are read through `getRelation`, and the import ends
in `ready`, in `IOError` (no file) or in `IndexError` (an empty line, of
which `flds[0]` is taken). `Relation` is not in the repository: it is the
set of the pairs added to it, `forwardMap` and `reverseMap` are read off
the pairs. `convert` is a call of `cht2chs`, recorded in `entry`;
`shrink_counter` is the function of that name on `counter`, with the call
recorded in `asked`. `commList`, `prodList`, `han_chs2cht` and
`han_cht2chs` are operators.

`ToolsCommon.tla` puts the two together as the code does: path_walk.py
imports util (line 17), so that a walk starts only after `Import` ended in
`ready`. `script` says what the process is, a caller of path_walk.py or a
dictionary script that converts words and shrinks a counter; the two do
not share state, and a behaviour is one or the other.

`tools_common` takes the 44 well-formed trees over six paths (a directory
with a directory, a file and a link in it, and two files below), the
configuration files of up to three out of eight lines, five path strings
and five exclude lists, each with three pairs of tables (without a fault,
with an empty line, missing); for the dictionary script five pairs of
tables (also a traditional character with two simplified forms, one that
is the simplified form of another, and a table of GB2312 that differs from
the full one), the words of up to two out of four characters, the
dictionaries over four words of frequency 1, 2, 2 and 5, the portions 0,
1/3, 1/2, 1 and 3/2, the frequencies 0, 2 and 6, and two calls of
`shrink_counter` (`MaxShrinks`), so that a dictionary already shrunk is
shrunk again. 608 thousand states. No fairness, deadlock checking off: the
functions return or raise.

* `ListsIncludedFilesOnce`: the include and the exclude list are the
  normalized paths of the lines of two fields read so far, in their order,
  as long as no line of three fields was read (line 56 reports such a line
  as skipped and line 58 goes on to use it: `SkipsWhatItReports`, without
  the exception, fails); and the list of a walk is a declarative definition
  (`Wanted`: the files with the extension that the walk reaches on a way
  without an excluded path), with no file twice although included paths
  overlap.
* `RaisedForAReason` says that the walk raises exactly when there is
  something in its way that cannot be listed, or a line without a path.
* `ShrunkToTheMostFrequent`: after a call the dictionary holds no more
  items than `int(old_size * portion)` and none below `delta`, it let go of
  no item it had room for, and nothing it let go for want of room is more
  frequent than what it kept. The action is the two loops of lines 204 to
  214 (`popped_below`, then `popped_from` over `range(new_size, len)` of a
  sorted copy), the property the docstring; two words of one frequency at
  the cut make the result a choice (`sorted_items`), as the order of a dict
  does. A portion below 0, for which the range starts before the sorted
  copy, is not among the inputs.
* `SimplifiedCharByCharUnlessAmbiguous`: a word whose characters have one
  simplified form at most is converted character by character, the
  traditional characters of GB2312 only with `conv_gbcht`; and with
  `conv_gbcht` the characters of the result are those `hanChar.cht2chs`
  gives, with the characters the table does not know.
* `LibTypeOK` includes that the maps are filled only by an import that
  ended in `ready`.

Findings:

1. `parse_config_file` prints 'Skip error in config file' for a line that
   has not two fields and then uses the line: an Include without a path
   raises `IndexError`, a line of three fields counts with its second field.
2. An empty line in one of the character tables raises `IndexError` in
   `getRelation` when util.py is imported: path_walk.py, which needs util
   only for `uprint`, cannot be imported.
3. `cht2chs` puts all the simplified forms of a character in its place: a
   word with a traditional character of two simplified forms grows by a
   character. `SimplifiedCharByChar` fails under `tools_common.cfg`.
4. `prodList`, by its docstring 'the Cartesian product', returns the other
   list when one list is empty.
5. Met while reading, not modelled: `writeDict` (util.py:161) opens the
   file as `readList` does, with `sopen(filename)` and no mode, and then
   prints to it.

## 10. The package client: pkg_submitter.py

`PkgSubmitter.tla` has one process per `PkgSubmitter` object and the
package server as environment: `versions` is the server's list of the
versions of the package, `content` says whose package a version holds. A
version is its third number, or `Malformed`. `upload_file(s)` and
`submit(s)` begin a call; `request_refused(s)` is an answer with a
`returnValue` other than 0 (the request is repeated, and the tenth refusal
is `sys.exit(-1)`), `request_raises(s)` a failure of `urlopen`,
`json.loads` or `eval`; `upload_answered(s)`, `list_answered(s)` (with
`get_current_version` and `generate_new_version`, which raise for an empty
list and a version without third number) and `submit_answered(s)` are the
answers with `returnValue` 0. What the server does with a version it has
is not known from the repository: the model lets it replace the package or
refuse the request.

`pkg_submit` (two submitters; a server with no version, one, two in order,
two out of order, or a malformed last one) checks `TypeOK`,
`ReplacesOnlyAfterARace` (a step that replaces an existing version is
taken only by a submitter whose list is out of date or out of order) and
`CallEnds` under weak fairness of a submitter's answers: a call that has
begun runs on and every request is answered; beginning a call is not fair.
`urlopen` has no timeout: a server that never answers is outside this
assumption. 25 thousand states.

Finding: nothing ties the two requests of `submit` together; two
submitters that read the same list submit the same version, and the
second package replaces the first.

## 11. The classifier: shuffle.py, corpus_preprocess.py, get_corpus_vocab_vec.py, the training scripts

The scripts share nothing but files, and nothing in the repository runs
them: the developer does, one at a time, in the order the comments ask for
or in another. `Corpus`, `VocabVec` and `Classifier` are an `EXTENDS`
chain; the state of each is the files its scripts write.

| module | state | actions |
|---|---|---|
| `Corpus` | `taxonomy`, `corpus` (the two parts), `label`, `content`, `content_out`, `dataset`; `last` (the script that ran last and how it ended); history `outdated`, bound `shuffles` | `shuffle_main` (the split, with the sample as a choice, or the usage text), `corpus_preprocess` (the whole `__main__`: `load_taxonomy`, `split_label_content` of both parts, `get_corpus_dataset`, the pickle; `IOError` and `IndexError` where the code raises), `text_segmenter_main(part)` (the tool the comment names, which is not in the repository: it writes `Segmented` of every content) |
| `VocabVec` | `word2vec` (the file), `vv_pc`, `fid` (the bytes not yet read), `line_no`, `vocabulary`, `corpus_vocab_vec`, `decode_error_cnt`, `vec` (the pickle); history `loaded` | `vv_open` (the script up to the loop), `vv_word` (one turn of the loop: the word up to the next space, the decode, the vector, the row), `vv_dump` (rows that are no numbers set to zero, the pickle) |
| `Classifier` | `trained` (the script, what it trained on, its scores) | `baseline_cnn_1d`, `cnn_1d_multiconv_w2v` (the files loaded, `nb_classes`, `pad_sequences`, `to_categorical`, the shape of the embedding, `class_weight`, the predictions as any classes, `eval`) |

A line of the corpus is its category (the sequence of its level names),
the number of its fields and its content; a content is a model value, and
`Segmented` gives its words. A word is the sequence of its bytes, a byte
`Space`, `Newline`, `Lead`, `Cont` or a letter: enough to tell where a
word ends in the file, whether it decodes, and whether a unicode object
equals a str in Python 2 (only when all bytes are ASCII). The Tokenizer of
Keras is `word_index` (words by frequency, ties in the order of a dict,
`DictOrder`) and `texts_to_sequences` (indexes below `nb_words` only);
`pad_sequences` keeps the last `maxlen` indexes with zeros in front, as the
defaults of Keras do.

`classifier_pipeline` takes a corpus of eight lines, one for each way
through `split_label_content` (a misspelt category, a plain one, one with
a second level, one whose identifier leaves a gap, `#N/A`, three fields, a
long name, a short content), of which one goes to the test part, split up
to twice (`MaxShuffles`); a taxonomy with and without an empty line; three
words of which one is not ASCII, `vocab_size = max_features = 3`,
`maxlen = 1`; and six word2vec files: whole, with a vector that is no
number, two with a word that does not decode (the bytes of whose vector
are then read as words), one cut short after its first word and one
inside its only vector. 87 thousand states.

* `LabelsBelongToContentsUnlessResplit`: every example of the data set has
  the label its content has in the corpus, unless the data set was made
  from segmented contents of an earlier split (`outdated`).
* `AsciiRowsAreTheVectorsUnlessDecodeErrorOrRebuilt`: the row of an ASCII
  word in the pickled matrix is the vector the file has for it, zero for a
  word the file has not or whose vector is no number; unless a word of the
  file failed to decode, or the data set was rebuilt after the matrix. Of
  a word that is not ASCII the property says nothing: its row stays zero
  (finding 2), against `RowsAreTheVectors`.
* `IndexesAreRowsOfTheEmbedding`: what a script trains on has `maxlen`
  indexes per example, each below `max_features`, the number of rows of
  the embedding. The matrix of vectors not having the shape of the layer
  and a test label from `nb_classes` on are outcomes of `cnn` (Exception,
  IndexError), not part of the property.
* `ScoresLeaveOutTheNegativeClass`: the scores are those of the classes
  from 1 on, computed from the predictions by a declarative definition.
* `LoadEndsUnlessCutShort`: a load of a file that holds as many words as
  its first line says comes to its end, also after decode errors.
* `TypeOK` includes that the loop takes no more turns than the first line
  of the file says, that the matrix has a row for every word asked for,
  and that the data set has as many labels as examples and no example
  without a word.

Fairness: `WF_vars(Load)`, weak fairness of the steps of
get_corpus_vocab_vec.py. It is a running process: a step that is enabled
is taken. The other scripts are started by the developer, who need not
start any: no fairness. Deadlock checking is off, since after
`MaxShuffles` splits and with everything trained the developer may stop.

Findings:

1. After a decode error the vector of the word is not read (line 71,
   `continue`): its bytes are taken for words, and rows are filled from
   wrong offsets. `RowsAreTheVectors` fails.
2. A word that is not ASCII is never found in the vocabulary (a unicode
   looked up among str keys, lines 68 and 74): in a Chinese corpus the
   rows of the Chinese words stay zero. `RowsAreTheVectors` fails for
   this reason too.
3. corpus_preprocess.py reads `.content.out` of the split before beside
   the labels of this one; nothing compares them. `LabelsBelongToContents`
   fails.
4. At the end of a file cut short the loop of lines 61 to 66 appends `''`
   for ever.
5. The comment 'Retain the first *maxlen* words' against `pad_sequences`,
   which by default cuts the first words and keeps the last (read off the
   definition `pad_sequences`; no property is about it).

Assumptions: the two files of shuffle.py are taken for `train.all.new` and
`test.all.new`, which no step of the repository makes of them; the scripts
run one at a time, each to its end, except the load of the vectors, whose
turns are steps (no other script runs during a load, and none after a
load that spins: the developer who ends it by hand is not modelled); Keras
behaves as
the version of the `Graph` model does.

## 12. Not modelled

`cppcheck.py` and `astyle.py` (single passes over their input), the
construction of mails in `send_mail.py`; of util.py `uprint`, `write_list`,
`strip_html` (a pipe to lynx), `readList`, `writeList`, `readDict`,
`writeDict`, and the character lists of hanChar.py, whose I/O goes through
`sopen`, `filterComments` and `parseLines`, modules the repository does not
hold, with `is_chinese_str`, `is_alphabet_str` and `has_alphabet`, which
only apply `zhenc`, not in the repository either; of the classifier the
layers of the networks, the fit and the floating-point values of vectors
and scores (a vector is the sequence of its bytes, a score a pair of
counts). Within the modelled parts: the content of the files of the
working copy (a change is the set of its file names, an edit adds a name to
it or takes one out); withdrawal of an approval; the content of
log messages and mails, and the recipients `to_tencent_email` derives; the build systems behind `blade`, `mvn` and
`buck`; byte-level framing, compression and checksums of RecordIO; hunk
headers without a line number in `svn diff`; the regular expressions of
the extractor; the order in which `os.listdir` names the entries of a
directory; the encoding of the CSV cells of `svn_stat.py`; the text of the
requests of `pkg_submitter.py`.

Of RecordIO three cases stay outside the model because nothing says what
the engine does in them, and the engine's code is not in the repository.
Two writers on one path: the specification requires that "exactly one
Writer handle" appends to a file at a time, with the mutual exclusion left
to the caller, and describes no outcome of breaking that rule; a model of
two writers would check an invention. A lone `end` of -1 of a split
reader: the binding passes `start` and `end` through unchanged, a lone
`start` of -1 is a range that begins at the first block (and is among the
ranges of `recordio_split`), but a lone `end` of -1 is by the rule a range
without a block, and nothing says whether the end of the file was meant.
Compression and
checksum failures: the specification gives both the same outcome, a reader
that is Failed at the block, which is the one state `"bad"` of a block;
two states with equal behaviour would tell no property apart.
