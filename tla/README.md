# Transaction due-diligence assistant: TLA+ models, checks and proofs

The repository is a FastAPI application in one process. Staff upload monthly
summary CSVs, or choose accounts from a folder of Parquet files; each account is
screened by code, explained by an LLM in four calls, and saved as a report. This
directory holds TLA+ models of its concurrent core, the TLC runs that check them,
and TLAPS proofs about them.

## Inventory

| Component | Source | State | Operations | Hard behaviour |
|---|---|---|---|---|
| LLM work queue | `core/llm_work_queue.py` | bounded queue, workers, `_accepting`, `_active`, one future per call | `start`, `submit`, `_worker`, `close` | put timeout against a free slot, cancelled callers, stop tokens in a full queue |
| Batch runner | `core/batch_runner.py` | kept batches, queue of files, status of each file | `submit`, `_run`, `_analyse_file`, `_file_done`, `close`, `as_dict` | order over several workers, eviction, a poll in a thread, cancellation, crash |
| Batch results CSV | `core/batch_results.py` | one file per batch, a write lock | `start`, `record`, `_append`, `resolve` | simultaneous finishes, a writer thread that outlives its worker, failed writes |
| Account analysis | `core/analysis_service.py`, `core/call_timing.py` | four calls with their measures and answers | `analyze_account`, `_ask_and_validate`, `_accepted`, `_build_checks`, `_assessment`, `_timing` | parallel calls, one retry each, partial answers, refused and failed calls |
| LLM client | `adapters/llm_client.py` | an HTTP client | `complete_json`, JSON recovery | truncated, repeated and malformed answers, a stop sequence in the wrong place |
| Screening and facts | `core/monthly_facts.py` | none | medians, unusual transactions, layering, inactive run, bursts and gaps, risk | rounding at a limit, months without transactions, notes that the checks must agree with |
| Loading | `core/summary_loader.py`, `core/reference_data.py` | a cached occupation list | parse, consecutive months, profile versions | year end, order of rows, a cache that is never cleared |
| Report store | `core/report_store.py` | a directory | `save`, `resolve`, `_atomic_write` | crash or power failure between two files, refused write, a thread that outlives its request |
| Account folder | `core/account_folder.py` | one cached scan and its lock | `scan_folder`, `_fingerprint`, `_scan` | files that change before, while and after they are read; several requests at once |
| Routes, start and stop | `api/routes.py`, `main.py` | none of their own | submit, poll, fetch, errors to HTTP, startup, shutdown | no await between submit and header, order of shutdown |
| Results page | `static/results.js` | `batchState`, what is shown | `pollBatch`, `goToPage`, `showBatchPage`, `loadReport` | answers that arrive after the reader moved on |

How they interact: a route calls `BatchRunner.submit` and starts the CSV in one stretch
without an await. A batch worker runs the analysis of its file and then records its row. The
analysis sends each call through the LLM work queue, shared by all accounts, and hands its
assessment to the report store. The page polls the batch in a thread of the server. Shutdown
closes the batch runner first, then the queue.

Except for the poll, the row writer and other threads, this is asyncio code on one
event loop, and an action of a model is a stretch of code between two awaits that
can suspend.

What makes each part correct: the queue executes each accepted call once, bounds the calls
at the LLM, and loses nobody, also while it stops; the batch runner keeps the order and
always shows a true status; the CSV has one row per finished file; the analysis never closes
a case from an incomplete review, asks a call again only when its answer could not be used, and
always ends; the client uses nothing of an answer that the LLM did not complete, and alters
nothing it did complete; the screening compares an account with itself; a request for the
folder gets nothing older than itself; a report is two whole files or nothing that anybody
was told of; the page shows each report under its own name, once, and stops polling when
everything is over; and shutdown takes the parts down in an order in which nobody is left
waiting. `PROJECT.json` lists the hazards behind these, line by line.

## Modules

| Module | Models |
|---|---|
| `OneShotJobs` | What callers of the queue rely on: an abstract specification |
| `LlmWorkQueue` | `llm_work_queue.py`; implements `OneShotJobs` |
| `...Proofs` | The theorems about `LlmWorkQueue`, `BatchRunner`, `AccountAnalysis`, `Service`, `ReportStore`, `AccountFolder`, `ResultsPage`, and (`AlgorithmProofs`) `MonthlyFacts` with `BurstGaps`, `CustomerProfile` and `JsonAnswer` |
| `BatchRunner` | `batch_runner.py`, `batch_results.py` and the routes that submit and poll |
| `AccountAnalysis` | `analysis_service.py` from the parallel calls to the assessment |
| `Service` | `main.py`: instances of `BatchRunner` and `LlmWorkQueue` with the analyses between them, from start to shutdown |
| `ReportStore` | `report_store.py` and, around it, one account's way through `routes.py`; the disk |
| `JsonAnswer` | `llm_client.py` from the text of an answer to an object or an error |
| `MonthlyFacts` | `summary_loader.py` (which months are a whole period) and `monthly_facts.py` (usual level, screening, inactive period) |
| `BurstGaps` | `monthly_facts.py` on bursts and gaps, and the check of an answer about them in `analysis_service.py`; extends `MonthlyFacts` |
| `Sorting` | Python's `sorted()` with a key, as `MonthlyFacts` and `CustomerProfile` use it |
| `CustomerProfile` | The profile versions, as `summary_loader.py` and as `account_folder.py` read them |
| `AccountFolder` | `account_folder.py`, with the occupation list of `reference_data.py` and the folder routes |
| `ResultsPage` | `results.js` for a batch |
| `MC...` | Values for the constants that a configuration cannot write; `MCAccountFile` goes through the files of `BurstGaps` and `CustomerProfile` |

Each module also holds a few definitions marked "Plausible slip": variants of an action with
a bug in it, used to see that the properties would notice. The `TypeOK` of each module says
what its variables hold; it is proved wherever there are proofs, except for one bound of
the page (below), and TLC finds it to hold in the instances of the runs, but it is not among
their properties.

### LlmWorkQueue

`queue` is `_queue` with its work items and stop tokens; `caller[j]` says where the
j-th call of `submit` is (`idle`, `blocked` in the put, `waiting` for its future,
or over); `result[j]` is its future; `running[w]` is what worker w awaits. `submit`
checks and enqueues in one action when there is a slot (`Submit`); otherwise the
caller is blocked until `Admit`, `PutTimeout` or `CancelBlocked`. asyncio lets a
fresh put take a slot before one that was woken, so blocked callers go on in any
order. `CancelWaiting` is the cancellation of a caller that awaits the shielded
future. `TakeStop`, `TakeCancelled` and `TakeJob` are the three things a worker does
with an entry; `Finish` is the return of the operation. `Close` puts as many stop
tokens as fit, `CloseGoesOn` the others, `Join` waits for the workers.

`OneShotJobs` hides the queue: a job is refused, or admitted and then executed at
most once, with at most `Limit` executing. The refinement mapping `Stage` is at the
end of `LlmWorkQueue`.

### BatchRunner

A file is a pair of its batch and position. `status`, `queue`, `kept` are the
program's; `rows` and `header` are what is on disk and survive `Crash` and `Exit`.
`Submit` is the route's `submit`: the batch is kept, the oldest dropped, all files
queued, and the header written or refused by the disk, without anybody in between.
The poll reads one status per action, twice over the files, as `as_dict` does in its
thread (first the counts, then the list). `Close` cancels the workers where they
wait; a worker that is in the write thread leaves the thread behind, which `Unlock`
ends. A worker takes a file, ends its analysis, waits for the lock and writes.

### AccountAnalysis

`given` is the account as the code has prepared it, with the screening's findings.
`stage`, `attempts`, `failed` and `kept` are per call; `asks` is a history of how each
ask came out. The work queue and the LLM client are what can happen to an ask:
`Refused`, `Errs`, `Truncated`, `Malformed`, `Answered`. An answer gives each part that
the validator of the call judges a quality: a full sentence, a label, blank, or
unusable. On the first attempt everything must be full; on the final one only
unusable parts are problems. What the validators look for inside a sentence (a
figure, a month name) becomes a line of issues without any other effect and is left
out. `Gather` collects the three calls and either asks for the summary or assesses;
`Assessed` computes the checks, risk, decision, status and timing in the code's order.

### Service

The variables of `BatchRunner` and `LlmWorkQueue` are variables of this module, and their
actions are conjuncts of its own: a batch worker's analysis is over when `analysis` says so, and
the submits of the queue are the asks of the calls (`Asking`). `stage` is where a call is, as in
`AccountAnalysis` without what the answers hold: an answer is used, rejected and asked again
once, or rejected for good. `Drain` and `StopHandler` are what the web server does when it
stops: no new requests, those under way are finished, then the shutdown handler. The handler
closes the parts one by one in `Order`; `CloseBatches` cancels the account workers, each
cancellation reaches the submits of its analysis one at a time (`Leaves`), and `BatchesClosed`
is the return of `BatchRunner.close`. A submission whose CSV header cannot be written is in
`BatchRunner` only, and so are the poll, crashes and restarts. `PartsAssumption` is what the two
parts assume of their constants, and that an upload is not a file of a batch.

### ReportStore

A request goes through `_analyse_rows` (`phase`) and hands its result to a thread (`writer`),
which creates, writes, syncs and renames a temporary file, first for the JSON and then for the
HTML. `temp` and `published` are on disk, with how much of its content each file has. The disk
may refuse any step: before the sync is over the code does not know the temporary file and
leaves it (`WriteRefused`); a refused rename removes it (`ReplaceRefused`). `Close` cancels the
requests and lets the threads go on; `Crash` ends both. `PowerFailure` also takes what the
code never synced: contents of unsynced files, and, as the directory is not synced, any name
or temporary file. `linked` holds the requests whose links were given out.

### JsonAnswer

`text` is a sequence of characters, which the LLM extends piece by piece until it ends
(`End`) or the loader stops it at a brace (`StopAtBrace`, with `LLM_STOP_AFTER_JSON_OBJECT`
on and a loader that obeys it). `Completed` is what `complete_json` then does: it restores the
brace, merges the objects at the start (`Objects`, `Merged`, `Dumped`), rejects what was cut
before its first object was complete, and otherwise parses the last of the `Candidates` that
is an object. The repairs are operators named after their functions. The decoder of Python's
`json` module is written as one step per character (`Read`); it is external, except that a
repeated key is an error (`KeyEnds`). White space, numbers of more than one digit, the words
`true`, `false` and `null`, and the escapes other than of a quote and a backslash are left
out.

### MonthlyFacts

`file` grows by a row at a time, so that TLC goes through every file. `InOrder` (in `Sorting`) is
Python's `sorted()`, stated by what it does: the positions in the order of their keys, and of their
places where the keys are equal. The figures are what the loader lets pass: it checks that a
count is not below zero, and no amount, nor any amount against a count, so amounts may be below zero
and a month without transactions may have some. They are numbers (a text like `nan`, which Python
also reads as one, is left out). The usual level is a set of at most one amount, and empty without
enough history. The other operators are the functions of the two sources on whole numbers of
cents: `Accepted` and `NextMonth` the loader's check, `Median`, `Usual`, `UnusualMonths` and
`LayeringMonths` the screening, with the rounding to cents, `UnusualNote` the reason given to the LLM
when nothing was found (or the error of a reason that names a usual level there is none of), and
`FindInactivityRun` the latest inactive period.

### BurstGaps and CustomerProfile

`BurstGaps` has the same `file`. `BurstMonths`, `LongGapMonths` and `GapBasis` are the code's
findings, `NoteOutcome`, `ListedNumbers` and `NoteNumbers` what its note tells the LLM, and `Issues` what
staff are told is wrong with an answer. An answer is its outcome, label and months, the numbers its
sentence quotes, and whether it denies a burst or calls the spacing even.

`CustomerProfile` reads customer_info a row at a time. `Timeline` is what the analysis reads of
it, its last version (`Analysed`) what the report shows, `Filtered` what the folder page may filter by,
a version of the latest date (`Latest`). Account numbers are compared as text by the one and
cleaned first by the other, so a row may be of the account under another spelling.

### AccountFolder

A request goes through `scan_folder` in its own thread: `CheckList` (the occupation list, read
once per process), `Glob`, `Stat` (the fingerprints), `TakeLock`, then `ReadFile` for each file and
`Join` with customer_info. `Change` replaces, removes or puts back a file between any two of
these. `since` records what each file has held since a request began, which is what a
scan may contain. All files are stated in one action, and customer_info is read in one.

### ResultsPage

An action is a stretch of the script between two awaits: a click, an answer, the timer. The
poll's answer is computed in the server in two passes, as `as_dict` does. `loading`, `shown`,
`reports` and `data` are the fields of `batchState`; `drawn`, `visible` and `note` are what the reader
sees; `loads` counts the fetches of each report that have not been answered.

## Runs

| Run | Instance | Shows |
|---|---|---|
| `queue` | 3 jobs, 2 workers, 1 slot | `_active`, no duplicates, no loss, shutdown tokens, refinement of `OneShotJobs`; every `submit` comes back, `close` ends |
| `batch_safety` | 2 batches of 2 files, 2 workers, 1 kept | order, rows, polls, final statuses, with eviction, crash and restart |
| `analysis` | 26 accounts, every answer | closing a case, retries, timing, end |
| `service` | a batch of 1 file and 1 upload, 2 parallel calls and a summary with a retry, 1 LLM worker, 1 slot | start to shutdown: nobody stranded or refused, client last, files recorded, shutdown ends |
| `reports` | 2 requests | whole files, links, pages and litter after refusals, crashes and power failures |
| `results_page` | 3 pages, 2 fetches at once before a click | a report is drawn once, another file's goes away, polling reaches the end |
| `account_folder` | 1 account file, customer_info, the list; 2 threads, 2 changes | nothing older than the request, one scan of an unchanged folder, nobody blocked |
| `account_file` | every file of up to 4 rows (4 months, 8 sets of figures), and every customer_info of up to 3 rows | whole periods, usual level, reason, inactive period, issues of an obedient answer, profile version |
| `json_answer` | every answer of up to 5 of 11 pieces, 4 settings | what was cut is not used, what was complete is kept, no value is hidden |
| `broken_value` | up to 3 pieces | violation: a value broken off by the stop sequence is used |
| `wrong_report` | 2 pages | violation: the report of one file under the name of another |
| `note_flagged` | as `account_file` | violation: the note tells the LLM to state a number that is then listed as wrong |

Bounds and why they suffice. `MaxSize` 1 is less than the number of workers of the queue, so
that `close` has to wait for room; three callers fill a worker, the slot and a place among
the blocked, and another worker is free for what is reordered or cancelled. Its safety is
proved for every size (below). The batch instance has two files per batch and two workers so
that files of one batch and of two batches are under way together, and one kept batch so
that the second submission evicts. Its liveness, `EveryFileRecorded`, is checked in
`service`, where the analyses are real, as `FilesRecorded`. Batches are never submitted twice (ids are random).
The analysis needs no bound: a call has at most two asks. Accounts without a profile or
without the retry are all there; with both there are two of the eight, which differ in
everything else (the other findings are independent of the calls and occur in the accounts
without a profile). Three pages are one to be on, one to be loading and one to go to;
`MaxLoads` only keeps the reader from clicking faster than two fetches are answered. Two
changes take a file away and put it back, or change two files around one read. Four months
are the least with a history (three) and one month that stands out, and an even and an odd
number of active months; they span a year end. Two of the sets of figures are such as nothing
checks: amounts without a transaction, and amounts below zero. Three rows of customer_info are two versions
and one that is undated, of another account, or of the same date. Five pieces make two
objects, or one with two members and what follows it. In `service` one batch file and one
upload are the two ways an account comes in, and their four first calls already overfill one
LLM worker and one slot: calls are refused, blocked, waiting, executing and cancelled at
once, at any of the steps of the shutdown. The call about the profile would be a third one
alike, and retries are left to the summary. Two requests in `reports` draw two names at
once; a third would differ from them in nothing. Symmetry is used only in `batch_safety`,
where batches and workers are interchangeable.

Deadlock is checked in the runs of the queue, the batches, the analysis, the service, the
reports and the folder. The page, the reader of a file and the LLM stop by themselves.

Fairness. Tasks that are ready run: weak fairness of each worker, of a caller whose future
is done, of `close`. An operation ends because the HTTP client has a timeout and does not
retry (`_MAX_ATTEMPTS` is 1); so `Finish` is part of the worker's step. The timer of
`wait_for` fires. No caller is obliged to submit, to be cancelled or to win a slot against
its timer, and nothing obliges the application to stop. In the analysis each ask comes back,
which is what `EverySubmitEnds` says of the queue. In the page the timer fires, every fetch
ends, and of polls and fetches that are tried again and again one gets through (strong
fairness); nothing is assumed of clicks or analyses. In the folder threads go on, and a
thread that waits for the lock is not passed over forever. In `Service` no step can be taken
twice, so one weak fairness over everything that goes on by itself says as much as one for
each task. The modules that only read or write files assume nothing.

## Disagreements of the code with its documentation

Each is a run in which TLC shows the behaviour.

- `wrong_report`: with one page drawn, going to another, back, and to it again while its
  report loads shows the first report under the name of the other file: `loadReport` returns
  because the flag says that it is loading, before anything is hidden. It stays until the
  fetch is answered, and for good if that fails after polling has ended. `results.js` says
  one report per page. `WrongOnlyUntilLoaded` bounds it: once the right report has arrived the
  wrong one is gone.
- `broken_value`: `config.py` says that the first } of an answer is its end. One inside a string
  stops the loader as well; the brace that is put back closes nothing, the repairs close the
  string, and a broken value is returned as the answer.
- `note_flagged`: the note at the end of the timing prompt words its findings with the levels they
  are measured by ("25.0% burst share", "60 days or more") and tells the LLM to state them. The
  docstring of `allowed_burst_gap_numbers` says that its set is every number the sentence may quote,
  and neither level is in it, so a sentence that repeats the note is listed for staff as quoting
  a figure that is not of its months. `ObedientAnswerIsClean` bounds it: an answer that follows
  the note and quotes only the figures it lists has no issues.

Observed while modelling, without a run of its own:

- A batch is evicted while it is still queued or analysed; the 404 then says that batches
  are cleared on a restart. The model evicts the same way.
- `analysis_service.py:295` says that the other check of an incomplete answer is kept. On the
  final attempt only burst and gaps can be a problem of call 2, and then the whole answer is
  rejected, so the branch that keeps the other check is never taken.
- A comment in `unusual_transaction_note` (`monthly_facts.py:173`) says that the note gives the real
  reason. `_largest_single` takes the largest amount of all months and the screening only looks at
  those with transactions, and the loader accepts an amount in a month without any. The
  note then says that the amount was under so many times a usual level that it reached, or
  formats a usual level that is `None`, a TypeError that fails the analysis. `UnusualReasonHolds`
  bounds it: when a month with transactions has the largest amount the reason is real.
- The note for finding no layering (`monthly_facts.py:199`) omits the least amount among the reasons.
- `_times` rounds, so a note can say "2.0 times" of a month that is under 2 times.
- In the page: a report that failed to load after polling has ended is not fetched again
  until the reader goes away and back; a late failure replaces the placeholder of another
  page; a poll whose body breaks off leaves no statuses until the next; any answer clears the
  flag, so a report can be fetched twice.
- In the folder: files that are missing look alike in a fingerprint, so a scan can be reused
  for a request that finds a file missing again although the scan read it while it was back
  (`FreshScan` excludes this and says so). The occupation list is read once per process: a new
  list makes a new scan with the old labels, and a list that was missing once refuses every
  request until a restart.
- The README and `.env.example` promise HTTP 503 for a full queue. The analysis collects that
  error like any other (`analysis_service.py:209`, 574) and returns an assessment that needs
  review; the handlers in `routes.py` for it are never reached from an analysis. The
  answer shows the call as not run (`TimingHonest`), and the case is not closed
  (`ClosedOnlyWhenWhole`).
- `models.py:12` says that the risk is `not_assessed` when the summary failed. The code always
  takes the risk of the screening.
- In the report store: an `OSError` while saving is reported as a file that could not be read
  (`routes.py:100`); a write refused before its sync is over leaves its temporary file, because the
  path is assigned last (`report_store.py:68`); a refused HTML leaves a JSON that nothing
  leads to; and the directory is never synced, so a power failure can take a report whose links
  were given out.
- `latest_profiles` says that it takes the version the analysis reads. It cleans account numbers
  that the analysis compares as text (`summary_loader.py:139`), so an account that is spelled
  with padding is filtered by a profile the analysis does not find; and two versions of one
  date are sorted by a sort that need not keep their order. `SameVersion` bounds it: when a
  version of the latest date has the number spelled plainly, the analysis reads a
  version of that date, one that the page may filter by.
- An answer about bursts and gaps whose outcome contradicts the note is not listed as an issue,
  unless its sentence says so in words that are looked for (`analysis_service.py:376`).
- `monthly_facts.py:430` names `RISK_SIGNALS` among the users of the burst level; it has no such use.
- In the folder page the range and citizenship can be edited while a batch is being submitted,
  which enables the button again (`folder.js:107`), so the batch can be submitted twice.

## Proofs

Every safety property of a passing run is proved for all values of the constants, except
`NoValueHidden` (below). Each proof rests only on the named assumption about
constants of its module, which TLC evaluates in the runs, and has the same form: an inductive
invariant (`IInv`, or its parts) that holds initially and is kept by every action, one
step or lemma per action, and implies the properties. TLC was asked first whether each `IInv` holds.
Every module of proofs but `ResultsPageProofs` also proves type correctness (`TypeCorrect`), which
the rest needs.

### LlmWorkQueueProofs

For any set of jobs, any finite set of workers and any capacity of at least one: capacity
(`CapacityRespected`), the count of active operations and its bound (`ActiveCounted`),
`NeverDuplicated`, `NoServiceAfterRefusal`, `NothingLost`, `AdmittedServedOnce` (no job is in two
places, and a caller that waits has its job in one), `StrandedWereBlocked`, `EveryWorkerStopped`,
the action property `LeftIsNotSent`, and that the queue implements `OneShotJobs` (`PromiseKept`).
The promise is also said without its actions, as two action properties of the abstract queue:
a job only goes forward (`AtMostOnce`), and an outcome comes out of an execution and is not
replaced (`OutcomeStands`). Through the refinement both hold of the real queue
(`ExecutedAtMostOnce`, `OutcomeStands`). None of these is inductive alone; the inductive invariant is the conjunction of four.

- `Counted` is `TypeOK`, `WithinCapacity` and `ActiveIsExact` with "there are never more
  stop tokens still to put than workers". The count needs that the busy workers are a
  finite set, so that a slot given back is one that was taken.
- `Placed` says where each job is: at most once in the queue or at a worker; if it is
  there, its caller was admitted and its future is pending or cancelled; a caller not yet
  admitted has a pending future; a caller that still waits on a pending future has its
  job in the queue or at a worker.
- `Orderly` is about the shutdown: the queue accepts only while running; every worker is
  alive while it runs and none when it is closed; a busy worker is alive; no stop token is
  queued before `close`; and a job behind a stop token, or left once a worker has gone,
  is one whose caller was blocked in `put` when `close` began.
- `StopsMatch` counts the stop tokens, in the queue and still to put, against the workers that
  are alive. It needs that a worker that takes a token goes, and that `put` adds one each.

The refinement maps each action to one of `OneShotJobs` or to a stutter. `TypeCorrect`,
`CapacityRespected`, `NoServiceAfterRefusal` and `LeftIsNotSent` have no run; `NeverDuplicated` and
`NothingLost` are the parts of `ServedOnce`, which the run `queue` checks.

### BatchRunnerProofs

For any batches, any batch size, any finite set of workers and any number of batches kept, through
cancellations, crashes and restarts: `StartedInOrder`, `FinalStaysFinal` (an action property),
`RecordedOnce` and `FinishedPollComplete`. `IInv` says of a file where it is: `Waiting` (a queued
file is in the queue; the queue is in order and closed upwards, which is why nothing can start
before an earlier file), `InHand` (a file is held by one worker, and is then out of the queue),
`Recorded` (it gets its row when it leaves that hand, and no earlier, which is why there is one
row). `PollHonest` says that what the poll has counted as final is so still: the two passes
of `as_dict` can then only differ in what was not final.

### AccountAnalysisProofs

For any account and any outcome of any ask: `ClosedFromWholeReview`, `RetriesAreBounded`,
`TimingTrue`.
`IInv` ties the measure of a call to its history and its answer (`CallAgrees`), says which calls
can still be out (`InPhase`), and that nothing an assessment was made from changes after it
(`AssessmentStands`); the properties then follow from what `Assessed` computes. For the
retries `RInv` adds what the history of a call is by where the call is (`RetriedWell`): while it is
asked, nothing or, with the retry on, one unfit answer; and when it is used after one ask, with the
retry on, a full answer.

### ServiceProofs

For any number of batches, uploads, workers and calls. `QueueImplemented` and `BatchesImplemented`
show, action by action, that with the queue and with the batch runner the service only does what
each may do alone. So what is proved of them alone holds here: `PromiseKeptInService`,
`ExecutedAtMostOnceInService` (no call of an analysis reaches the LLM twice) and
`RecordedOnceInService` are instances of their theorems, and the proof about the shutdown starts
from their types, `Orderly` and `InHand`. `ShutdownStrandsNobody`, `NoCallRefused` and
`NoCallWithoutClient` then need an invariant about what lies between the two: a caller that waits
does so for a call its analysis is making (`OpenIsAsked`), an analysis that is over has none
(`StagesFit`), one of a batch file goes on only as long as a worker has the file in hand (`Held`),
and the shutdown begins when the uploads are over and closes one part after another (`InOrder`).
Without the last three the queue may be closed under a caller, as `OnlyBlockedAtCloseStranded`
allows.

### ReportStoreProofs

For any finite set of requests and at least as many names, wherever the disk refuses and whenever
the process dies or the power fails: `NamedFilesAreWhole`, `LinksAreGood`, `PageIsOfASave`,
`LitterExplained`. `IInv` says that no two saves have one name (`NamesApart`), how far the temporary
file is by the thread's next step (`TempInStep`), that only synced files are named
(`NamedWhenSynced`), that the page comes last and its request is then not failed (`PageLast`), and
that a thread without trouble has one temporary file (`OneTemp`).

### AccountFolderProofs

For any number of files, requests and changes: `ScanIsFresh` and `ScannedOnce`. A request that finds
its own fingerprints in the cache is handed a scan it did not make. `CacheAgrees` and `ReadsAgree`
say of what was read under a key that it is of just the keyed content as long as the file has it,
and otherwise something every request with that key may be told; `Past` says that a content that has
gone does not come back. `OneKey` says that until the first change all requests take one key.

### ResultsPageProofs

For a batch of any size and any number of fetches under way: `WrongReportGives` and `ReadInPeace`.
`ShownIsDrawn` ties what the page remembers (`shown`) to what is to be seen. `TypeOK` is not
proved here: its bound on `loads` (`MaxLoads`) is about a sum over the pages. The proof does
without it.

### AlgorithmProofs

For a period of any length, any months, figures and settings: the properties of `MonthlyFacts` and
`BurstGaps`, `WholePeriodsTaken`, `LatestInactivityFound`, `ReasonIsReal`, `FewStandOut` and
`ObedienceIsClean`. The files are arbitrary, so the only invariant is `TypeOK`; the work is in
what the operators compute. `OrderFacts` shows of `InOrder` that the positions come out each once
and in order: no two have the same number of positions up to them, so each number is that of one
position. `EndsFacts` takes the least element of a finite set from it, and with that the
inductions over months are made on sets (the first month that is wrong). `ReasonIsReal`
is about files in which a month with transactions has the largest amount (the reason
can be wrong in the others, above). `FewStandOut` has no hypothesis: it is about the
months found that are above the usual level, of which there are few by the choice of the median
(`FewAboveMedian`). Apart from that it says that with a factor above one all that is found is above
it, except a layering month without a total. With a factor of one or less, which the
configuration allows, every month can be found.

`SameVersionRead` is the same sort used on the profile versions (`TimelineFacts`: the last version of
the timeline is one that no other follows), where one of the latest date has the number spelled
plainly (the folder page and the analysis can disagree about the others). The rows are arbitrary there too, so that its invariant is
their type (`ProfileTypeCorrect`).

For an answer of any length, written in any pieces, and every setting: `NothingCut` and
`FirstObjectKept`. The invariant (`AnswerInv`) only says that the text is one and that what it was
completed to is honest; the work is in what `Completed` computes (`CompletedIsHonest`). What is
recursive there is recursion over the places of a text, and its inductions are made on the set of the
places that something holds of (`Least`, `Induction`). The argument has four parts.

- While the decoder is in the outermost object (`Decoders`), each character keeps it there, is an
  error, or ends the object (`ReadType`). So an object is what `Whole` says, and it does not depend on
  what follows it (`SameStart`, `SameObject`): restoring a brace after it changes nothing.
- In a whole object the places and brackets that the repairs count are those of the decoder
  (`WholeStructure`, `DepthOfText`, `WholeIsBalanced`). So each repair leaves a text that is an object from end to
  end as it is, and `Parsed` gives its members (`WholeTextIsItsObject`).
- A value and a key are read alike wherever they stand (`ReadValue`, `ReadKey`, from `ReadAlike` for
  one character), and the members of an object have valid keys and values, with no key twice
  (`ObjectIsValid`, by the invariant `Known` of the decoder). So what `Dumped` writes is an object with
  just these members (`DumpedIsWhole`).
- `Merged` keeps of each key the first member, and no other (`MergedFacts`); the objects at the start
  stand in the text, and the one it begins with is the first (`ObjectsFacts`).

### Only model-checked

- All liveness (`EverySubmitEnds`, `CloseEnds` and the like) and deadlock freedom: liveness under
  fairness is out of the prover's reach.
- `NoValueHidden`: it is about every text that the repairs turn into an object, not only about those
  that they leave alone, and would need what each of them makes of a text that is broken anywhere.
- The bound of `TypeOK` in `ResultsPage`.

## Not modelled

The wording of prompts, facts, reports and pages; logging; configuration parsing; the
HTTP protocol; durations and token counts; the cells of a file; the evidence tables; the
figures and month names in the sentences of calls 1, 3 and 4; the pages that only send a form.
What is left of `monthly_facts.py` and `prompts.py` lays values out as text, and of
`report_store.py` renders HTML: there is no state and no decision in it that a model would show.

## Plan

1. Done: the queue with its proofs, the batch runner, the analysis, the answers of the LLM, the
   monthly facts with bursts and gaps, the profile versions, the folder, the page, the report
   store, and the service as a whole.
2. Done: the inductive invariants and the theorems above.
3. If the service is to be checked on larger instances, `OneShotJobs` in place of the queue.
