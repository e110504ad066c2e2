---------------------------- MODULE BatchRunner ----------------------------
(***************************************************************************)
(* Batches of accounts (app/core/batch_runner.py), the results CSV written *)
(* next to them (app/core/batch_results.py), and the routes that submit    *)
(* and poll a batch (app/api/routes.py).                                   *)
(*                                                                         *)
(* submit() and the account workers run on one event loop, so an action is *)
(* a stretch of their code between two awaits.  The status poll is a plain *)
(* function: it runs in a thread of its own and reads one file's status at *)
(* a time while the loop goes on.  The CSV is on disk and survives the     *)
(* process; everything else is lost with it.                               *)
(***************************************************************************)
EXTENDS Naturals, Sequences, FiniteSets

CONSTANTS
  Batches,    \* The batch ids that can be drawn.
  BatchSize,  \* The number of files of a batch.
  Workers,    \* The account workers (BATCH_ACCOUNT_CONCURRENCY of them).
  MaxKept,    \* BATCH_KEEP_RECENT.
  None        \* No batch, or no file.

ASSUME BatchAssumption ==
  /\ BatchSize \in Nat \ {0}
  /\ MaxKept \in Nat \ {0}
  /\ IsFiniteSet(Workers) /\ Workers # {}
  /\ None \notin Batches \cup (Batches \X (1..BatchSize))

VARIABLES
  lifecycle,  \* "up", "closing" (close() has cancelled the workers) or "down".
  submitted,  \* History: the batches submitted so far, in order.
  kept,       \* _batches: the batches the status page can find, oldest first.
  status,     \* The status of each file; "none" when this process has no such file.
  queue,      \* _queue: the files waiting for a worker.
  at,         \* Where each worker is.
  job,        \* The file each worker has in hand.
  header,     \* On disk: the batches whose CSV has its header.
  rows,       \* On disk: the rows of each batch's CSV.
  refused,    \* History: batches whose POST ended in an error after submit().
  unrecorded, \* History: files whose row could not be written.
  poll        \* The status poll under way.

workerVars == <<at, job>>
diskVars == <<header, rows, unrecorded>>
vars == <<lifecycle, submitted, kept, status, queue, workerVars, diskVars, refused, poll>>

Positions == 1..BatchSize
Files == Batches \X Positions
Final == {"done", "failed"}
Status == {"none", "queued", "analysing"} \cup Final

NoPoll == [batch |-> None, counted |-> <<>>, listed |-> <<>>]

TypeOK ==
  /\ lifecycle \in {"up", "closing", "down"}
  /\ submitted \in Seq(Batches)
  /\ kept \in Seq(Batches)
  /\ status \in [Files -> Status]
  /\ queue \in Seq(Files)
  /\ at \in [Workers -> {"get", "analysing", "lock", "writing", "gone"}]
  /\ job \in [Workers -> Files \cup {None}]
  /\ header \subseteq Batches
  /\ rows \in [Batches -> Seq([position : Positions, status : Final])]
  /\ refused \subseteq Batches
  /\ unrecorded \subseteq Files
  /\ poll \in [batch : Batches \cup {None}, counted : Seq(Status), listed : Seq(Status)]

Init ==
  /\ lifecycle = "up"
  /\ submitted = <<>>
  /\ kept = <<>>
  /\ status = [f \in Files |-> "none"]
  /\ queue = <<>>
  /\ at = [w \in Workers |-> "get"]
  /\ job = [w \in Workers |-> None]
  /\ header = {}
  /\ rows = [b \in Batches |-> <<>>]
  /\ refused = {}
  /\ unrecorded = {}
  /\ poll = NoPoll

Has(s, e) == \E i \in 1..Len(s) : s[i] = e

-----------------------------------------------------------------------------
(* submit(), with the header of the results CSV *)

\* The newest MaxKept batches, finished or not.
KeepRecent(s) == SubSeq(s, IF Len(s) > MaxKept THEN Len(s) - MaxKept + 1 ELSE 1, Len(s))

\* The batch is put in memory, and all its files, in order, in the queue; a file
\* rejected at upload is queued too, as failed.
Enqueue(b, rejected) ==
  /\ lifecycle = "up"
  /\ ~Has(submitted, b)
  /\ submitted' = Append(submitted, b)
  /\ kept' = KeepRecent(Append(kept, b))
  /\ status' = [f \in Files |->
       IF f[1] # b THEN status[f] ELSE IF f[2] \in rejected THEN "failed" ELSE "queued"]
  /\ queue' = queue \o [p \in Positions |-> <<b, p>>]
  /\ UNCHANGED <<lifecycle, workerVars, rows, unrecorded, poll>>

\* The header is on disk before any worker takes a file; when it cannot be
\* written the request fails, and the files stay queued.
Submit(b, rejected) ==
  /\ Enqueue(b, rejected)
  /\ \/ header' = header \cup {b} /\ UNCHANGED refused
     \/ refused' = refused \cup {b} /\ UNCHANGED header

-----------------------------------------------------------------------------
(* The workers *)

\* A worker gets the oldest file of the queue, and goes on at step.
Get(w, step) ==
  /\ lifecycle = "up"
  /\ at[w] = "get" /\ queue # <<>>
  /\ queue' = Tail(queue)
  /\ at' = [at EXCEPT ![w] = step]
  /\ job' = [job EXCEPT ![w] = Head(queue)]
  /\ UNCHANGED <<lifecycle, submitted, kept, diskVars, refused, poll>>

\* Plausible slip: a file that was rejected at upload is analysed all the same.
StartUnchecked(w) ==
  /\ Get(w, "analysing")
  /\ status' = [status EXCEPT ![Head(queue)] = "analysing"]

\* Plausible slip: the worker takes the newest file.
StartNewest(w) ==
  LET last == queue[Len(queue)]
  IN  /\ lifecycle = "up" /\ at[w] = "get" /\ queue # <<>>
      /\ status[last] = "queued"
      /\ queue' = SubSeq(queue, 1, Len(queue) - 1)
      /\ at' = [at EXCEPT ![w] = "analysing"]
      /\ job' = [job EXCEPT ![w] = last]
      /\ status' = [status EXCEPT ![last] = "analysing"]
      /\ UNCHANGED <<lifecycle, submitted, kept, diskVars, refused, poll>>

StartFile(w) ==
  /\ Get(w, "analysing")
  /\ status[Head(queue)] = "queued"
  /\ status' = [status EXCEPT ![Head(queue)] = "analysing"]

\* A file rejected at upload only gets its row.
TakeRejected(w) ==
  /\ Get(w, "lock")
  /\ status[Head(queue)] = "failed"
  /\ UNCHANGED status

\* The analysis returns a report, or fails in a way the file shows; the worker
\* then waits for the lock of the CSV.
EndAnalysis(w, outcome) ==
  /\ lifecycle = "up" /\ at[w] = "analysing"
  /\ at' = [at EXCEPT ![w] = "lock"]
  /\ status' = [status EXCEPT ![job[w]] = outcome]
  /\ UNCHANGED <<lifecycle, submitted, kept, queue, job, diskVars, refused, poll>>

Writing == {w \in Workers : at[w] = "writing"}

Lock(w) ==
  /\ lifecycle = "up" /\ at[w] = "lock"
  /\ Writing = {}
  /\ at' = [at EXCEPT ![w] = "writing"]
  /\ UNCHANGED <<lifecycle, submitted, kept, status, queue, job, diskVars, refused, poll>>

\* The writer lets go of the lock; its worker was perhaps cancelled meanwhile.
Unlock(w) ==
  /\ at[w] = "writing"
  /\ at' = [at EXCEPT ![w] = IF lifecycle = "up" THEN "get" ELSE "gone"]
  /\ job' = [job EXCEPT ![w] = None]
  /\ UNCHANGED <<lifecycle, submitted, kept, status, queue, header, refused, poll>>

RowOf(f) == [position |-> f[2], status |-> status[f]]

\* Plausible slip: an append that failed half-way is tried again.
AppendTwice(w) ==
  LET b == job[w][1]
  IN  /\ Unlock(w)
      /\ rows' = [rows EXCEPT ![b] = @ \o <<RowOf(job[w]), RowOf(job[w])>>]
      /\ UNCHANGED unrecorded

\* The thread appends the row.  Cancelling the worker does not stop the thread.
AppendRow(w) ==
  LET b == job[w][1]
  IN  /\ Unlock(w)
      /\ rows' = [rows EXCEPT ![b] = Append(@, RowOf(job[w]))]
      /\ UNCHANGED unrecorded

\* The row cannot be written; that is logged and the worker goes on.
AppendFails(w) ==
  /\ Unlock(w)
  /\ unrecorded' = unrecorded \cup {job[w]}
  /\ UNCHANGED rows

-----------------------------------------------------------------------------
(* The status poll: Batch.as_dict() in a thread *)

PollBegins(b) ==
  /\ lifecycle = "up"
  /\ poll = NoPoll
  /\ Has(kept, b)
  /\ poll' = [NoPoll EXCEPT !.batch = b]
  /\ UNCHANGED <<lifecycle, submitted, kept, status, queue, workerVars, diskVars, refused>>

\* Read the next file's status into one of the two fields of the poll.
ReadInto(seen) ==
  /\ lifecycle = "up"
  /\ poll.batch # None
  /\ Len(poll[seen]) < BatchSize
  /\ poll' = [poll EXCEPT ![seen] = Append(@, status[<<poll.batch, Len(@) + 1>>])]
  /\ UNCHANGED <<lifecycle, submitted, kept, status, queue, workerVars, diskVars, refused>>

\* First the statuses are counted, which decides "finished" ...
PollCounts == ReadInto("counted")

\* Plausible slip: the files are listed first.
ListEarly == ReadInto("listed")

\* ... and then they are listed.
PollLists == Len(poll.counted) = BatchSize /\ ReadInto("listed")

PollEnds ==
  /\ poll.batch # None
  /\ Len(poll.counted) = BatchSize /\ Len(poll.listed) = BatchSize
  /\ poll' = NoPoll
  /\ UNCHANGED <<lifecycle, submitted, kept, status, queue, workerVars, diskVars, refused>>

-----------------------------------------------------------------------------
(* The process *)

\* close(): every worker is cancelled where it waits; a file being analysed keeps
\* its status, and a thread that is writing a row goes on.
Close ==
  /\ lifecycle = "up"
  /\ lifecycle' = "closing"
  /\ at' = [w \in Workers |-> IF at[w] = "writing" THEN "writing" ELSE "gone"]
  /\ UNCHANGED <<submitted, kept, status, queue, job, diskVars, refused, poll>>

\* The memory of the process is gone.
Stopped ==
  /\ lifecycle' = "down"
  /\ kept' = <<>>
  /\ status' = [f \in Files |-> "none"]
  /\ queue' = <<>>
  /\ at' = [w \in Workers |-> "gone"]
  /\ job' = [w \in Workers |-> None]
  /\ poll' = NoPoll
  /\ UNCHANGED <<submitted, diskVars, refused>>

\* The process ends when its threads have.
Exit == lifecycle = "closing" /\ Writing = {} /\ Stopped

Crash == lifecycle = "up" /\ Stopped

Restart ==
  /\ lifecycle = "down"
  /\ lifecycle' = "up"
  /\ at' = [w \in Workers |-> "get"]
  /\ UNCHANGED <<submitted, kept, status, queue, job, diskVars, refused, poll>>

-----------------------------------------------------------------------------

WorkerStep(w) ==
  \/ StartFile(w) \/ TakeRejected(w)
  \/ \E outcome \in Final : EndAnalysis(w, outcome)
  \/ Lock(w) \/ AppendRow(w) \/ AppendFails(w)

PollStep == (\E b \in Batches : PollBegins(b)) \/ PollCounts \/ PollLists \/ PollEnds

Next ==
  \/ \E b \in Batches, rejected \in SUBSET Positions : Submit(b, rejected)
  \/ \E w \in Workers : WorkerStep(w)
  \/ PollStep
  \/ Close \/ Exit \/ Crash \/ Restart

Spec == Init /\ [][Next]_vars

-----------------------------------------------------------------------------
(* Safety *)

\* The place of a batch in the order of submission.
Turn(b) == CHOOSE i \in 1..Len(submitted) : submitted[i] = b

Before(f, g) == Turn(f[1]) < Turn(g[1]) \/ (f[1] = g[1] /\ f[2] < g[2])

\* Accounts start in upload or list order, across batches and workers: a file is
\* never under way, or reported on, while an earlier one still waits.
StartInOrder ==
  \A f, g \in Files : status[f] # "none" /\ status[g] # "none" /\ Before(f, g) =>
    ~(status[f] = "queued" /\ status[g] \in {"analysing", "done"})

\* A status that the page has shown as final never changes again while the
\* process lives.
FinalIsFinal ==
  [][\A f \in Files : status[f] \in Final /\ lifecycle' # "down" => status'[f] = status[f]]_vars

\* The CSV on disk tells what the page tells: a file has at most one row, with the outcome
\* shown for it, through evictions, cancelled workers, crashes and restarts; and while
\* the process is up a finished file has that row, unless the disk refused it or it is on
\* its way there.  A file rejected at upload is not forgotten either.
OneRowPerFile ==
  \A f \in Files :
    LET own == {i \in 1..Len(rows[f[1]]) : rows[f[1]][i].position = f[2]}
    IN  /\ Cardinality(own) <= 1
        /\ \A i \in own : status[f] \in {"none", rows[f[1]][i].status}
        /\ lifecycle = "up" /\ status[f] \in Final /\ own = {} =>
             \/ f \in unrecorded
             \/ Has(queue, f)
             \/ \E w \in Workers : at[w] \in {"lock", "writing"} /\ job[w] = f

\* A poll that says "finished", after which the page stops polling, lists no
\* file as waiting or under way, although the files move on between the two passes.
FinishedPollIsComplete ==
  /\ Len(poll.counted) = BatchSize
  /\ \A i \in Positions : poll.counted[i] \in Final
  => \A i \in 1..Len(poll.listed) : poll.listed[i] \in Final

(* Liveness *)

\* While the process stays up, every submitted file is finished and recorded, or its row
\* is reported as not written.  It takes the queue under the analyses to promise it: see
\* Service.
EveryFileRecorded ==
  \A f \in Files : status[f] # "none" ~>
    \/ f \in unrecorded
    \/ \E i \in 1..Len(rows[f[1]]) : rows[f[1]][i].position = f[2]
    \/ lifecycle # "up"
=============================================================================
