------------------------------- MODULE Service -------------------------------
(***************************************************************************)
(* The application as main.py puts it together: the batch runner, the      *)
(* analyses it and the single uploads start, the LLM work queue they all   *)
(* share, and the order in which shutdown closes the parts.                *)
(*                                                                         *)
(* BatchRunner and LlmWorkQueue are instantiated with variables of this    *)
(* module, and their actions are taken as they are.  An analysis is what   *)
(* AccountAnalysis says of its calls, without what the answers hold; its   *)
(* submits, returns and cancellations are those of the queue.  The call    *)
(* about the profile is one more parallel call and is left out.            *)
(***************************************************************************)
EXTENDS Naturals, Sequences, FiniteSets

CONSTANTS
  Batches, BatchSize, AccountWorkers, MaxKept, None,  \* See BatchRunner.
  LlmWorkers, MaxSize, Stop, Free,                    \* See LlmWorkQueue.
  Uploads,   \* The single uploads (POST /analyze-file).
  Pattern,   \* The calls asked at the same time.
  Retried    \* The calls that are asked once more when their answer is rejected.

ASSUME ServiceAssumption ==
  /\ IsFiniteSet(Pattern) /\ Pattern # {} /\ "summary" \notin Pattern
  /\ Retried \subseteq Pattern \cup {"summary"}
  /\ IsFiniteSet(Uploads)

VARIABLES
  batchLife, submitted, kept, status, files, at, job, header, rows, refused, unrecorded, poll,
  queueLife, accepting, jobs, stopsLeft, alive, running, active, caller, result, blockedAtClose,
  server,    \* "starting", "up", "draining" (no new requests) or "stopping".
  closed,    \* The parts whose close() has returned.
  analysis,  \* How far the analysis of each account is.
  stage      \* Where each call of each analysis is.

Files == Batches \X (1..BatchSize)
Accounts == Files \cup Uploads
Calls == Pattern \cup {"summary"}
Asks(c) == IF c \in Retried THEN 2 ELSE 1
Jobs == {j \in Accounts \X Calls \X (1..2) : j[3] <= Asks(j[2])}

Batch == INSTANCE BatchRunner WITH
  Workers <- AccountWorkers, lifecycle <- batchLife, queue <- files

Queue == INSTANCE LlmWorkQueue WITH
  Workers <- LlmWorkers, lifecycle <- queueLife, queue <- jobs

\* The parts are as each of them assumes, and an upload is none of the batch files.
ASSUME PartsAssumption ==
  /\ Batch!BatchAssumption
  /\ Queue!QueueAssumption
  /\ Uploads \cap Files = {}

batchVars == <<batchLife, submitted, kept, status, files, at, job, header, rows, refused, unrecorded, poll>>
queueVars == <<queueLife, accepting, jobs, stopsLeft, alive, running, active, caller, result, blockedAtClose>>
serverVars == <<server, closed>>
analysisVars == <<analysis, stage>>
vars == <<batchVars, queueVars, serverVars, analysisVars>>

Over == {"used", "failed"}

TypeOK ==
  /\ Batch!TypeOK
  /\ Queue!TypeOK
  /\ server \in {"starting", "up", "draining", "stopping"}
  /\ closed \subseteq {"batches", "queue", "client"}
  /\ analysis \in [Accounts -> {"none", "calls", "summary", "over", "cancelled"}]
  /\ stage \in [Accounts \X Calls -> {"idle", "asked", "left"} \cup Over]

Init ==
  /\ Batch!Init
  /\ Queue!Init
  /\ server = "starting"
  /\ closed = {}
  /\ analysis = [a \in Accounts |-> "none"]
  /\ stage = [k \in Accounts \X Calls |-> "idle"]

-----------------------------------------------------------------------------
(* Batches *)

\* A batch is submitted by a request.  A header that cannot be written makes no
\* difference to the workers, and is left out.
Submit(b, rejected) ==
  /\ server = "up"
  /\ Batch!Submit(b, rejected) /\ UNCHANGED refused
  /\ UNCHANGED <<queueVars, serverVars, analysisVars>>

\* A worker starts a file, or does what follows its analysis.
AccountWorker(w) ==
  /\ Batch!StartFile(w) \/ Batch!TakeRejected(w)
     \/ Batch!Lock(w) \/ Batch!AppendRow(w) \/ Batch!AppendFails(w)
  /\ UNCHANGED <<queueVars, serverVars, analysisVars>>

\* The file could not be read, or its analysis is over and the report saved or not.
EndFile(w, outcome) ==
  /\ Batch!EndAnalysis(w, outcome)
  /\ analysis[job[w]] = "over" \/ (analysis[job[w]] = "none" /\ outcome = "failed")
  /\ UNCHANGED <<queueVars, serverVars, analysisVars>>

-----------------------------------------------------------------------------
(* One analysis *)

\* An upload is accepted, or a worker has the account in hand.
Begin(a) ==
  /\ analysis[a] = "none"
  /\ \/ a \in Uploads /\ server = "up"
     \/ \E w \in AccountWorkers : at[w] = "analysing" /\ job[w] = a
  /\ analysis' = [analysis EXCEPT ![a] = "calls"]
  /\ stage' = [k \in Accounts \X Calls |-> IF k[1] = a /\ k[2] \in Pattern THEN "asked" ELSE stage[k]]
  /\ UNCHANGED <<batchVars, queueVars, serverVars>>

\* The submit that the call is at: the second after an answer that was rejected.
Asking(k) ==
  <<k[1], k[2], IF caller[<<k[1], k[2], 1>>] = "answered" THEN Asks(k[2]) ELSE 1>>

LastAsk(k) == Asking(k)[3] = Asks(k[2])

Live(k) == analysis[k[1]] # "cancelled" /\ stage[k] = "asked"

StageBecomes(k, to) ==
  /\ stage' = [stage EXCEPT ![k] = to]
  /\ UNCHANGED <<batchVars, serverVars, analysis>>

\* The call submits, or its put gets a slot.
Enters(k) ==
  /\ Live(k)
  /\ Queue!Submit(Asking(k)) \/ Queue!Admit(Asking(k))
  /\ UNCHANGED <<batchVars, serverVars, analysisVars>>

\* The queue is closed, or stays full for too long.
Refused(k) ==
  /\ Live(k)
  /\ Queue!SubmitClosed(Asking(k)) \/ Queue!PutTimeout(Asking(k))
  /\ StageBecomes(k, "failed")

\* The submit comes back: with an error; or with an answer that is used, or is
\* rejected and asked for once more.
Returns(k) ==
  /\ Live(k)
  /\ Queue!Return(Asking(k))
  /\ \/ result[Asking(k)] = "error" /\ StageBecomes(k, "failed")
     \/ /\ result[Asking(k)] = "value"
        /\ \E to \in {"used", IF LastAsk(k) THEN "failed" ELSE "asked"} : StageBecomes(k, to)

Gathered(a) == \A c \in Pattern : stage[<<a, c>>] \in Over

\* All parallel calls are over: the summary is asked, unless there is nothing to
\* summarise.
Gather(a) ==
  /\ analysis[a] = "calls"
  /\ Gathered(a)
  /\ IF \E c \in Pattern : stage[<<a, c>>] = "used"
       THEN /\ analysis' = [analysis EXCEPT ![a] = "summary"]
            /\ stage' = [stage EXCEPT ![<<a, "summary">>] = "asked"]
       ELSE analysis' = [analysis EXCEPT ![a] = "over"] /\ UNCHANGED stage
  /\ UNCHANGED <<batchVars, queueVars, serverVars>>

SummaryOver(a) ==
  /\ analysis[a] = "summary"
  /\ stage[<<a, "summary">>] \in Over
  /\ analysis' = [analysis EXCEPT ![a] = "over"]
  /\ UNCHANGED <<batchVars, queueVars, serverVars, stage>>

\* The cancellation of the analysis reaches the submit of one of its calls.
Leaves(k) ==
  /\ analysis[k[1]] = "cancelled" /\ stage[k] = "asked"
  /\ Queue!CancelBlocked(Asking(k)) \/ Queue!CancelWaiting(Asking(k))
  /\ StageBecomes(k, "left")

LlmWorker(w) == Queue!WorkerStep(w) /\ UNCHANGED <<batchVars, serverVars, analysisVars>>

-----------------------------------------------------------------------------
(* Start and stop *)

Start ==
  /\ server = "starting"
  /\ Queue!Start
  /\ server' = "up"
  /\ UNCHANGED <<batchVars, closed, analysisVars>>

\* The web server takes no more requests ...
Drain ==
  /\ server = "up"
  /\ server' = "draining"
  /\ UNCHANGED <<batchVars, queueVars, closed, analysisVars>>

\* Plausible slip: the handlers do not wait for the requests.
StopAtOnce ==
  /\ server = "draining"
  /\ server' = "stopping"
  /\ UNCHANGED <<batchVars, queueVars, closed, analysisVars>>

\* ... and calls the shutdown handler when those under way are over.
StopHandler ==
  /\ server = "draining"
  /\ \A u \in Uploads : analysis[u] \in {"none", "over"}
  /\ server' = "stopping"
  /\ UNCHANGED <<batchVars, queueVars, closed, analysisVars>>

\* Plausible slips: the parts are closed in another order.
QueueFirst == <<"queue", "batches", "client">>
ClientEarly == <<"batches", "client", "queue">>

Order == <<"batches", "queue", "client">>

\* It is this part's turn to be closed.
Turn(part) ==
  /\ server = "stopping"
  /\ part \notin closed
  /\ \E i \in 1..Len(Order) : Order[i] = part /\ \A h \in 1..(i - 1) : Order[h] \in closed

InHand(a) == \E w \in AccountWorkers : at[w] = "analysing" /\ job[w] = a

\* Every account worker is cancelled, and the analysis it awaits with it.  A call
\* that has not submitted yet never does.
CloseBatches ==
  /\ Turn("batches")
  /\ Batch!Close
  /\ analysis' = [a \in Accounts |-> IF InHand(a) THEN "cancelled" ELSE analysis[a]]
  /\ stage' = [k \in Accounts \X Calls |->
       IF InHand(k[1]) /\ stage[k] = "asked" /\ caller[Asking(k)] = "idle" THEN "left" ELSE stage[k]]
  /\ UNCHANGED <<queueVars, serverVars>>

\* The workers have returned: their analyses have let go of their calls.
BatchesClosed ==
  /\ Turn("batches")
  /\ batchLife = "closing"
  /\ \A k \in Accounts \X Calls : ~(analysis[k[1]] = "cancelled" /\ stage[k] = "asked")
  /\ closed' = closed \cup {"batches"}
  /\ UNCHANGED <<batchVars, queueVars, server, analysisVars>>

CloseQueue ==
  /\ Turn("queue")
  /\ Queue!Close \/ Queue!CloseGoesOn
  /\ UNCHANGED <<batchVars, serverVars, analysisVars>>

QueueClosed ==
  /\ Turn("queue")
  /\ Queue!Join
  /\ closed' = closed \cup {"queue"}
  /\ UNCHANGED <<batchVars, server, analysisVars>>

CloseClient ==
  /\ Turn("client")
  /\ closed' = closed \cup {"client"}
  /\ UNCHANGED <<batchVars, queueVars, server, analysisVars>>

\* The process ends when the last row is written.
Terminated ==
  /\ closed = {"batches", "queue", "client"} /\ Batch!Writing = {}
  /\ UNCHANGED vars

-----------------------------------------------------------------------------

\* What the event loop, the timers and the LLM do by themselves.
Goes ==
  \/ \E w \in AccountWorkers : AccountWorker(w) \/ \E outcome \in Batch!Final : EndFile(w, outcome)
  \/ \E a \in Files : Begin(a)
  \/ \E a \in Accounts : Gather(a) \/ SummaryOver(a)
  \/ \E k \in Accounts \X Calls : Enters(k) \/ Refused(k) \/ Returns(k) \/ Leaves(k)
  \/ \E w \in LlmWorkers : LlmWorker(w)
  \/ Start \/ StopHandler \/ CloseBatches \/ BatchesClosed \/ CloseQueue \/ QueueClosed \/ CloseClient

Next ==
  \/ Goes
  \/ \E b \in Batches, rejected \in SUBSET (1..BatchSize) : Submit(b, rejected)
  \/ \E u \in Uploads : Begin(u)
  \/ Drain
  \/ Terminated

Spec == Init /\ [][Next]_vars

(***************************************************************************)
(* The loop is not idle while a task is ready; a put gives up in the end,  *)
(* and an LLM request has a time limit.  No step can be repeated, so it is *)
(* enough that something always goes on.  Nobody has to submit, upload or  *)
(* stop.                                                                   *)
(***************************************************************************)
FairSpec == Spec /\ WF_vars(Goes)

-----------------------------------------------------------------------------
(* Properties *)

\* In the order of main.py shutdown leaves nobody waiting for an answer that never
\* comes, although the queue alone could (OnlyBlockedAtCloseStranded).
NobodyStranded ==
  queueLife = "closed" => \A j \in Jobs : caller[j] \notin {"blocked", "waiting"}

\* No call is refused because the queue is closed, so no account is reported, or
\* recorded, with checks that shutdown took away.
NoneRefusedByShutdown == \A j \in Jobs : caller[j] # "closed"

\* No request to the LLM is under way once its client is closed, and none starts.
ClientClosedLast == "client" \in closed => Queue!Busy = {}

\* With the real queue under it, every submitted file is still finished and recorded.
FilesRecorded == Batch!EveryFileRecorded

\* Shutdown comes to an end, whatever is queued, running or being analysed.
ShutdownEnds == server = "draining" ~> closed = {"batches", "queue", "client"}
=============================================================================
