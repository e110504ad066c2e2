---------------------------- MODULE LlmWorkQueue ----------------------------
(***************************************************************************)
(* The process-local queue that every call to the LLM service goes through *)
(* (app/core/llm_work_queue.py): submit(), the workers, and a shutdown by  *)
(* stop tokens.                                                            *)
(*                                                                         *)
(* The program is asyncio code on one event loop, so an action is a stretch*)
(* of code between two awaits that can suspend.  A put on a queue with a   *)
(* free slot does not suspend: submit() checks and enqueues in one action, *)
(* and close() enqueues as many stop tokens as fit in one action.  A put   *)
(* that found the queue full may go on as soon as a slot is free, in any   *)
(* order: asyncio.Queue lets a fresh put take a slot before a waiting one  *)
(* that was already woken.                                                 *)
(***************************************************************************)
EXTENDS Naturals, Sequences, FiniteSets

CONSTANTS
  Jobs,     \* The calls of submit(), one work item each.
  Workers,  \* The worker tasks.
  MaxSize,  \* LLM_QUEUE_MAXSIZE.
  Stop,     \* The token that makes a worker return.
  Free      \* "Not executing a job".

ASSUME QueueAssumption ==
  /\ IsFiniteSet(Workers) /\ Workers # {}
  /\ MaxSize \in Nat \ {0}
  /\ Stop \notin Jobs
  /\ Free \notin Jobs

VARIABLES
  lifecycle,       \* How far start() and close() are.
  accepting,       \* _accepting
  queue,           \* _queue: work items and stop tokens, oldest first.
  stopsLeft,       \* Stop tokens close() has still to put.
  alive,           \* Worker tasks that were created and have not returned.
  running,         \* The job each worker awaits the operation of.
  active,          \* _active
  caller,          \* Where each call of submit() is.
  result,          \* The state of each work item's future.
  blockedAtClose   \* History: callers still waiting for a slot when close() began.

shutdownVars == <<lifecycle, accepting, stopsLeft, blockedAtClose>>
workerVars == <<alive, running, active>>
vars == <<queue, caller, result, shutdownVars, workerVars>>

Refused == {"full", "closed", "withdrawn"}
Settled == Refused \cup {"answered", "failed", "left"}

Queued(j) == \E i \in 1..Len(queue) : queue[i] = j
RunBy(j) == {w \in Workers : running[w] = j}
Busy == {w \in Workers : running[w] # Free}

TypeOK ==
  /\ lifecycle \in {"new", "running", "stopping", "joining", "closed"}
  /\ accepting \in BOOLEAN
  /\ queue \in Seq(Jobs \cup {Stop})
  /\ stopsLeft \in Nat
  /\ alive \subseteq Workers
  /\ running \in [Workers -> Jobs \cup {Free}]
  /\ active \in Nat
  /\ caller \in [Jobs -> {"idle", "blocked", "waiting"} \cup Settled]
  /\ result \in [Jobs -> {"pending", "value", "error", "cancelled"}]
  /\ blockedAtClose \subseteq Jobs

Init ==
  /\ lifecycle = "new"
  /\ accepting = FALSE
  /\ queue = <<>>
  /\ stopsLeft = 0
  /\ alive = {}
  /\ running = [w \in Workers |-> Free]
  /\ active = 0
  /\ caller = [j \in Jobs |-> "idle"]
  /\ result = [j \in Jobs |-> "pending"]
  /\ blockedAtClose = {}

-----------------------------------------------------------------------------
(* start() *)

Start ==
  /\ lifecycle = "new"
  /\ lifecycle' = "running"
  /\ accepting' = TRUE
  /\ alive' = Workers
  /\ UNCHANGED <<queue, caller, result, stopsLeft, blockedAtClose, running, active>>

-----------------------------------------------------------------------------
(* submit() *)

CallerGoes(j, from, to) ==
  /\ caller[j] = from
  /\ caller' = [caller EXCEPT ![j] = to]

\* The call comes back without touching the queue.
GivesUp(j, from, to) ==
  /\ CallerGoes(j, from, to)
  /\ UNCHANGED <<queue, result, shutdownVars, workerVars>>

\* The put goes through, and the caller awaits the future.
Enqueue(j, from) ==
  /\ CallerGoes(j, from, "waiting")
  /\ queue' = Append(queue, j)
  /\ UNCHANGED <<result, shutdownVars, workerVars>>

\* Not accepting: LlmQueueClosedError.
SubmitClosed(j) == ~accepting /\ GivesUp(j, "idle", "closed")

\* Plausible slip: the closed check is forgotten.
SubmitUnchecked(j) == Len(queue) < MaxSize /\ Enqueue(j, "idle")

\* Accepting: the item goes into a free slot, or the caller waits for one.
Submit(j) ==
  /\ accepting
  /\ IF Len(queue) < MaxSize THEN Enqueue(j, "idle") ELSE GivesUp(j, "idle", "blocked")

\* Plausible slip: the put that went on is still counted among the waiting ones.
AdmitStaysBlocked(j) ==
  /\ caller[j] = "blocked"
  /\ Len(queue) < MaxSize
  /\ queue' = Append(queue, j)
  /\ UNCHANGED <<caller, result, shutdownVars, workerVars>>

\* A put that waited for a slot gets one.  Nothing looks at _accepting again.
Admit(j) == Len(queue) < MaxSize /\ Enqueue(j, "blocked")

\* wait_for() gives the put up: LlmQueueFullError.  The timer may win the race
\* against a slot that has just become free.
PutTimeout(j) == GivesUp(j, "blocked", "full")

\* The caller's task is cancelled while it waits for a slot: nothing was queued.
CancelBlocked(j) == GivesUp(j, "blocked", "withdrawn")

\* Plausible slip: cancel() overwrites a result that is already there.
CancelOverwrites(j) ==
  /\ CallerGoes(j, "waiting", "left")
  /\ result' = [result EXCEPT ![j] = "cancelled"]
  /\ UNCHANGED <<queue, shutdownVars, workerVars>>

\* The caller's task is cancelled while it awaits the shielded future.  cancel()
\* does nothing to a future that is done.
CancelWaiting(j) ==
  /\ CallerGoes(j, "waiting", "left")
  /\ result' = [result EXCEPT ![j] = IF @ = "pending" THEN "cancelled" ELSE @]
  /\ UNCHANGED <<queue, shutdownVars, workerVars>>

\* The future is done and the caller's await returns or raises.
Return(j) ==
  \/ result[j] = "value" /\ GivesUp(j, "waiting", "answered")
  \/ result[j] = "error" /\ GivesUp(j, "waiting", "failed")

-----------------------------------------------------------------------------
(* _worker() *)

\* A free worker takes the oldest entry of the queue.
Take(w) ==
  /\ w \in alive /\ running[w] = Free
  /\ queue # <<>>
  /\ queue' = Tail(queue)
  /\ UNCHANGED <<caller, result, shutdownVars>>

\* Plausible slip: the worker takes a token without ending.
TakeStopKeepsGoing(w) == Take(w) /\ Head(queue) = Stop /\ UNCHANGED workerVars

TakeStop(w) ==
  /\ Take(w) /\ Head(queue) = Stop
  /\ alive' = alive \ {w}
  /\ UNCHANGED <<running, active>>

TakeCancelled(w) ==
  /\ Take(w) /\ Head(queue) # Stop
  /\ result[Head(queue)] = "cancelled"
  /\ UNCHANGED workerVars

TakeJob(w) ==
  /\ Take(w) /\ Head(queue) # Stop
  /\ result[Head(queue)] # "cancelled"
  /\ running' = [running EXCEPT ![w] = Head(queue)]
  /\ active' = active + 1
  /\ UNCHANGED alive

\* Worker w is free again, and the future of its job becomes o unless it is done.
Deliver(w, o) ==
  /\ running[w] # Free
  /\ running' = [running EXCEPT ![w] = Free]
  /\ result' = [result EXCEPT ![running[w]] = IF @ = "pending" THEN o ELSE @]
  /\ UNCHANGED <<queue, caller, shutdownVars, alive>>

\* Plausible slip: the slot is given back only after a success.
FinishLeaksSlot(w, o) ==
  Deliver(w, o) /\ active' = IF o = "value" THEN active - 1 ELSE active

\* Plausible slip: an exception of the operation reaches nobody.
FinishLosesError(w, o) ==
  Deliver(w, IF o = "value" THEN o ELSE "pending") /\ active' = active - 1

\* The operation returns or raises.
Finish(w, o) == Deliver(w, o) /\ active' = active - 1

-----------------------------------------------------------------------------
(* close() *)

\* Put as many of the stop tokens still owed as the queue has room for.
PutStops(owed) ==
  LET room == MaxSize - Len(queue)
      n == IF owed <= room THEN owed ELSE room
  IN  /\ queue' = queue \o [i \in 1..n |-> Stop]
      /\ stopsLeft' = owed - n
      /\ lifecycle' = IF owed = n THEN "joining" ELSE "stopping"

\* close() begins, with n workers to stop.
BeginClose(n) ==
  /\ lifecycle = "running"
  /\ accepting' = FALSE
  /\ PutStops(n)
  /\ blockedAtClose' = {j \in Jobs : caller[j] = "blocked"}
  /\ UNCHANGED <<caller, result, workerVars>>

\* Plausible slip: one token for all the workers.
CloseOneStop == BeginClose(1)

Close == BeginClose(Cardinality(Workers))

\* close() waited for a slot and gets one.
CloseGoesOn ==
  /\ lifecycle = "stopping"
  /\ Len(queue) < MaxSize
  /\ PutStops(stopsLeft)
  /\ UNCHANGED <<accepting, blockedAtClose, caller, result, workerVars>>

\* gather() of the workers returns, and the list of them is cleared.
Join ==
  /\ lifecycle = "joining"
  /\ alive = {}
  /\ lifecycle' = "closed"
  /\ UNCHANGED <<accepting, stopsLeft, blockedAtClose, queue, caller, result, workerVars>>

\* The process is about to exit.
Terminated ==
  /\ lifecycle = "closed"
  /\ \A j \in Jobs : caller[j] \in Settled
  /\ UNCHANGED vars

-----------------------------------------------------------------------------

CallerStep(j) ==
  \/ SubmitClosed(j) \/ Submit(j) \/ Admit(j) \/ PutTimeout(j)
  \/ CancelBlocked(j) \/ CancelWaiting(j) \/ Return(j)

WorkerStep(w) ==
  \/ TakeStop(w) \/ TakeCancelled(w) \/ TakeJob(w)
  \/ \E o \in {"value", "error"} : Finish(w, o)

CloserStep == Close \/ CloseGoesOn \/ Join

Next ==
  \/ Start \/ CloserStep \/ Terminated
  \/ \E j \in Jobs : CallerStep(j)
  \/ \E w \in Workers : WorkerStep(w)

Spec == Init /\ [][Next]_vars

(***************************************************************************)
(* The event loop runs every task that is ready; an LLM operation ends by  *)
(* LLM_REQUEST_TIMEOUT_SECONDS at the latest; the timer of wait_for fires. *)
(* Nothing obliges a caller to submit, to be cancelled, or the application *)
(* to stop, and nothing obliges a waiting put to win against its timer.    *)
(***************************************************************************)
Fairness ==
  /\ \A w \in Workers : WF_vars(WorkerStep(w))
  /\ \A j \in Jobs : WF_vars(PutTimeout(j)) /\ WF_vars(Return(j))
  /\ WF_vars(CloseGoesOn) /\ WF_vars(Join)

FairSpec == Spec /\ Fairness

-----------------------------------------------------------------------------
(* Safety *)

\* The buffer never outgrows LLM_QUEUE_MAXSIZE, although a put that waited, a
\* fresh submit() and close() compete for the same slot.
WithinCapacity == Len(queue) <= MaxSize

\* _active, which the health page shows, counts exactly the operations under way,
\* so it never passes worker_count and no failure or cancellation leaks a slot.
ActiveIsExact == active = Cardinality(Busy)

\* An item is in the queue once or at one worker, never both: no LLM call is
\* sent twice on behalf of one submit().
InOnePlace ==
  /\ \A i, k \in 1..Len(queue) : queue[i] = queue[k] /\ queue[i] # Stop => i = k
  /\ \A w \in Busy :
       ~Queued(running[w]) /\ RunBy(running[w]) = {w}

\* A caller that was told "full" or "closed", or that left before it was admitted,
\* is not served behind its back: a retry cannot make two LLM calls.
RefusedNeverServed ==
  \A j \in Jobs : caller[j] \in Refused =>
    ~Queued(j) /\ RunBy(j) = {} /\ result[j] = "pending"

\* A caller that awaits its future has its item somewhere a worker will find it.
NoJobLost ==
  \A j \in Jobs : caller[j] = "waiting" /\ result[j] = "pending" =>
    Queued(j) \/ RunBy(j) # {}

\* Every call is served exactly once: nothing is lost between the queue and the workers,
\* and nothing is there twice, however many puts compete for a slot.
ServedOnce == InOnePlace /\ NoJobLost

\* Only a submit() that was already waiting for a slot when close() began can be
\* left in the queue without a worker; every job admitted before is answered.
OnlyBlockedAtCloseStranded ==
  lifecycle = "closed" =>
    \A j \in Jobs : caller[j] = "waiting" /\ result[j] = "pending" => j \in blockedAtClose

\* While close() is under way, each worker that is still alive has one stop
\* token, in the queue or still to be put, and there are no others.
OneStopPerWorker ==
  lifecycle \in {"stopping", "joining"} =>
    stopsLeft + Cardinality({i \in 1..Len(queue) : queue[i] = Stop}) = Cardinality(alive)

\* A call whose caller left before a worker took it is never sent.
LeftNeverSent ==
  [][\A w \in Workers : running'[w] # running[w] /\ running'[w] # Free =>
       result[running'[w]] = "pending"]_vars

(* Liveness *)

\* Every submit() comes back, unless it waited for a slot while close() began.
EverySubmitEnds ==
  \A j \in Jobs : caller[j] \in {"blocked", "waiting"} ~>
    caller[j] \in Settled \/ j \in blockedAtClose

\* close() comes to an end, whatever is queued, running or waiting for a slot.
CloseEnds == lifecycle = "stopping" \/ lifecycle = "joining" ~> lifecycle = "closed"

-----------------------------------------------------------------------------
(* The promise to the callers *)

Stage(j) ==
  CASE caller[j] \in {"idle", "blocked"} -> "unsent"
    [] caller[j] \in Refused -> "refused"
    [] Queued(j) -> "queued"
    [] RunBy(j) # {} -> "executing"
    [] OTHER -> "over"

Promise == INSTANCE OneShotJobs WITH
  Limit <- Cardinality(Workers),
  stage <- [j \in Jobs |-> Stage(j)],
  outcome <- result

\* The queue, its workers and its shutdown implement what callers rely on.
KeepsPromise == Promise!Spec
=============================================================================
