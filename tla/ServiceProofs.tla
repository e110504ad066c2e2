--------------------------- MODULE ServiceProofs ---------------------------
(***************************************************************************)
(* Theorems about the application as a whole, for any number of batches,   *)
(* uploads, workers and calls.                                             *)
(*                                                                         *)
(* In the service the batch runner and the LLM queue do only what they may *)
(* do alone: each of their specifications is implemented.  So what is      *)
(* proved of them alone holds in the service, and the proof about the      *)
(* order of shutdown starts from there.                                    *)
(***************************************************************************)
EXTENDS Service, TLAPS

QueueAlone == INSTANCE LlmWorkQueueProofs WITH
  Workers <- LlmWorkers, lifecycle <- queueLife, queue <- jobs

BatchAlone == INSTANCE BatchRunnerProofs WITH
  Workers <- AccountWorkers, lifecycle <- batchLife, queue <- files

-----------------------------------------------------------------------------
(* The parts in the service *)

\* The submit that a call is at is one of the jobs of the queue.
LEMMA AskingIsJob == ASSUME NEW k \in Accounts \X Calls PROVE Asking(k) \in Jobs
<1>1. k[1] \in Accounts /\ k[2] \in Calls
  OBVIOUS
<1>2. \E n \in 1..2 : n <= Asks(k[2]) /\ Asking(k) = <<k[1], k[2], n>>
  BY DEF Asking, Asks
<1>3. QED
  BY <1>1, <1>2 DEF Jobs

\* What each step of the service is for the queue.
LEMMA QueueStep == [Next]_vars => [Queue!Next]_(Queue!vars)
<1> SUFFICES ASSUME [Next]_vars
             PROVE  Queue!Next \/ UNCHANGED queueVars
  BY DEF queueVars, Queue!vars, Queue!shutdownVars, Queue!workerVars
<1>1. CASE UNCHANGED vars
  BY <1>1 DEF vars
<1>2. ASSUME NEW w \in AccountWorkers, AccountWorker(w) \/ \E outcome \in Batch!Final : EndFile(w, outcome)
      PROVE  UNCHANGED queueVars
  BY <1>2 DEF AccountWorker, EndFile
<1>3. ASSUME NEW a \in Accounts, Begin(a) \/ Gather(a) \/ SummaryOver(a)
      PROVE  UNCHANGED queueVars
  BY <1>3 DEF Begin, Gather, SummaryOver
<1>4. ASSUME NEW k \in Accounts \X Calls, Enters(k) \/ Refused(k) \/ Returns(k) \/ Leaves(k)
      PROVE  Queue!Next
  <2>1. Queue!CallerStep(Asking(k))
    BY <1>4 DEF Enters, Refused, Returns, Leaves, Queue!CallerStep
  <2>2. QED
    BY <2>1, AskingIsJob DEF Queue!Next
<1>5. ASSUME NEW w \in LlmWorkers, LlmWorker(w)
      PROVE  Queue!Next
  BY <1>5 DEF LlmWorker, Queue!Next
<1>6. CASE Start \/ CloseQueue \/ QueueClosed
  BY <1>6 DEF Start, CloseQueue, QueueClosed, Queue!Next, Queue!CloserStep
<1>7. CASE StopHandler \/ CloseBatches \/ BatchesClosed \/ CloseClient \/ Drain
  BY <1>7 DEF StopHandler, CloseBatches, BatchesClosed, CloseClient, Drain
<1>8. ASSUME NEW b \in Batches, NEW rejected \in SUBSET (1..BatchSize), Submit(b, rejected)
      PROVE  UNCHANGED queueVars
  BY <1>8 DEF Submit
<1>9. CASE Terminated
  BY <1>9 DEF Terminated, vars
<1>10. Files \subseteq Accounts /\ Uploads \subseteq Accounts
  BY DEF Accounts
<1>11. CASE Goes
  BY <1>2, <1>3, <1>4, <1>5, <1>6, <1>7, <1>10, <1>11 DEF Goes
<1>12. QED
  BY <1>1, <1>3, <1>7, <1>8, <1>9, <1>10, <1>11 DEF Next

\* What each step of the service is for the batch runner.
LEMMA BatchStep == [Next]_vars => [Batch!Next]_(Batch!vars)
<1> SUFFICES ASSUME [Next]_vars
             PROVE  Batch!Next \/ UNCHANGED batchVars
  BY DEF batchVars, Batch!vars, Batch!workerVars, Batch!diskVars
<1>1. CASE UNCHANGED vars
  BY <1>1 DEF vars
<1>2. ASSUME NEW w \in AccountWorkers, AccountWorker(w) \/ \E outcome \in Batch!Final : EndFile(w, outcome)
      PROVE  Batch!Next
  BY <1>2 DEF AccountWorker, EndFile, Batch!Next, Batch!WorkerStep
<1>3. ASSUME NEW a \in Accounts, Begin(a) \/ Gather(a) \/ SummaryOver(a)
      PROVE  UNCHANGED batchVars
  BY <1>3 DEF Begin, Gather, SummaryOver
<1>4. ASSUME NEW k \in Accounts \X Calls, Enters(k) \/ Refused(k) \/ Returns(k) \/ Leaves(k)
      PROVE  UNCHANGED batchVars
  BY <1>4 DEF Enters, Refused, Returns, Leaves, StageBecomes
<1>5. ASSUME NEW w \in LlmWorkers, LlmWorker(w)
      PROVE  UNCHANGED batchVars
  BY <1>5 DEF LlmWorker
<1>6. CASE CloseBatches
  BY <1>6 DEF CloseBatches, Batch!Next
<1>7. CASE Start \/ CloseQueue \/ QueueClosed \/ StopHandler \/ BatchesClosed \/ CloseClient \/ Drain
  BY <1>7 DEF Start, CloseQueue, QueueClosed, StopHandler, BatchesClosed, CloseClient, Drain
<1>8. ASSUME NEW b \in Batches, NEW rejected \in SUBSET (1..BatchSize), Submit(b, rejected)
      PROVE  Batch!Next
  BY <1>8 DEF Submit, Batch!Next, Batch!Positions
<1>9. CASE Terminated
  BY <1>9 DEF Terminated, vars
<1>10. Files \subseteq Accounts /\ Uploads \subseteq Accounts
  BY DEF Accounts
<1>11. CASE Goes
  BY <1>2, <1>3, <1>4, <1>5, <1>6, <1>7, <1>10, <1>11 DEF Goes
<1>12. QED
  BY <1>1, <1>3, <1>7, <1>8, <1>9, <1>10, <1>11 DEF Next

\* The queue under the service keeps to its own specification: analyses, batches and
\* shutdown only do with it what its callers and its owner may do.
THEOREM QueueImplemented == Spec => Queue!Spec
<1>1. Init => Queue!Init
  BY DEF Init
<1>2. QED
  BY <1>1, QueueStep, PTL DEF Spec, Queue!Spec

\* The batch runner under the service keeps to its own specification.
THEOREM BatchesImplemented == Spec => Batch!Spec
<1>1. Init => Batch!Init
  BY DEF Init
<1>2. QED
  BY <1>1, BatchStep, PTL DEF Spec, Batch!Spec

\* The queue that is proved about is the one the service has.
LEMMA QueueAsAlone == Spec => QueueAlone!Spec /\ QueueAlone!QueueAssumption
<1>1. Queue!Init => QueueAlone!Init
  BY DEF Queue!Init, QueueAlone!Init
<1>2. [Queue!Next]_(Queue!vars) => [QueueAlone!Next]_(QueueAlone!vars)
  BY DEF
    Queue!Next, Queue!CallerStep, Queue!WorkerStep, Queue!CloserStep, Queue!Start,
    Queue!Terminated, Queue!SubmitClosed, Queue!Submit, Queue!Admit, Queue!PutTimeout,
    Queue!CancelBlocked, Queue!CancelWaiting, Queue!Return, Queue!CallerGoes, Queue!GivesUp,
    Queue!Enqueue, Queue!TakeStop, Queue!TakeCancelled, Queue!TakeJob, Queue!Take, Queue!Finish,
    Queue!Deliver, Queue!Close, Queue!BeginClose, Queue!CloseGoesOn, Queue!PutStops, Queue!Join,
    Queue!Settled, Queue!Refused, Queue!vars, Queue!shutdownVars, Queue!workerVars,
    Queue!Cardinality, QueueAlone!Cardinality,
    QueueAlone!Next, QueueAlone!CallerStep, QueueAlone!WorkerStep, QueueAlone!CloserStep,
    QueueAlone!Start, QueueAlone!Terminated, QueueAlone!SubmitClosed, QueueAlone!Submit,
    QueueAlone!Admit, QueueAlone!PutTimeout, QueueAlone!CancelBlocked, QueueAlone!CancelWaiting,
    QueueAlone!Return, QueueAlone!CallerGoes, QueueAlone!GivesUp, QueueAlone!Enqueue,
    QueueAlone!TakeStop, QueueAlone!TakeCancelled, QueueAlone!TakeJob, QueueAlone!Take,
    QueueAlone!Finish, QueueAlone!Deliver, QueueAlone!Close, QueueAlone!BeginClose,
    QueueAlone!CloseGoesOn, QueueAlone!PutStops, QueueAlone!Join, QueueAlone!Settled,
    QueueAlone!Refused, QueueAlone!vars, QueueAlone!shutdownVars, QueueAlone!workerVars
<1>3. Spec => QueueAlone!Spec
  BY <1>1, <1>2, QueueImplemented, PTL DEF Queue!Spec, QueueAlone!Spec
<1>4. QueueAlone!QueueAssumption
  BY PartsAssumption
  DEF Queue!QueueAssumption, QueueAlone!QueueAssumption, Queue!IsFiniteSet, QueueAlone!IsFiniteSet
<1>5. QED
  BY <1>3, <1>4

\* The same of the batch runner.
LEMMA BatchesAsAlone == Spec => BatchAlone!Spec /\ BatchAlone!BatchAssumption
<1>1. Batch!Init => BatchAlone!Init
  BY DEF Batch!Init, BatchAlone!Init, Batch!Files, Batch!Positions, BatchAlone!Files, BatchAlone!Positions,
         Batch!NoPoll, BatchAlone!NoPoll
<1>2. [Batch!Next]_(Batch!vars) => [BatchAlone!Next]_(BatchAlone!vars)
  BY DEF
    Batch!Next, Batch!WorkerStep, Batch!PollStep, Batch!Submit, Batch!Enqueue, Batch!KeepRecent,
    Batch!Has, Batch!StartFile, Batch!TakeRejected, Batch!Get, Batch!EndAnalysis, Batch!Lock,
    Batch!Writing, Batch!AppendRow, Batch!AppendFails, Batch!Unlock, Batch!RowOf, Batch!PollBegins,
    Batch!PollCounts, Batch!PollLists, Batch!PollEnds, Batch!ReadInto, Batch!NoPoll, Batch!Close,
    Batch!Exit, Batch!Crash, Batch!Stopped, Batch!Restart, Batch!Files, Batch!Positions,
    Batch!Final, Batch!vars, Batch!workerVars, Batch!diskVars,
    BatchAlone!Next, BatchAlone!WorkerStep, BatchAlone!PollStep, BatchAlone!Submit,
    BatchAlone!Enqueue, BatchAlone!KeepRecent, BatchAlone!Has, BatchAlone!StartFile,
    BatchAlone!TakeRejected, BatchAlone!Get, BatchAlone!EndAnalysis, BatchAlone!Lock,
    BatchAlone!Writing, BatchAlone!AppendRow, BatchAlone!AppendFails, BatchAlone!Unlock,
    BatchAlone!RowOf, BatchAlone!PollBegins, BatchAlone!PollCounts, BatchAlone!PollLists,
    BatchAlone!PollEnds, BatchAlone!ReadInto, BatchAlone!NoPoll, BatchAlone!Close, BatchAlone!Exit,
    BatchAlone!Crash, BatchAlone!Stopped, BatchAlone!Restart, BatchAlone!Files,
    BatchAlone!Positions, BatchAlone!Final, BatchAlone!vars, BatchAlone!workerVars,
    BatchAlone!diskVars
<1>3. Spec => BatchAlone!Spec
  BY <1>1, <1>2, BatchesImplemented, PTL DEF Batch!Spec, BatchAlone!Spec
<1>4. BatchAlone!BatchAssumption
  BY PartsAssumption
  DEF Batch!BatchAssumption, BatchAlone!BatchAssumption, Batch!IsFiniteSet, BatchAlone!IsFiniteSet
<1>5. QED
  BY <1>3, <1>4

\* What is proved of the parts alone is true of them in the service: their types, how
\* the shutdown of the queue goes, and which files the account workers have in hand.
LEMMA PartsFacts ==
  Spec => [](QueueAlone!TypeOK /\ QueueAlone!Orderly /\ BatchAlone!TypeOK /\ BatchAlone!InHand)
<1>1. QueueAlone!QueueAssumption /\ QueueAlone!Spec => []QueueAlone!TypeOK
  BY QueueAlone!TypeCorrect
<1>2. QueueAlone!QueueAssumption /\ QueueAlone!Spec => []QueueAlone!Orderly
  BY QueueAlone!OrderlyAlways
<1>3. BatchAlone!BatchAssumption /\ BatchAlone!Spec => []BatchAlone!IInv
  BY BatchAlone!IInvAlways
<1>4. BatchAlone!IInv => BatchAlone!TypeOK /\ BatchAlone!InHand
  BY DEF BatchAlone!IInv
<1>5. QED
  BY <1>1, <1>2, <1>3, <1>4, QueueAsAlone, BatchesAsAlone, PTL

\* What the proof about shutdown takes from the parts.
Parts ==
  /\ batchLife \in {"up", "closing", "down"}
  /\ files \in Seq(Files)
  /\ at \in [AccountWorkers -> {"get", "analysing", "lock", "writing", "gone"}]
  /\ job \in [AccountWorkers -> Files \cup {None}]
  /\ \A w \in AccountWorkers : at[w] = "analysing" => job[w] \in Files
  /\ queueLife \in {"new", "running", "stopping", "joining", "closed"}
  /\ DOMAIN caller = Jobs
  /\ accepting => queueLife = "running"
  /\ queueLife = "closed" => alive = {}
  /\ \A w \in LlmWorkers : running[w] # Free => w \in alive

\* The facts about the parts hold for good.
LEMMA PartsAlways == Spec => []Parts
<1>1. QueueAlone!TypeOK /\ QueueAlone!Orderly /\ BatchAlone!TypeOK /\ BatchAlone!InHand => Parts
  BY DEF Parts, QueueAlone!TypeOK, QueueAlone!Orderly, QueueAlone!Busy, BatchAlone!TypeOK,
         BatchAlone!InHand, BatchAlone!Holding, BatchAlone!Files, BatchAlone!Positions, Files
<1>2. QED
  BY <1>1, PartsFacts, PTL

-----------------------------------------------------------------------------
(* The inductive invariant *)

OwnTypes ==
  /\ server \in {"starting", "up", "draining", "stopping"}
  /\ closed \subseteq {"batches", "queue", "client"}
  /\ analysis \in [Accounts -> {"none", "calls", "summary", "over", "cancelled"}]
  /\ stage \in [Accounts \X Calls -> {"idle", "asked", "left"} \cup Over]

\* The call that a submit belongs to.
Of(j) == <<j[1], j[2]>>

\* A submit that is under way is the one its call is at, and the call waits for it.
OpenIsAsked ==
  \A j \in Jobs : caller[j] \in {"blocked", "waiting"} => stage[Of(j)] = "asked" /\ Asking(Of(j)) = j

\* An analysis that has not begun or is over has no call under way.
StagesFit ==
  \A a \in Accounts :
    /\ analysis[a] = "none" => \A c \in Calls : stage[<<a, c>>] = "idle"
    /\ analysis[a] = "calls" => stage[<<a, "summary">>] = "idle"
    /\ analysis[a] = "summary" => \A c \in Pattern : stage[<<a, c>>] \in Over
    /\ analysis[a] = "over" => \A c \in Calls : stage[<<a, c>>] # "asked"

\* The analysis of a batch file goes on as long as a worker has the file in hand.
Held ==
  /\ \A f \in Files : analysis[f] \in {"calls", "summary"} => InHand(f)
  /\ \A u \in Uploads : analysis[u] # "cancelled"

\* No call is under way before the queue has started or after the batches have closed.
InOrder ==
  /\ server = "starting" =>
       files = <<>> /\ (\A w \in AccountWorkers : at[w] = "get") /\ \A a \in Accounts : analysis[a] = "none"
  /\ queueLife = "new" <=> server = "starting"
  /\ queueLife = "running" => accepting
  /\ queueLife \in {"stopping", "joining", "closed"} => "batches" \in closed
  /\ batchLife # "up" => server = "stopping" /\ \A w \in AccountWorkers : at[w] # "analysing"
  /\ server = "stopping" => \A u \in Uploads : analysis[u] \in {"none", "over"}
  /\ "batches" \in closed => batchLife # "up" /\ \A k \in Accounts \X Calls : stage[k] # "asked"
  /\ "queue" \in closed => "batches" \in closed /\ queueLife = "closed"
  /\ "client" \in closed => "queue" \in closed

IInv == OwnTypes /\ OpenIsAsked /\ StagesFit /\ Held /\ InOrder /\ NoneRefusedByShutdown

-----------------------------------------------------------------------------
(* Calls and their submits *)

\* A submit is of one call, and a second one only follows an answered first.
LEMMA OfFacts ==
  /\ \A k \in Accounts \X Calls :
       /\ Asking(k) \in Jobs
       /\ Of(Asking(k)) = k
       /\ Asking(k) = <<k[1], k[2], 1>> \/ caller[<<k[1], k[2], 1>>] = "answered"
  /\ \A j \in Jobs : Of(j) \in Accounts \X Calls
<1>1. ASSUME NEW k \in Accounts \X Calls
      PROVE  /\ Asking(k) \in Jobs
             /\ Of(Asking(k)) = k
             /\ Asking(k) = <<k[1], k[2], 1>> \/ caller[<<k[1], k[2], 1>>] = "answered"
  BY AskingIsJob DEF Of, Asking
<1>2. ASSUME NEW j \in Jobs
      PROVE  Of(j) \in Accounts \X Calls
  BY DEF Jobs, Of
<1>3. QED
  BY <1>1, <1>2

\* The submit a call is at depends on nothing but whether its first was answered.
LEMMA AskingKept ==
  ASSUME NEW k \in Accounts \X Calls,
         caller'[<<k[1], k[2], 1>>] = "answered" <=> caller[<<k[1], k[2], 1>>] = "answered"
  PROVE  Asking(k)' = Asking(k)
  BY DEF Asking

\* The invariant holds before the start.
LEMMA IInvInit == Init => IInv
<1> SUFFICES ASSUME Init
             PROVE  IInv
  OBVIOUS
<1>1. OwnTypes /\ StagesFit /\ Held
  BY ServiceAssumption DEF Init, OwnTypes, StagesFit, Held, Calls, Accounts
<1>2. /\ caller = [j \in Jobs |-> "idle"] /\ queueLife = "new"
      /\ batchLife = "up" /\ files = <<>> /\ at = [w \in AccountWorkers |-> "get"]
  BY DEF Init, Queue!Init, Batch!Init
<1>3. OpenIsAsked /\ NoneRefusedByShutdown
  BY <1>2 DEF OpenIsAsked, NoneRefusedByShutdown
<1>4. InOrder
  BY <1>2 DEF Init, InOrder
<1>5. QED
  BY <1>1, <1>3, <1>4 DEF IInv

\* A call that waits belongs to an analysis that is under way or cancelled, the
\* queue has been started, and the batches have not been closed.
LEMMA AskedFacts ==
  ASSUME IInv, NEW k \in Accounts \X Calls, stage[k] = "asked"
  PROVE  /\ analysis[k[1]] \in {"calls", "summary", "cancelled"}
         /\ analysis[k[1]] = "calls" => k[2] # "summary"
         /\ analysis[k[1]] = "summary" => k[2] = "summary"
         /\ server # "starting"
         /\ "batches" \notin closed
<1>1. k[1] \in Accounts /\ k[2] \in Calls /\ k = <<k[1], k[2]>>
  OBVIOUS
<1>2. analysis[k[1]] \in {"none", "calls", "summary", "over", "cancelled"}
  BY <1>1 DEF IInv, OwnTypes
<1>3. analysis[k[1]] \notin {"none", "over"}
  BY <1>1 DEF IInv, StagesFit
<1>4. analysis[k[1]] = "calls" => k[2] # "summary"
  BY <1>1 DEF IInv, StagesFit
<1>5. analysis[k[1]] = "summary" => k[2] = "summary"
  BY <1>1 DEF IInv, StagesFit, Calls, Over
<1>6. server # "starting" /\ "batches" \notin closed
  BY <1>1, <1>3 DEF IInv, InOrder
<1>7. QED
  BY <1>2, <1>3, <1>4, <1>5, <1>6

\* A step of the one submit a call is at, and of that call.
LEMMA CallKeeps ==
  ASSUME IInv, Parts, NEW k \in Accounts \X Calls, stage[k] = "asked",
         NEW to \in {"blocked", "waiting", "answered", "failed", "full", "withdrawn", "left"},
         NEW next \in {"asked", "left"} \cup Over,
         caller[Asking(k)] \in {"idle", "blocked", "waiting"},
         caller' = [caller EXCEPT ![Asking(k)] = to],
         stage' = [stage EXCEPT ![k] = next],
         to \in {"blocked", "waiting"} => next = "asked",
         UNCHANGED <<batchVars, queueLife, accepting, serverVars, analysis>>
  PROVE  IInv'
<1>1. UNCHANGED <<batchLife, files, at, job, server, closed>>
  BY DEF batchVars, serverVars
<1>t. k = <<k[1], k[2]>> /\ k[1] \in Accounts /\ k[2] \in Calls
  OBVIOUS
<1>2. Asking(k) \in Jobs /\ Of(Asking(k)) = k
  BY OfFacts
<1>3. caller'[Asking(k)] = to /\ \A x : x # Asking(k) => caller'[x] = caller[x]
  BY <1>2 DEF Parts
<1>4. stage'[k] = next /\ \A h \in Accounts \X Calls : h # k => stage'[h] = stage[h]
  BY DEF IInv, OwnTypes
<1>5. OwnTypes'
  BY <1>1 DEF IInv, OwnTypes
<1>6. OpenIsAsked'
  <2> SUFFICES ASSUME NEW j \in Jobs, caller'[j] \in {"blocked", "waiting"}
               PROVE  stage'[Of(j)] = "asked" /\ Asking(Of(j))' = j
    BY DEF OpenIsAsked, Of
  <2> DEFINE h == Of(j)
             first == <<h[1], h[2], 1>>
  <2>1. h \in Accounts \X Calls
    BY OfFacts
  <2>2. CASE j = Asking(k)
    <3>1. h = k /\ next = "asked"
      BY <1>2, <1>3, <2>2
    <3>2. caller'[<<k[1], k[2], 1>>] = "answered" <=> caller[<<k[1], k[2], 1>>] = "answered"
      BY <1>3, <2>2
    <3>3. Asking(k)' = Asking(k)
      BY <3>2, AskingKept
    <3>4. QED
      BY <1>4, <2>2, <3>1, <3>3 DEF Asking, Of
  <2>3. CASE j # Asking(k)
    <3>1. caller[j] \in {"blocked", "waiting"}
      BY <1>3, <2>3
    <3>2. stage[h] = "asked" /\ Asking(h) = j
      BY <3>1 DEF IInv, OpenIsAsked
    <3>3. h # k
      BY <2>3, <3>2
    <3>4. Of(first) = h
      BY DEF Of
    <3>5. caller'[first] = caller[first]
      BY <1>2, <1>3, <3>3, <3>4
    <3>6. Asking(h)' = Asking(h)
      BY <2>1, <3>5, AskingKept DEF Of
    <3>7. QED
      BY <1>4, <2>1, <3>2, <3>3, <3>6
  <2>4. QED
    BY <2>2, <2>3
<1>7. StagesFit'
  <2>1. /\ analysis[k[1]] \in {"calls", "summary", "cancelled"}
        /\ analysis[k[1]] = "calls" => k[2] # "summary"
        /\ analysis[k[1]] = "summary" => k[2] = "summary"
    BY AskedFacts
  <2>2. ASSUME NEW a \in Accounts, NEW c \in Calls,
               analysis[a] \in {"none", "over"} \/ (analysis[a] = "calls" /\ c = "summary")
                 \/ (analysis[a] = "summary" /\ c \in Pattern)
        PROVE  stage'[<<a, c>>] = stage[<<a, c>>]
    <3>1. <<a, c>> # k
      BY <1>t, <2>1, <2>2, ServiceAssumption
    <3>2. QED
      BY <1>4, <3>1
  <2>3. Pattern \subseteq Calls /\ "summary" \in Calls
    BY DEF Calls
  <2>4. QED
    BY <2>2, <2>3 DEF IInv, StagesFit
<1>8. Held'
  BY <1>1 DEF IInv, Held, InHand
<1>9. InOrder'
  <2>1. "batches" \notin closed
    BY AskedFacts
  <2>2. QED
    BY <1>1, <2>1 DEF IInv, InOrder
<1>10. NoneRefusedByShutdown'
  BY <1>3 DEF IInv, NoneRefusedByShutdown
<1>11. QED
  BY <1>5, <1>6, <1>7, <1>8, <1>9, <1>10 DEF IInv

\* A call that submits is asked for by an open analysis.
LEMMA EntersKeeps ==
  ASSUME IInv, Parts, NEW k \in Accounts \X Calls, Enters(k)
  PROVE  IInv'
<1> DEFINE j == Asking(k)
<1>1. stage[k] = "asked" /\ UNCHANGED <<batchVars, serverVars, analysis, stage>>
  BY DEF Enters, Live, analysisVars
<1>2. /\ caller[j] \in {"idle", "blocked"}
      /\ caller' = [caller EXCEPT ![j] = "waiting"] \/ caller' = [caller EXCEPT ![j] = "blocked"]
      /\ UNCHANGED <<queueLife, accepting>>
  BY DEF Enters, Queue!Submit, Queue!Admit, Queue!Enqueue, Queue!GivesUp, Queue!CallerGoes, Queue!shutdownVars
<1> HIDE DEF j
<1>3. stage' = [stage EXCEPT ![k] = "asked"]
  BY <1>1 DEF IInv, OwnTypes
<1>4. QED
  BY <1>1, <1>2, <1>3, CallKeeps DEF j

\* A submit finds the queue closed only before it starts or after the batches have
\* closed, when no call is under way.
LEMMA RefusedKeeps ==
  ASSUME IInv, Parts, NEW k \in Accounts \X Calls, Refused(k)
  PROVE  IInv'
<1> DEFINE j == Asking(k)
<1>1. stage[k] = "asked" /\ stage' = [stage EXCEPT ![k] = "failed"]
      /\ UNCHANGED <<batchVars, serverVars, analysis>>
  BY DEF Refused, Live, StageBecomes
<1>2. accepting
  BY <1>1, AskedFacts DEF IInv, InOrder, Parts
<1>3. /\ caller[j] = "blocked"
      /\ caller' = [caller EXCEPT ![j] = "full"]
      /\ UNCHANGED <<queueLife, accepting>>
  BY <1>2 DEF Refused, Queue!SubmitClosed, Queue!PutTimeout, Queue!GivesUp, Queue!CallerGoes,
              Queue!shutdownVars
<1>4. QED
  BY <1>1, <1>3, CallKeeps DEF Over

\* An answer goes to the call that waits for it.
LEMMA ReturnsKeeps ==
  ASSUME IInv, Parts, NEW k \in Accounts \X Calls, Returns(k)
  PROVE  IInv'
<1> DEFINE j == Asking(k)
<1>1. stage[k] = "asked"
  BY DEF Returns, Live
<1>2. PICK next \in {"asked", "used", "failed"} :
        stage' = [stage EXCEPT ![k] = next] /\ UNCHANGED <<batchVars, serverVars, analysis>>
  BY DEF Returns, StageBecomes
<1>3. /\ caller[j] = "waiting"
      /\ caller' = [caller EXCEPT ![j] = "answered"] \/ caller' = [caller EXCEPT ![j] = "failed"]
      /\ UNCHANGED <<queueLife, accepting>>
  BY DEF Returns, Queue!Return, Queue!GivesUp, Queue!CallerGoes, Queue!shutdownVars
<1>4. QED
  BY <1>1, <1>2, <1>3, CallKeeps DEF Over

\* A cancelled call leaves the queue.
LEMMA LeavesKeeps ==
  ASSUME IInv, Parts, NEW k \in Accounts \X Calls, Leaves(k)
  PROVE  IInv'
<1> DEFINE j == Asking(k)
<1>1. stage[k] = "asked" /\ stage' = [stage EXCEPT ![k] = "left"]
      /\ UNCHANGED <<batchVars, serverVars, analysis>>
  BY DEF Leaves, StageBecomes
<1>2. /\ caller[j] \in {"blocked", "waiting"}
      /\ caller' = [caller EXCEPT ![j] = "withdrawn"] \/ caller' = [caller EXCEPT ![j] = "left"]
      /\ UNCHANGED <<queueLife, accepting>>
  BY DEF Leaves, Queue!CancelBlocked, Queue!CancelWaiting, Queue!GivesUp, Queue!CallerGoes,
         Queue!shutdownVars
<1>3. QED
  BY <1>1, <1>2, CallKeeps

-----------------------------------------------------------------------------
(* Analyses *)

\* Calls that begin to wait, or leave before they have submitted, disturb no submit.
LEMMA OpenKept ==
  ASSUME IInv, UNCHANGED caller,
         \A k \in Accounts \X Calls :
           stage[k] = "asked" /\ caller[Asking(k)] # "idle" => stage'[k] = "asked"
  PROVE  OpenIsAsked'
<1> SUFFICES ASSUME NEW j \in Jobs, caller'[j] \in {"blocked", "waiting"}
             PROVE  stage'[Of(j)] = "asked" /\ Asking(Of(j))' = j
  BY DEF OpenIsAsked, Of
<1>1. Of(j) \in Accounts \X Calls
  BY OfFacts
<1>2. stage[Of(j)] = "asked" /\ Asking(Of(j)) = j
  BY DEF IInv, OpenIsAsked
<1>3. Asking(Of(j))' = Asking(Of(j))
  BY DEF Asking, Of
<1>4. QED
  BY <1>1, <1>2, <1>3

\* An analysis begins with its parallel calls.
LEMMA BeginKeeps ==
  ASSUME IInv, Parts, NEW a \in Accounts, Begin(a)
  PROVE  IInv'
<1>1. /\ analysis[a] = "none"
      /\ analysis' = [analysis EXCEPT ![a] = "calls"]
      /\ stage' = [k \in Accounts \X Calls |-> IF k[1] = a /\ k[2] \in Pattern THEN "asked" ELSE stage[k]]
      /\ UNCHANGED <<batchLife, files, at, job, queueLife, accepting, caller, server, closed>>
  BY DEF Begin, batchVars, queueVars, serverVars
<1>2. (a \in Uploads /\ server = "up") \/ InHand(a)
  BY DEF Begin, InHand
<1>3. analysis'[a] = "calls" /\ \A b \in Accounts : b # a => analysis'[b] = analysis[b]
  BY <1>1 DEF IInv, OwnTypes
<1>4. OwnTypes'
  BY <1>1 DEF IInv, OwnTypes
<1>5. OpenIsAsked'
  BY <1>1, OpenKept
<1>6. StagesFit'
  <2>1. stage'[<<a, "summary">>] = "idle"
    BY <1>1, ServiceAssumption DEF IInv, StagesFit, Calls
  <2>2. \A b \in Accounts, c \in Calls : b # a => stage'[<<b, c>>] = stage[<<b, c>>]
    BY <1>1
  <2>3. Pattern \subseteq Calls /\ "summary" \in Calls
    BY DEF Calls
  <2>4. QED
    BY <1>3, <2>1, <2>2, <2>3 DEF IInv, StagesFit
<1>7. Held'
  <2>1. \A f \in Accounts : InHand(f)' = InHand(f)
    BY <1>1 DEF InHand
  <2>2. Files \subseteq Accounts /\ Uploads \subseteq Accounts /\ Uploads \cap Files = {}
    BY PartsAssumption DEF Accounts
  <2>3. QED
    BY <1>2, <1>3, <2>1, <2>2 DEF IInv, Held
<1>8. server = "up" \/ \E w \in AccountWorkers : at[w] = "analysing"
  BY <1>2 DEF InHand
<1>9. batchLife = "up" /\ server # "starting" /\ (server = "stopping" => a \notin Uploads)
  <2>1. InHand(a) => a \in Files
    BY DEF InHand, Parts
  <2>2. a \in Uploads => a \notin Files
    BY PartsAssumption
  <2>3. QED
    BY <1>2, <1>8, <2>1, <2>2 DEF IInv, InOrder
<1>10. InOrder'
  <2>1. Uploads \subseteq Accounts
    BY DEF Accounts
  <2>2. \A u \in Uploads : server = "stopping" => analysis'[u] = analysis[u]
    BY <1>3, <1>9, <2>1
  <2>3. QED
    BY <1>1, <1>9, <2>2 DEF IInv, InOrder
<1>11. NoneRefusedByShutdown'
  BY <1>1 DEF IInv, NoneRefusedByShutdown
<1>12. QED
  BY <1>4, <1>5, <1>6, <1>7, <1>10, <1>11 DEF IInv

\* The parallel calls are collected once all of them are over.
LEMMA GatherKeeps ==
  ASSUME IInv, Parts, NEW a \in Accounts, Gather(a)
  PROVE  IInv'
<1>1. /\ analysis[a] = "calls"
      /\ \A c \in Pattern : stage[<<a, c>>] \in Over
      /\ UNCHANGED <<batchLife, files, at, job, queueLife, accepting, caller, server, closed>>
      /\ \/ /\ analysis' = [analysis EXCEPT ![a] = "summary"]
            /\ stage' = [stage EXCEPT ![<<a, "summary">>] = "asked"]
         \/ analysis' = [analysis EXCEPT ![a] = "over"] /\ UNCHANGED stage
  BY DEF Gather, Gathered, batchVars, queueVars, serverVars
<1>2. analysis'[a] \in {"summary", "over"} /\ \A b \in Accounts : b # a => analysis'[b] = analysis[b]
  BY <1>1 DEF IInv, OwnTypes
<1>3. \A k \in Accounts \X Calls :
        stage'[k] = stage[k] \/ (stage'[k] = "asked" /\ k = <<a, "summary">> /\ analysis'[a] = "summary")
  BY <1>1 DEF IInv, OwnTypes
<1>4. "summary" \in Calls /\ Pattern \subseteq Calls
  BY DEF Calls
<1>5. OwnTypes'
  BY <1>1, <1>4 DEF IInv, OwnTypes
<1>6. OpenIsAsked'
  BY <1>1, <1>3, OpenKept
<1>7. StagesFit'
  <2>1. \A b \in Accounts, c \in Calls : b # a \/ c # "summary" => stage'[<<b, c>>] = stage[<<b, c>>]
    BY <1>3
  <2>2. analysis'[a] = "over" => stage'[<<a, "summary">>] = stage[<<a, "summary">>]
    BY <1>3, <1>4
  <2>3. stage[<<a, "summary">>] = "idle"
    BY <1>1 DEF IInv, StagesFit
  <2>4. \A c \in Calls : c # "summary" => stage[<<a, c>>] \notin {"asked"}
    BY <1>1 DEF Calls, Over
  <2>5. analysis'[a] = "over" => \A c \in Calls : stage'[<<a, c>>] # "asked"
    BY <2>1, <2>2, <2>3, <2>4
  <2>6. \A c \in Pattern : stage'[<<a, c>>] \in Over
    BY <1>1, <1>4, <2>1, ServiceAssumption
  <2>7. ASSUME NEW b \in Accounts
        PROVE  /\ analysis'[b] = "none" => \A c \in Calls : stage'[<<b, c>>] = "idle"
               /\ analysis'[b] = "calls" => stage'[<<b, "summary">>] = "idle"
               /\ analysis'[b] = "summary" => \A c \in Pattern : stage'[<<b, c>>] \in Over
               /\ analysis'[b] = "over" => \A c \in Calls : stage'[<<b, c>>] # "asked"
    <3>1. CASE b = a
      BY <1>2, <2>5, <2>6, <3>1
    <3>2. CASE b # a
      <4>1. analysis'[b] = analysis[b] /\ \A c \in Calls : stage'[<<b, c>>] = stage[<<b, c>>]
        BY <1>2, <2>1, <3>2
      <4>2. QED
        BY <1>4, <4>1 DEF IInv, StagesFit
    <3>3. QED
      BY <3>1, <3>2
  <2>8. QED
    BY <2>7 DEF StagesFit
<1>8. Held'
  <2>1. \A f \in Accounts : InHand(f)' = InHand(f)
    BY <1>1 DEF InHand
  <2>2. Files \subseteq Accounts /\ Uploads \subseteq Accounts
    BY DEF Accounts
  <2>3. QED
    BY <1>1, <1>2, <2>1, <2>2 DEF IInv, Held
<1>9. batchLife = "up" \/ server # "stopping"
  <2>1. a \in Files => \E w \in AccountWorkers : at[w] = "analysing"
    BY <1>1 DEF IInv, Held, InHand
  <2>2. a \in Uploads => server # "stopping"
    BY <1>1 DEF IInv, InOrder
  <2>3. QED
    BY <2>1, <2>2 DEF IInv, InOrder, Accounts
<1>10. InOrder'
  <2>1. Uploads \subseteq Accounts
    BY DEF Accounts
  <2>2. batchLife = "up" /\ server # "starting"
    BY <1>1, <1>9 DEF IInv, InOrder
  <2>3. \A u \in Uploads : server = "stopping" => analysis'[u] = analysis[u]
    BY <1>1, <1>2, <2>1 DEF IInv, InOrder
  <2>4. QED
    BY <1>1, <2>2, <2>3 DEF IInv, InOrder
<1>11. NoneRefusedByShutdown'
  BY <1>1 DEF IInv, NoneRefusedByShutdown
<1>12. QED
  BY <1>5, <1>6, <1>7, <1>8, <1>10, <1>11 DEF IInv

\* An analysis ends with its summary.
LEMMA SummaryOverKeeps ==
  ASSUME IInv, NEW a \in Accounts, SummaryOver(a)
  PROVE  IInv'
<1>1. /\ analysis[a] = "summary" /\ stage[<<a, "summary">>] \in Over
      /\ analysis' = [analysis EXCEPT ![a] = "over"]
      /\ UNCHANGED <<batchLife, files, at, job, queueLife, accepting, caller, server, closed, stage>>
  BY DEF SummaryOver, batchVars, queueVars, serverVars
<1>2. analysis'[a] = "over" /\ \A b \in Accounts : b # a => analysis'[b] = analysis[b]
  BY <1>1 DEF IInv, OwnTypes
<1>3. OwnTypes' /\ OpenIsAsked'
  BY <1>1, OpenKept DEF IInv, OwnTypes
<1>4. StagesFit'
  <2>1. \A c \in Calls : stage[<<a, c>>] # "asked"
    BY <1>1 DEF IInv, StagesFit, Calls, Over
  <2>2. QED
    BY <1>1, <1>2, <2>1 DEF IInv, StagesFit
<1>5. Held'
  <2>1. \A f \in Accounts : InHand(f)' = InHand(f)
    BY <1>1 DEF InHand
  <2>2. Files \subseteq Accounts /\ Uploads \subseteq Accounts
    BY DEF Accounts
  <2>3. QED
    BY <1>2, <2>1, <2>2 DEF IInv, Held
<1>6. InOrder'
  <2>1. Uploads \subseteq Accounts
    BY DEF Accounts
  <2>2. QED
    BY <1>1, <1>2, <2>1 DEF IInv, InOrder
<1>7. NoneRefusedByShutdown'
  BY <1>1 DEF IInv, NoneRefusedByShutdown
<1>8. QED
  BY <1>3, <1>4, <1>5, <1>6, <1>7 DEF IInv

-----------------------------------------------------------------------------
(* Batches *)

\* A step of the batch runner with the queue, the server and the analyses as they were.
LEMMA BatchKeeps ==
  ASSUME IInv, UNCHANGED <<queueVars, serverVars, analysisVars>>,
         batchLife' = batchLife,
         server # "starting",
         batchLife # "up" => \A w \in AccountWorkers : at'[w] # "analysing",
         \A f \in Files : analysis[f] \in {"calls", "summary"} /\ InHand(f) => InHand(f)'
  PROVE  IInv'
<1>1. UNCHANGED <<queueLife, accepting, caller, server, closed, analysis, stage>>
  BY DEF queueVars, serverVars, analysisVars
<1>2. OwnTypes' /\ StagesFit' /\ NoneRefusedByShutdown'
  BY <1>1 DEF IInv, OwnTypes, StagesFit, NoneRefusedByShutdown
<1>3. OpenIsAsked'
  BY <1>1, OpenKept
<1>4. Held'
  BY <1>1 DEF IInv, Held
<1>5. InOrder'
  BY <1>1 DEF IInv, InOrder
<1>6. QED
  BY <1>2, <1>3, <1>4, <1>5 DEF IInv

\* What a batch worker does between two files is nothing to the calls.
LEMMA AccountWorkerKeeps ==
  ASSUME IInv, Parts, NEW w \in AccountWorkers, AccountWorker(w)
  PROVE  IInv'
<1>1. UNCHANGED <<queueVars, serverVars, analysisVars>>
  BY DEF AccountWorker
<1>2. /\ at[w] # "analysing"
      /\ \A v \in AccountWorkers : v # w => at'[v] = at[v] /\ job'[v] = job[v]
      /\ batchLife' = batchLife
      /\ batchLife = "up" \/ at'[w] # "analysing"
      /\ at[w] # "get" \/ files # <<>>
  <2>1. CASE Batch!StartFile(w) \/ Batch!TakeRejected(w)
    BY <2>1 DEF Batch!StartFile, Batch!TakeRejected, Batch!Get, Parts
  <2>2. CASE Batch!Lock(w)
    BY <2>2 DEF Batch!Lock, Parts
  <2>3. CASE Batch!AppendRow(w) \/ Batch!AppendFails(w)
    BY <2>3 DEF Batch!AppendRow, Batch!AppendFails, Batch!Unlock, Parts
  <2>4. QED
    BY <2>1, <2>2, <2>3 DEF AccountWorker
<1>3. server # "starting"
  BY <1>2 DEF IInv, InOrder
<1>4. batchLife # "up" => \A v \in AccountWorkers : at'[v] # "analysing"
  BY <1>2 DEF IInv, InOrder
<1>5. \A f \in Files : InHand(f) => InHand(f)'
  BY <1>2 DEF InHand
<1>6. QED
  BY <1>1, <1>2, <1>3, <1>4, <1>5, BatchKeeps

\* A worker ends the file whose analysis is over.
LEMMA EndFileKeeps ==
  ASSUME IInv, Parts, NEW w \in AccountWorkers, NEW outcome, EndFile(w, outcome)
  PROVE  IInv'
<1>1. /\ UNCHANGED <<queueVars, serverVars, analysisVars>>
      /\ analysis[job[w]] \in {"over", "none"}
      /\ at[w] = "analysing" /\ batchLife = "up"
      /\ at' = [at EXCEPT ![w] = "lock"]
      /\ UNCHANGED <<job, batchLife>>
  BY DEF EndFile, Batch!EndAnalysis
<1>2. server # "starting"
  BY <1>1 DEF IInv, InOrder
<1>3. ASSUME NEW f \in Files, analysis[f] \in {"calls", "summary"}, InHand(f)
      PROVE  InHand(f)'
  BY <1>1, <1>3 DEF InHand, Parts
<1>4. QED
  BY <1>1, <1>2, <1>3, BatchKeeps

\* A batch comes in while the server takes requests.
LEMMA SubmitKeeps ==
  ASSUME IInv, NEW b, NEW rejected, Submit(b, rejected)
  PROVE  IInv'
<1>1. /\ UNCHANGED <<queueVars, serverVars, analysisVars>>
      /\ server = "up" /\ batchLife = "up"
      /\ UNCHANGED <<batchLife, at, job>>
  BY DEF Submit, Batch!Submit, Batch!Enqueue, Batch!workerVars
<1>2. \A f \in Files : InHand(f) => InHand(f)'
  BY <1>1 DEF InHand
<1>3. QED
  BY <1>1, <1>2, BatchKeeps

-----------------------------------------------------------------------------
(* Start and stop *)

\* A part is closed when those before it are.
LEMMA TurnFacts ==
  /\ \A part : Turn(part) => server = "stopping"
  /\ Turn("queue") => "batches" \in closed
  /\ Turn("client") => "batches" \in closed /\ "queue" \in closed
<1>1. Len(Order) = 3 /\ Order[1] = "batches" /\ Order[2] = "queue" /\ Order[3] = "client"
  BY DEF Order
<1>2. \A i \in 1..3 : Order[i] = "queue" => i = 2
  BY <1>1
<1>3. \A i \in 1..3 : Order[i] = "client" => i = 3
  BY <1>1
<1>4. Turn("queue") => "batches" \in closed
  BY <1>1, <1>2 DEF Turn
<1>5. Turn("client") => "batches" \in closed /\ "queue" \in closed
  BY <1>1, <1>3 DEF Turn
<1>6. QED
  BY <1>4, <1>5 DEF Turn

\* A step that leaves the batches, the calls and the analyses alone.
LEMMA OthersKeep ==
  ASSUME IInv, UNCHANGED <<batchVars, caller, analysisVars>>, OwnTypes', InOrder'
  PROVE  IInv'
<1>1. UNCHANGED <<at, job, caller, analysis, stage>>
  BY DEF batchVars, analysisVars
<1>2. OpenIsAsked'
  BY <1>1, OpenKept
<1>3. StagesFit' /\ Held' /\ NoneRefusedByShutdown'
  BY <1>1 DEF IInv, StagesFit, Held, InHand, NoneRefusedByShutdown
<1>4. QED
  BY <1>2, <1>3 DEF IInv

\* The start opens the queue; no call has been asked yet.
LEMMA StartKeeps == IInv /\ Start => IInv'
<1> SUFFICES ASSUME IInv, Start
             PROVE  IInv'
  OBVIOUS
<1>1. /\ server = "starting" /\ server' = "up"
      /\ queueLife' = "running" /\ accepting'
      /\ UNCHANGED <<batchVars, caller, closed, analysisVars>>
  BY DEF Start, Queue!Start
<1>2. UNCHANGED <<batchLife, files, at, analysis, stage>>
  BY <1>1 DEF batchVars, analysisVars
<1>3. OwnTypes' /\ InOrder'
  BY <1>1, <1>2 DEF IInv, OwnTypes, InOrder
<1>4. QED
  BY <1>1, <1>3, OthersKeep

\* The server stops taking requests, and hands over to the shutdown handler when none is left.
LEMMA ServerKeeps == IInv /\ (Drain \/ StopHandler) => IInv'
<1> SUFFICES ASSUME IInv, Drain \/ StopHandler
             PROVE  IInv'
  OBVIOUS
<1>1. /\ UNCHANGED <<batchVars, queueVars, closed, analysisVars>>
      /\ \/ server = "up" /\ server' = "draining"
         \/ /\ server = "draining" /\ server' = "stopping"
            /\ \A u \in Uploads : analysis[u] \in {"none", "over"}
  BY DEF Drain, StopHandler
<1>2. UNCHANGED <<batchLife, files, at, queueLife, accepting, caller, analysis, stage>>
  BY <1>1 DEF batchVars, queueVars, analysisVars
<1>3. OwnTypes' /\ InOrder'
  BY <1>1, <1>2 DEF IInv, OwnTypes, InOrder
<1>4. QED
  BY <1>1, <1>2, <1>3, OthersKeep

\* The analyses in hand are cancelled; those of their calls that had not submitted
\* leave at once, the others still have to let go of their submit.
LEMMA CloseBatchesKeeps == IInv /\ Parts /\ CloseBatches => IInv'
<1> SUFFICES ASSUME IInv, Parts, CloseBatches
             PROVE  IInv'
  OBVIOUS
<1>1. /\ server = "stopping" /\ batchLife = "up" /\ batchLife' = "closing"
      /\ at' = [w \in AccountWorkers |-> IF at[w] = "writing" THEN "writing" ELSE "gone"]
      /\ analysis' = [a \in Accounts |-> IF InHand(a) THEN "cancelled" ELSE analysis[a]]
      /\ stage' = [k \in Accounts \X Calls |->
           IF InHand(k[1]) /\ stage[k] = "asked" /\ caller[Asking(k)] = "idle" THEN "left" ELSE stage[k]]
      /\ UNCHANGED <<files, job, queueLife, accepting, caller, server, closed>>
  BY TurnFacts DEF CloseBatches, Batch!Close, queueVars, serverVars
<1>2. OwnTypes'
  BY <1>1 DEF IInv, OwnTypes
<1>3. OpenIsAsked'
  BY <1>1, OpenKept
<1>4. \A a \in Accounts : analysis'[a] = analysis[a] \/ (analysis'[a] = "cancelled" /\ InHand(a))
  BY <1>1
<1>5. \A a \in Accounts, c \in Calls :
        stage'[<<a, c>>] = stage[<<a, c>>] \/ (InHand(a) /\ stage'[<<a, c>>] = "left")
  BY <1>1
<1>6. StagesFit'
  <2>1. \A a \in Accounts : analysis'[a] # "cancelled" => ~InHand(a)
    BY <1>1
  <2>2. \A a \in Accounts, c \in Calls : analysis'[a] # "cancelled" => stage'[<<a, c>>] = stage[<<a, c>>]
    BY <1>5, <2>1
  <2>3. \A a \in Accounts : analysis'[a] # "cancelled" => analysis'[a] = analysis[a]
    BY <1>4
  <2>4. "summary" \in Calls /\ Pattern \subseteq Calls
    BY DEF Calls
  <2>5. QED
    BY <2>2, <2>3, <2>4 DEF IInv, StagesFit
<1>7. \A a : InHand(a) => a \in Files
  BY DEF InHand, Parts
<1>8. Held'
  <2>1. Files \subseteq Accounts /\ Uploads \subseteq Accounts /\ Uploads \cap Files = {}
    BY PartsAssumption DEF Accounts
  <2>2. \A f \in Files : analysis'[f] \notin {"calls", "summary"}
    BY <1>1, <2>1 DEF IInv, Held
  <2>3. \A u \in Uploads : analysis'[u] = analysis[u]
    BY <1>1, <1>7, <2>1
  <2>4. QED
    BY <2>2, <2>3 DEF IInv, Held
<1>9. InOrder'
  <2>1. "batches" \notin closed
    BY <1>1 DEF IInv, InOrder
  <2>2. \A w \in AccountWorkers : at'[w] # "analysing"
    BY <1>1
  <2>3. Uploads \subseteq Accounts /\ \A u \in Uploads : ~InHand(u)
    BY <1>7, PartsAssumption DEF Accounts
  <2>4. \A u \in Uploads : analysis'[u] = analysis[u]
    BY <1>1, <2>3
  <2>5. QED
    BY <1>1, <2>1, <2>2, <2>4 DEF IInv, InOrder
<1>10. NoneRefusedByShutdown'
  BY <1>1 DEF IInv, NoneRefusedByShutdown
<1>11. QED
  BY <1>2, <1>3, <1>6, <1>8, <1>9, <1>10 DEF IInv

\* When the workers have returned nothing waits for the queue any more: an upload would
\* have held up the shutdown, and a file under way would be in the hand of a worker.
LEMMA BatchesClosedKeeps == IInv /\ Parts /\ BatchesClosed => IInv'
<1> SUFFICES ASSUME IInv, Parts, BatchesClosed
             PROVE  IInv'
  OBVIOUS
<1>1. /\ server = "stopping" /\ batchLife = "closing"
      /\ \A k \in Accounts \X Calls : ~(analysis[k[1]] = "cancelled" /\ stage[k] = "asked")
      /\ closed' = closed \cup {"batches"}
      /\ UNCHANGED <<batchVars, queueVars, server, analysisVars>>
  BY TurnFacts DEF BatchesClosed
<1>2. UNCHANGED <<batchLife, files, at, queueLife, accepting, caller, analysis, stage>>
  BY <1>1 DEF batchVars, queueVars, analysisVars
<1>3. ASSUME NEW k \in Accounts \X Calls, stage[k] = "asked"
      PROVE  FALSE
  <2>1. k[1] \in Accounts /\ analysis[k[1]] \in {"calls", "summary"}
    BY <1>1, <1>3, AskedFacts
  <2>2. CASE k[1] \in Files
    <3>1. \E w \in AccountWorkers : at[w] = "analysing"
      BY <2>1, <2>2 DEF IInv, Held, InHand
    <3>2. QED
      BY <1>1, <3>1 DEF IInv, InOrder
  <2>3. CASE k[1] \in Uploads
    BY <1>1, <2>1, <2>3 DEF IInv, InOrder
  <2>4. QED
    BY <2>1, <2>2, <2>3 DEF Accounts
<1>4. OwnTypes' /\ InOrder'
  BY <1>1, <1>2, <1>3 DEF IInv, OwnTypes, InOrder
<1>5. QED
  BY <1>1, <1>2, <1>4, OthersKeep

\* The queue is closed when no analysis is left.
LEMMA CloseQueueKeeps == IInv /\ CloseQueue => IInv'
<1> SUFFICES ASSUME IInv, CloseQueue
             PROVE  IInv'
  OBVIOUS
<1>1. /\ "batches" \in closed /\ server = "stopping"
      /\ queueLife \in {"running", "stopping"} /\ queueLife' \in {"joining", "stopping"}
      /\ UNCHANGED <<batchVars, caller, serverVars, analysisVars>>
  BY TurnFacts DEF CloseQueue, Queue!Close, Queue!BeginClose, Queue!CloseGoesOn, Queue!PutStops
<1>2. UNCHANGED <<batchLife, files, at, analysis, stage, server, closed>>
  BY <1>1 DEF batchVars, analysisVars, serverVars
<1>3. OwnTypes' /\ InOrder'
  BY <1>1, <1>2 DEF IInv, OwnTypes, InOrder
<1>4. QED
  BY <1>1, <1>3, OthersKeep

\* The client is closed when the queue is.
LEMMA PartClosedKeeps == IInv /\ (QueueClosed \/ CloseClient) => IInv'
<1> SUFFICES ASSUME IInv, QueueClosed \/ CloseClient
             PROVE  IInv'
  OBVIOUS
<1>1. /\ server = "stopping" /\ "batches" \in closed
      /\ UNCHANGED <<batchVars, caller, server, analysisVars>>
      /\ \/ closed' = closed \cup {"queue"} /\ queueLife = "joining" /\ queueLife' = "closed"
         \/ closed' = closed \cup {"client"} /\ "queue" \in closed /\ UNCHANGED queueLife
      /\ UNCHANGED accepting
  BY TurnFacts DEF QueueClosed, CloseClient, Queue!Join, queueVars
<1>2. UNCHANGED <<batchLife, files, at, analysis, stage>>
  BY <1>1 DEF batchVars, analysisVars
<1>3. OwnTypes' /\ InOrder'
  BY <1>1, <1>2 DEF IInv, OwnTypes, InOrder
<1>4. QED
  BY <1>1, <1>3, OthersKeep

\* A worker of the queue changes no call and nothing of the lifecycle.
LEMMA LlmWorkerKeeps ==
  ASSUME IInv, NEW w \in LlmWorkers, LlmWorker(w)
  PROVE  IInv'
<1>1. UNCHANGED <<batchVars, caller, serverVars, analysisVars, queueLife, accepting>>
  BY DEF LlmWorker, Queue!WorkerStep, Queue!TakeStop, Queue!TakeCancelled, Queue!TakeJob, Queue!Take,
         Queue!Finish, Queue!Deliver, Queue!shutdownVars
<1>2. UNCHANGED <<batchLife, files, at, analysis, stage, server, closed>>
  BY <1>1 DEF batchVars, analysisVars, serverVars
<1>3. OwnTypes' /\ InOrder'
  BY <1>1, <1>2 DEF IInv, OwnTypes, InOrder
<1>4. QED
  BY <1>1, <1>3, OthersKeep

-----------------------------------------------------------------------------
(* The whole *)

\* Every step of the service keeps the invariant.
LEMMA IInvStep == IInv /\ Parts /\ [Next]_vars => IInv'
<1> SUFFICES ASSUME IInv, Parts, [Next]_vars
             PROVE  IInv'
  OBVIOUS
<1>1. CASE UNCHANGED vars
  <2>1. UNCHANGED <<batchVars, caller, analysisVars, queueLife, accepting, serverVars>>
    BY <1>1 DEF vars, queueVars
  <2>2. UNCHANGED <<batchLife, files, at, analysis, stage, server, closed>>
    BY <2>1 DEF batchVars, analysisVars, serverVars
  <2>3. OwnTypes' /\ InOrder'
    BY <2>1, <2>2 DEF IInv, OwnTypes, InOrder
  <2>4. QED
    BY <2>1, <2>3, OthersKeep
<1>2. ASSUME NEW w \in AccountWorkers, AccountWorker(w) \/ \E outcome \in Batch!Final : EndFile(w, outcome)
      PROVE  IInv'
  BY <1>2, AccountWorkerKeeps, EndFileKeeps
<1>3. ASSUME NEW a \in Accounts, Begin(a) \/ Gather(a) \/ SummaryOver(a)
      PROVE  IInv'
  BY <1>3, BeginKeeps, GatherKeeps, SummaryOverKeeps
<1>4. ASSUME NEW k \in Accounts \X Calls, Enters(k) \/ Refused(k) \/ Returns(k) \/ Leaves(k)
      PROVE  IInv'
  BY <1>4, EntersKeeps, RefusedKeeps, ReturnsKeeps, LeavesKeeps
<1>5. CASE Start \/ Drain \/ StopHandler \/ CloseBatches \/ BatchesClosed \/ CloseQueue \/ QueueClosed \/ CloseClient
  BY <1>5, StartKeeps, ServerKeeps, CloseBatchesKeeps, BatchesClosedKeeps, CloseQueueKeeps, PartClosedKeeps
<1>6. ASSUME NEW b \in Batches, NEW rejected \in SUBSET (1..BatchSize), Submit(b, rejected)
      PROVE  IInv'
  BY <1>6, SubmitKeeps
<1>7. Files \subseteq Accounts /\ Uploads \subseteq Accounts
  BY DEF Accounts
<1>8. CASE Goes
  BY <1>2, <1>3, <1>4, <1>5, <1>7, <1>8, LlmWorkerKeeps DEF Goes
<1>9. QED
  BY <1>1, <1>3, <1>5, <1>6, <1>7, <1>8 DEF Next, Terminated

\* So it holds for good.
LEMMA IInvAlways == Spec => []IInv
  BY IInvInit, IInvStep, PartsAlways, PTL DEF Spec

\* All variables keep their types, those of the parts among them.
THEOREM TypeCorrect == Spec => []TypeOK
<1>1. QueueAlone!TypeOK => Queue!TypeOK
  BY DEF QueueAlone!TypeOK, Queue!TypeOK, QueueAlone!Settled, QueueAlone!Refused, Queue!Settled, Queue!Refused
<1>2. BatchAlone!TypeOK => Batch!TypeOK
  BY DEF BatchAlone!TypeOK, BatchAlone!Files, BatchAlone!Positions, BatchAlone!Status, BatchAlone!Final,
         Batch!TypeOK, Batch!Files, Batch!Positions, Batch!Status, Batch!Final
<1>3. IInv /\ Queue!TypeOK /\ Batch!TypeOK => TypeOK
  BY DEF IInv, OwnTypes, TypeOK
<1>4. QED
  BY <1>1, <1>2, <1>3, PartsFacts, IInvAlways, PTL

\* The promise of the queue to its callers (OneShotJobs) is kept in the service too: a
\* call is executed at most once, and one whose caller was refused is not.
THEOREM PromiseKeptInService == Spec => QueueAlone!KeepsPromise
<1>1. QueueAlone!QueueAssumption /\ QueueAlone!Spec => QueueAlone!KeepsPromise
  BY QueueAlone!PromiseKept
<1>2. QED
  BY <1>1, QueueAsAlone, PTL

\* No call of the service is sent to the LLM twice on behalf of one request for it, and its
\* caller is told one thing, through analyses, cancellations and the shutdown.
THEOREM ExecutedAtMostOnceInService ==
  Spec => QueueAlone!Promise!AtMostOnce /\ QueueAlone!Promise!OutcomeStands
<1>1. QueueAlone!QueueAssumption /\ QueueAlone!Spec => QueueAlone!Promise!AtMostOnce
  BY QueueAlone!ExecutedAtMostOnce
<1>2. QueueAlone!QueueAssumption /\ QueueAlone!Spec => QueueAlone!Promise!OutcomeStands
  BY QueueAlone!OutcomeStands
<1>3. QED
  BY <1>1, <1>2, QueueAsAlone, PTL

\* A file of a batch is recorded once in the service too, whatever its calls do.
THEOREM RecordedOnceInService == Spec => []BatchAlone!OneRowPerFile
<1>1. BatchAlone!BatchAssumption /\ BatchAlone!Spec => []BatchAlone!OneRowPerFile
  BY BatchAlone!RecordedOnce
<1>2. QED
  BY <1>1, BatchesAsAlone, PTL

\* When the queue has closed nobody waits for it, although alone it can leave callers
\* behind: the batches close first, and uploads hold up the shutdown.
THEOREM ShutdownStrandsNobody == Spec => []NobodyStranded
<1>1. IInv => NobodyStranded
  <2> SUFFICES ASSUME IInv, queueLife = "closed", NEW j \in Jobs, caller[j] \in {"blocked", "waiting"}
               PROVE  FALSE
    BY DEF NobodyStranded
  <2>1. stage[Of(j)] = "asked" /\ Of(j) \in Accounts \X Calls
    BY OfFacts DEF IInv, OpenIsAsked
  <2>2. QED
    BY <2>1 DEF IInv, InOrder
<1>2. QED
  BY <1>1, IInvAlways, PTL

\* No call is refused because the queue is closed or not yet started.
THEOREM NoCallRefused == Spec => []NoneRefusedByShutdown
<1>1. IInv => NoneRefusedByShutdown
  BY DEF IInv
<1>2. QED
  BY <1>1, IInvAlways, PTL

\* The client of the LLM is closed when no worker uses it any more.
THEOREM NoCallWithoutClient == Spec => []ClientClosedLast
<1>1. IInv /\ Parts => ClientClosedLast
  BY DEF IInv, InOrder, Parts, ClientClosedLast, Queue!Busy
<1>2. QED
  BY <1>1, IInvAlways, PartsAlways, PTL
=============================================================================
