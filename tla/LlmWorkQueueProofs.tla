------------------------- MODULE LlmWorkQueueProofs -------------------------
(***************************************************************************)
(* Theorems about the LLM work queue, for every set of jobs, every finite  *)
(* set of workers and every queue size.                                    *)
(***************************************************************************)
EXTENDS LlmWorkQueue, FiniteSetTheorems, SequenceTheorems, TLAPS

USE QueueAssumption

Entry == Jobs \cup {Stop}

-----------------------------------------------------------------------------
(* Sequences, as the actions use them *)

\* What a put does to the queue.
LEMMA AppendFacts ==
  ASSUME NEW q \in Seq(Entry), NEW j \in Entry
  PROVE  /\ Append(q, j) \in Seq(Entry)
         /\ Len(Append(q, j)) = Len(q) + 1
         /\ \A i \in 1..Len(q) : Append(q, j)[i] = q[i]
         /\ Append(q, j)[Len(q) + 1] = j
  BY AppendProperties

\* What a get does to the queue.
LEMMA TailFacts ==
  ASSUME NEW q \in Seq(Entry), q # <<>>
  PROVE  /\ Tail(q) \in Seq(Entry)
         /\ Len(q) \in Nat \ {0}
         /\ Len(Tail(q)) = Len(q) - 1
         /\ \A i \in 1..Len(Tail(q)) : Tail(q)[i] = q[i + 1]
         /\ Head(q) = q[1]
         /\ Head(q) \in Entry
  BY HeadTailProperties, EmptySeq

\* What the stop tokens do to the queue.
LEMMA StopFacts ==
  ASSUME NEW q \in Seq(Entry), NEW n \in Nat
  PROVE  LET r == q \o [i \in 1..n |-> Stop]
         IN  /\ r \in Seq(Entry)
             /\ Len(r) = Len(q) + n
             /\ \A i \in 1..Len(q) : r[i] = q[i]
             /\ \A i \in 1..Len(r) : i > Len(q) => r[i] = Stop
<1> DEFINE t == [i \in 1..n |-> Stop]
<1>1. t \in Seq(Entry) /\ Len(t) = n
  BY DEF Entry
<1>2. /\ q \o t \in Seq(Entry)
      /\ Len(q \o t) = Len(q) + n
      /\ \A i \in 1..(Len(q) + n) : (q \o t)[i] = IF i <= Len(q) THEN q[i] ELSE t[i - Len(q)]
  BY <1>1, ConcatProperties
<1>3. Len(q) \in Nat
  OBVIOUS
<1>4. \A i \in 1..(Len(q) + n) : i > Len(q) => t[i - Len(q)] = Stop
  BY <1>3
<1> HIDE DEF t
<1>5. QED
  BY <1>2, <1>3, <1>4 DEF t

-----------------------------------------------------------------------------
(* Types, the size of the queue and the number of active jobs *)

Counted == TypeOK /\ WithinCapacity /\ ActiveIsExact /\ stopsLeft <= Cardinality(Workers)

\* A slot that is given back was taken, so the counter stays a natural number.
LEMMA BusyFacts ==
  ASSUME running \in [Workers -> Jobs \cup {Free}]
  PROVE  /\ IsFiniteSet(Busy)
         /\ Cardinality(Busy) \in Nat
         /\ \A w \in Busy : Cardinality(Busy) >= 1
  <1>1. Busy \subseteq Workers /\ IsFiniteSet(Workers)
    BY DEF Busy
  <1>2. IsFiniteSet(Busy)
    BY <1>1, FS_Subset
  <1>3. QED
    BY <1>2, FS_CardinalityType, FS_EmptySet

\* The counts are right before the start.
LEMMA CountedInit == Init => Counted
<1> SUFFICES ASSUME Init PROVE Counted
  OBVIOUS
<1>1. queue \in Seq(Entry) /\ Len(queue) = 0
  BY EmptySeq DEF Init
<1>2. TypeOK /\ WithinCapacity
  <2>1. WithinCapacity
    BY <1>1 DEF WithinCapacity
  <2>2. running \in [Workers -> Jobs \cup {Free}] /\ result \in [Jobs -> {"pending", "value", "error", "cancelled"}]
    BY DEF Init
  <2>3. caller \in [Jobs -> {"idle", "blocked", "waiting"} \cup Settled]
    BY DEF Init
  <2>4. QED
    BY <1>1, <2>1, <2>2, <2>3 DEF Init, TypeOK, Entry
<1>3. Busy = {}
  BY DEF Init, Busy
<1>4. ActiveIsExact
  BY <1>3, FS_EmptySet DEF ActiveIsExact, Init
<1>5. Cardinality(Workers) \in Nat
  BY FS_CardinalityType
<1>6. QED
  BY <1>2, <1>4, <1>5 DEF Counted, Init

\* PutStops never overfills the queue and keeps count of what it still owes.
LEMMA PutStopsCounted ==
  ASSUME TypeOK, WithinCapacity, NEW owed \in Nat, PutStops(owed)
  PROVE  /\ queue' \in Seq(Entry)
         /\ Len(queue') <= MaxSize
         /\ stopsLeft' \in Nat
         /\ stopsLeft' <= owed
         /\ lifecycle' \in {"stopping", "joining"}
         /\ Len(queue') >= Len(queue)
         /\ \A i \in 1..Len(queue) : queue'[i] = queue[i]
         /\ \A i \in 1..Len(queue') : i > Len(queue) => queue'[i] = Stop
<1> DEFINE room == MaxSize - Len(queue)
           n == IF owed <= room THEN owed ELSE room
<1>1. queue \in Seq(Entry) /\ Len(queue) \in Nat /\ room \in Nat
  BY DEF TypeOK, Entry, WithinCapacity
<1>2. n \in Nat /\ n <= owed /\ n <= room
  BY <1>1
<1>3. /\ queue' = queue \o [i \in 1..n |-> Stop]
      /\ stopsLeft' = owed - n
      /\ lifecycle' \in {"stopping", "joining"}
  BY DEF PutStops
<1> HIDE DEF n
<1>4. /\ queue' \in Seq(Entry)
      /\ Len(queue') = Len(queue) + n
      /\ \A i \in 1..Len(queue) : queue'[i] = queue[i]
      /\ \A i \in 1..Len(queue') : i > Len(queue) => queue'[i] = Stop
  BY <1>1, <1>2, <1>3, StopFacts
<1>5. QED
  BY <1>1, <1>2, <1>3, <1>4

\* Every step keeps the counts right.
LEMMA CountedStep == Counted /\ [Next]_vars => Counted'
<1> SUFFICES ASSUME Counted, [Next]_vars PROVE Counted'
  OBVIOUS
<1> USE DEF Counted
<1>a. queue \in Seq(Entry) /\ Len(queue) \in Nat
  BY DEF TypeOK, Entry
<1>b. Cardinality(Workers) \in Nat
  BY FS_CardinalityType
<1>c. /\ IsFiniteSet(Busy) /\ Cardinality(Busy) \in Nat
      /\ \A w \in Busy : Cardinality(Busy) >= 1
  BY BusyFacts DEF TypeOK
<1>1. CASE Start
  BY <1>1 DEF Start, TypeOK, WithinCapacity, ActiveIsExact, Busy
<1>2. ASSUME NEW j \in Jobs, CallerStep(j) PROVE Counted'
  <2>1. ASSUME NEW from, NEW to \in {"blocked", "waiting"} \cup Settled, GivesUp(j, from, to)
        PROVE  Counted'
    BY <2>1 DEF GivesUp, CallerGoes, shutdownVars, workerVars, TypeOK, WithinCapacity,
                ActiveIsExact, Busy
  <2>2. ASSUME NEW from, Len(queue) < MaxSize, Enqueue(j, from) PROVE Counted'
    <3>1. queue' \in Seq(Entry) /\ Len(queue') = Len(queue) + 1
      BY <2>2, <1>a, AppendFacts DEF Enqueue, Entry
    <3>2. QED
      BY <2>2, <3>1, <1>a DEF Enqueue, CallerGoes, shutdownVars, workerVars, TypeOK, Entry,
                        WithinCapacity, ActiveIsExact, Busy
  <2>3. CASE CancelWaiting(j)
    BY <2>3 DEF CancelWaiting, CallerGoes, shutdownVars, workerVars, TypeOK, WithinCapacity,
                ActiveIsExact, Busy, Settled
  <2>4. QED
    BY <1>2, <2>1, <2>2, <2>3 DEF CallerStep, SubmitClosed, Submit, Admit, PutTimeout,
      CancelBlocked, Return, Settled, Refused
<1>3. ASSUME NEW w \in Workers, WorkerStep(w) PROVE Counted'
  <2>1. ASSUME Take(w) PROVE queue' \in Seq(Entry) /\ Len(queue') <= MaxSize /\ Head(queue) \in Entry
    BY <2>1, <1>a, TailFacts DEF Take, WithinCapacity
  <2>2. CASE TakeStop(w) \/ TakeCancelled(w)
    BY <2>1, <2>2 DEF TakeStop, TakeCancelled, Take, shutdownVars, workerVars, TypeOK, Entry,
                      WithinCapacity, ActiveIsExact, Busy
  <2>3. CASE TakeJob(w)
    <3>1. Head(queue) \in Jobs /\ Head(queue) # Free
      BY <2>1, <2>3 DEF TakeJob, Entry
    <3>2. Busy' = Busy \cup {w} /\ w \notin Busy
      BY <2>3, <3>1 DEF TakeJob, Take, Busy, TypeOK
    <3>3. Cardinality(Busy') = Cardinality(Busy) + 1
      BY <3>2, <1>c, FS_AddElement
    <3>4. active' = Cardinality(Busy') /\ active' \in Nat
      BY <3>3, <2>3, <1>c DEF TakeJob, ActiveIsExact
    <3>5. QED
      BY <2>1, <2>3, <3>1, <3>4 DEF TakeJob, Take, shutdownVars, TypeOK, Entry,
                                    WithinCapacity, ActiveIsExact
  <2>4. ASSUME NEW o \in {"value", "error"}, Finish(w, o) PROVE Counted'
    <3>1. Busy' = Busy \ {w} /\ w \in Busy
      BY <2>4 DEF Finish, Deliver, Busy, TypeOK
    <3>2. Cardinality(Busy') = Cardinality(Busy) - 1 /\ Cardinality(Busy) >= 1
      BY <3>1, <1>c, FS_RemoveElement
    <3>3. active' = Cardinality(Busy') /\ active' \in Nat
      BY <3>2, <2>4, <1>c DEF Finish, ActiveIsExact
    <3>4. QED
      BY <2>4, <3>3 DEF Finish, Deliver, shutdownVars, TypeOK, WithinCapacity, ActiveIsExact
  <2>5. QED
    BY <1>3, <2>2, <2>3, <2>4 DEF WorkerStep
<1>4. CASE Close
  <2>1. /\ queue' \in Seq(Entry) /\ Len(queue') <= MaxSize
        /\ stopsLeft' \in Nat /\ stopsLeft' <= Cardinality(Workers)
        /\ lifecycle' \in {"stopping", "joining"}
    BY <1>4, <1>b, PutStopsCounted DEF Close, BeginClose
  <2>2. QED
    BY <1>4, <2>1 DEF Close, BeginClose, workerVars, TypeOK, Entry, WithinCapacity,
                      ActiveIsExact, Busy
<1>5. CASE CloseGoesOn
  <2>1. /\ queue' \in Seq(Entry) /\ Len(queue') <= MaxSize
        /\ stopsLeft' \in Nat /\ stopsLeft' <= stopsLeft
        /\ lifecycle' \in {"stopping", "joining"}
    BY <1>5, PutStopsCounted DEF CloseGoesOn, TypeOK
  <2>2. stopsLeft' <= Cardinality(Workers)
    BY <2>1, <1>b DEF TypeOK
  <2>3. QED
    BY <1>5, <2>1, <2>2 DEF CloseGoesOn, workerVars, TypeOK, Entry, WithinCapacity,
                      ActiveIsExact, Busy
<1>6. CASE Join
  BY <1>6 DEF Join, workerVars, TypeOK, WithinCapacity, ActiveIsExact, Busy
<1>7. CASE UNCHANGED vars
  BY <1>7 DEF vars, shutdownVars, workerVars, TypeOK, WithinCapacity, ActiveIsExact, Busy
<1>8. QED
  BY <1>1, <1>2, <1>3, <1>4, <1>5, <1>6, <1>7 DEF Next, CloserStep, Terminated

\* So they are right for good.
LEMMA CountedAlways == Spec => []Counted
  BY CountedInit, CountedStep, PTL DEF Spec

\* Every variable keeps its type: in particular the counter of active jobs and
\* the count of stop tokens still owed never become negative.
THEOREM TypeCorrect == Spec => []TypeOK
<1>1. Counted => TypeOK
  BY DEF Counted
<1>2. QED
  BY <1>1, CountedAlways, PTL

\* However many puts compete for a slot, the queue stays within LLM_QUEUE_MAXSIZE.
THEOREM CapacityRespected == Spec => []WithinCapacity
<1>1. Counted => WithinCapacity
  BY DEF Counted
<1>2. QED
  BY <1>1, CountedAlways, PTL

\* _active counts the operations under way, and they are at most worker_count.
THEOREM ActiveCounted == Spec => [](ActiveIsExact /\ active <= Cardinality(Workers))
<1>1. Counted => ActiveIsExact /\ active <= Cardinality(Workers)
  BY FS_Subset DEF Counted, ActiveIsExact, Busy
<1>2. QED
  BY <1>1, CountedAlways, PTL

-----------------------------------------------------------------------------
(* Where a work item is *)

QueuedOnce == \A i, k \in 1..Len(queue) : queue[i] = queue[k] /\ queue[i] # Stop => i = k

\* A fresh item at the end of the queue.
LEMMA AppendQueued ==
  ASSUME TypeOK, QueuedOnce, NEW j \in Jobs, ~Queued(j), queue' = Append(queue, j)
  PROVE  /\ QueuedOnce'
         /\ \A k \in Jobs : Queued(k)' <=> Queued(k) \/ k = j
<1>1. /\ Len(queue) \in Nat /\ Len(queue') = Len(queue) + 1
      /\ \A i \in 1..Len(queue) : queue'[i] = queue[i]
      /\ queue'[Len(queue) + 1] = j
  BY AppendFacts DEF TypeOK, Entry
<1>2. \A i \in 1..Len(queue') : i \in 1..Len(queue) \/ i = Len(queue) + 1
  BY <1>1
<1>3. \A i \in 1..Len(queue) : i \in 1..Len(queue')
  BY <1>1
<1>4. Len(queue) + 1 \in 1..Len(queue')
  BY <1>1
<1>5. QED
  BY <1>1, <1>2, <1>3, <1>4 DEF QueuedOnce, Queued

\* The oldest entry leaves the queue.
LEMMA TailQueued ==
  ASSUME TypeOK, QueuedOnce, queue # <<>>, queue' = Tail(queue)
  PROVE  /\ QueuedOnce'
         /\ \A k \in Jobs : Queued(k)' <=> Queued(k) /\ k # Head(queue)
         /\ Head(queue) # Stop => Head(queue) \in Jobs /\ Queued(Head(queue))
<1>1. /\ Len(queue) \in Nat \ {0} /\ Len(queue') = Len(queue) - 1
      /\ \A i \in 1..Len(queue') : queue'[i] = queue[i + 1]
      /\ Head(queue) = queue[1] /\ Head(queue) \in Jobs \cup {Stop}
  BY TailFacts DEF TypeOK, Entry
<1>2. QueuedOnce'
  BY <1>1 DEF QueuedOnce
<1>3. ASSUME NEW k \in Jobs, Queued(k)' PROVE Queued(k) /\ k # Head(queue)
  BY <1>1, <1>3 DEF Queued, QueuedOnce
<1>4. ASSUME NEW k \in Jobs, Queued(k), k # Head(queue) PROVE Queued(k)'
  <2>1. PICK i \in 1..Len(queue) : queue[i] = k
    BY <1>4 DEF Queued
  <2>2. i - 1 \in 1..Len(queue') /\ queue'[i - 1] = k
    BY <1>1, <1>4, <2>1
  <2>3. QED
    BY <2>2 DEF Queued
<1>5. Head(queue) # Stop => Head(queue) \in Jobs /\ Queued(Head(queue))
  BY <1>1 DEF Queued
<1>6. QED
  BY <1>2, <1>3, <1>4, <1>5

\* Stop tokens at the end of the queue move no item.
LEMMA StopsQueued ==
  ASSUME TypeOK, WithinCapacity, QueuedOnce, NEW owed \in Nat, PutStops(owed)
  PROVE  QueuedOnce' /\ \A k \in Jobs : Queued(k)' <=> Queued(k)
<1>1. /\ Len(queue) \in Nat /\ Len(queue') \in Nat /\ Len(queue') >= Len(queue)
      /\ \A i \in 1..Len(queue) : queue'[i] = queue[i]
      /\ \A i \in 1..Len(queue') : i > Len(queue) => queue'[i] = Stop
  BY PutStopsCounted, LenProperties DEF TypeOK
<1>2. \A i \in 1..Len(queue') : i \in 1..Len(queue) \/ queue'[i] = Stop
  BY <1>1
<1>3. \A i \in 1..Len(queue) : i \in 1..Len(queue')
  BY <1>1
<1>4. QED
  BY <1>1, <1>2, <1>3 DEF QueuedOnce, Queued

Unsent(j) == caller[j] \in {"idle", "blocked"} \cup Refused

\* What ties the place of an item to its caller and its future.
Placed ==
  /\ QueuedOnce
  /\ \A w \in Busy : ~Queued(running[w])
  /\ \A v, w \in Busy : running[v] = running[w] => v = w
  /\ \A j \in Jobs : Queued(j) => ~Unsent(j) /\ result[j] \in {"pending", "cancelled"}
  /\ \A w \in Busy : ~Unsent(running[w]) /\ result[running[w]] \in {"pending", "cancelled"}
  /\ \A j \in Jobs : Unsent(j) => result[j] = "pending"
  /\ \A j \in Jobs : caller[j] = "waiting" => result[j] # "cancelled"
  /\ \A j \in Jobs : caller[j] = "waiting" /\ result[j] = "pending" =>
       Queued(j) \/ \E w \in Busy : running[w] = j

\* Before the start there is no job anywhere.
LEMMA PlacedInit == Init => Placed
  <1> SUFFICES ASSUME Init PROVE Placed
    OBVIOUS
  <1>1. Len(queue) = 0 /\ Busy = {}
    BY EmptySeq DEF Init, Busy
  <1>2. QED
    BY <1>1 DEF Init, Placed, QueuedOnce, Queued, Unsent, Refused

\* A step that only moves a caller, from where its item is not needed.
LEMMA GivesUpPlaced ==
  ASSUME TypeOK, Placed, NEW j \in Jobs, NEW from, NEW to, GivesUp(j, from, to),
         \/ from \in {"idle", "blocked"} /\ to \in {"blocked"} \cup Refused
         \/ /\ from = "waiting" /\ to \in {"answered", "failed"}
            /\ result[j] \in {"value", "error"}
  PROVE  Placed'
<1>1. /\ UNCHANGED <<queue, result, running>> /\ caller[j] = from
      /\ caller' = [caller EXCEPT ![j] = to]
  BY DEF GivesUp, CallerGoes, workerVars
<1>2. Busy' = Busy /\ QueuedOnce' /\ \A k \in Jobs : Queued(k)' <=> Queued(k)
  BY <1>1 DEF Busy, Placed, QueuedOnce, Queued
<1>3. \A k \in Jobs : k # j => caller'[k] = caller[k]
  BY <1>1 DEF TypeOK
<1>4. caller'[j] = to
  BY <1>1 DEF TypeOK
<1>5. \A w \in Busy : running[w] \in Jobs
  BY DEF Busy, TypeOK
<1>6. Unsent(j)' <=> Unsent(j)
  BY <1>1, <1>4 DEF Unsent, Refused
<1>7. \A k \in Jobs : Unsent(k)' <=> Unsent(k)
  BY <1>3, <1>6 DEF Unsent
<1>8. caller'[j] # "waiting"
  BY <1>4 DEF Refused
<1>9. QED
  BY <1>1, <1>2, <1>3, <1>5, <1>7, <1>8 DEF Placed

\* A job that is put in the queue is there once.
LEMMA EnqueuePlaced ==
  ASSUME TypeOK, Placed, NEW j \in Jobs, NEW from \in {"idle", "blocked"}, Enqueue(j, from)
  PROVE  Placed'
<1>1. /\ UNCHANGED <<result, running>> /\ caller[j] = from
      /\ caller' = [caller EXCEPT ![j] = "waiting"] /\ queue' = Append(queue, j)
  BY DEF Enqueue, CallerGoes, workerVars
<1>2. Unsent(j) /\ ~Queued(j)
  BY <1>1 DEF Placed, Unsent
<1>3. QueuedOnce' /\ \A k \in Jobs : Queued(k)' <=> Queued(k) \/ k = j
  BY <1>1, <1>2, AppendQueued DEF Placed
<1>4. Busy' = Busy /\ \A w \in Busy : running'[w] = running[w] /\ running[w] \in Jobs \ {j}
  BY <1>1, <1>2 DEF Busy, TypeOK, Placed
<1>5. \A k \in Jobs : k # j => caller'[k] = caller[k] /\ (Unsent(k)' <=> Unsent(k))
  BY <1>1 DEF TypeOK, Unsent
<1>6. caller'[j] = "waiting" /\ ~Unsent(j)' /\ result'[j] = "pending"
  BY <1>1, <1>2 DEF TypeOK, Unsent, Refused, Placed
<1>7. QED
  BY <1>1, <1>3, <1>4, <1>5, <1>6 DEF Placed

\* Every step keeps each job in its place.
LEMMA PlacedStep == Counted /\ Placed /\ [Next]_vars => Placed'
<1> SUFFICES ASSUME Counted, Placed, [Next]_vars PROVE Placed'
  OBVIOUS
<1>t. TypeOK /\ WithinCapacity
  BY DEF Counted
<1>b. \A w \in Busy : running[w] \in Jobs
  BY <1>t DEF Busy, TypeOK
\* A step that leaves every item, caller and future alone.
<1>u. ASSUME UNCHANGED <<caller, result, running>>,
             QueuedOnce', \A k \in Jobs : Queued(k)' <=> Queued(k)
      PROVE  Placed'
  <2>1. Busy' = Busy /\ \A k \in Jobs : Unsent(k)' <=> Unsent(k)
    BY <1>u DEF Busy, Unsent
  <2>2. QED
    BY <1>u, <1>b, <2>1 DEF Placed
<1>q. ASSUME UNCHANGED <<caller, result, running, queue>> PROVE Placed'
  <2>1. QueuedOnce' /\ \A k \in Jobs : Queued(k)' <=> Queued(k)
    BY <1>q DEF Placed, QueuedOnce, Queued
  <2>2. QED
    BY <1>q, <1>u, <2>1
<1>1. CASE Start
  BY <1>1, <1>q DEF Start
<1>2. ASSUME NEW j \in Jobs, CallerStep(j) PROVE Placed'
  <2>1. CASE SubmitClosed(j) \/ PutTimeout(j) \/ CancelBlocked(j)
    BY <2>1, <1>t, GivesUpPlaced DEF SubmitClosed, PutTimeout, CancelBlocked, Refused
  <2>2. CASE Submit(j)
    BY <2>2, <1>t, GivesUpPlaced, EnqueuePlaced DEF Submit
  <2>3. CASE Admit(j)
    BY <2>3, <1>t, EnqueuePlaced DEF Admit
  <2>4. CASE Return(j)
    BY <2>4, <1>t, GivesUpPlaced DEF Return
  <2>5. CASE CancelWaiting(j)
    <3>1. /\ UNCHANGED <<queue, running>> /\ caller[j] = "waiting"
          /\ caller' = [caller EXCEPT ![j] = "left"]
          /\ result' = [result EXCEPT ![j] = IF @ = "pending" THEN "cancelled" ELSE @]
      BY <2>5 DEF CancelWaiting, CallerGoes, workerVars
    <3>2. Busy' = Busy /\ QueuedOnce' /\ \A k \in Jobs : Queued(k)' <=> Queued(k)
      BY <3>1 DEF Busy, Placed, QueuedOnce, Queued
    <3>3. \A k \in Jobs : k # j => caller'[k] = caller[k] /\ result'[k] = result[k]
      BY <3>1, <1>t DEF TypeOK
    <3>4. /\ caller'[j] = "left"
          /\ result'[j] = IF result[j] = "pending" THEN "cancelled" ELSE result[j]
      BY <3>1, <1>t DEF TypeOK
    <3>5. \A k \in Jobs : Unsent(k)' <=> Unsent(k)
      BY <3>1, <3>3, <3>4 DEF Unsent, Refused
    <3>6. ~Unsent(j)
      BY <3>1 DEF Unsent, Refused
    <3>7. QED
      BY <3>1, <3>2, <3>3, <3>4, <3>5, <3>6, <1>b DEF Placed
  <2>6. QED
    BY <1>2, <2>1, <2>2, <2>3, <2>4, <2>5 DEF CallerStep
<1>3. ASSUME NEW w \in Workers, WorkerStep(w) PROVE Placed'
  <2>1. ASSUME Take(w)
        PROVE  /\ QueuedOnce'
               /\ \A k \in Jobs : Queued(k)' <=> Queued(k) /\ k # Head(queue)
               /\ Head(queue) # Stop => Head(queue) \in Jobs /\ Queued(Head(queue))
               /\ UNCHANGED <<caller, result>> /\ w \notin Busy
               /\ \A k \in Jobs : Unsent(k)' <=> Unsent(k)
    BY <2>1, <1>t, TailQueued DEF Take, Placed, Busy, Unsent
  <2>2. CASE TakeStop(w)
    BY <2>1, <2>2, <1>u DEF TakeStop
  <2>3. CASE TakeCancelled(w)
    <3>1. Busy' = Busy /\ UNCHANGED running /\ Take(w) /\ result[Head(queue)] = "cancelled"
      BY <2>3 DEF TakeCancelled, Busy, workerVars
    <3>2. QED
      BY <2>1, <3>1, <1>b DEF Placed
  <2>4. CASE TakeJob(w)
    <3>1. /\ Take(w) /\ Head(queue) # Stop /\ Head(queue) \in Jobs
          /\ Queued(Head(queue)) /\ ~Unsent(Head(queue))
          /\ result[Head(queue)] \in {"pending", "cancelled"}
      BY <2>4, <2>1 DEF TakeJob, Placed
    <3>2. /\ running'[w] = Head(queue)
          /\ \A v \in Workers : v # w => running'[v] = running[v]
          /\ Busy' = Busy \cup {w}
      BY <2>4, <3>1, <1>t DEF TakeJob, Busy, TypeOK
    <3>3. \A v \in Busy : v \in Workers /\ v # w /\ running[v] # Head(queue)
      BY <3>1, <2>1 DEF Busy, Placed
    <3>4. QED
      BY <2>1, <3>1, <3>2, <3>3, <1>b DEF Placed
  <2>5. ASSUME NEW o \in {"value", "error"}, Finish(w, o) PROVE Placed'
    <3>1. /\ UNCHANGED <<queue, caller>> /\ w \in Busy /\ running[w] \in Jobs
          /\ Busy' = Busy \ {w}
          /\ \A v \in Busy' : running'[v] = running[v]
      BY <2>5, <1>t DEF Finish, Deliver, Busy, TypeOK
    <3>2. QueuedOnce' /\ \A k \in Jobs : (Queued(k)' <=> Queued(k)) /\ (Unsent(k)' <=> Unsent(k))
      BY <3>1 DEF Placed, QueuedOnce, Queued, Unsent
    <3>3. /\ \A k \in Jobs : k # running[w] => result'[k] = result[k]
          /\ result'[running[w]] = IF result[running[w]] = "pending" THEN o ELSE result[running[w]]
      BY <2>5, <1>t DEF Finish, Deliver, TypeOK
    <3>4. \A v \in Busy' : running[v] # running[w] /\ running[v] \in Jobs
      BY <3>1, <1>b DEF Placed
    <3>5. QED
      BY <3>1, <3>2, <3>3, <3>4 DEF Placed
  <2>6. QED
    BY <1>3, <2>2, <2>3, <2>4, <2>5 DEF WorkerStep
<1>4. CASE Close
  <2>1. Cardinality(Workers) \in Nat
    BY FS_CardinalityType
  <2>2. QED
    BY <1>4, <1>t, <1>u, <2>1, StopsQueued DEF Close, BeginClose, workerVars, Placed
<1>5. CASE CloseGoesOn
  BY <1>5, <1>t, <1>u, StopsQueued DEF CloseGoesOn, workerVars, Placed, TypeOK
<1>6. CASE Join
  BY <1>6, <1>q DEF Join, workerVars
<1>7. CASE UNCHANGED vars
  BY <1>7, <1>q DEF vars, workerVars
<1>8. QED
  BY <1>1, <1>2, <1>3, <1>4, <1>5, <1>6, <1>7 DEF Next, CloserStep, Terminated

\* So each job is in its place for good.
LEMMA PlacedAlways == Spec => [](Counted /\ Placed)
<1>1. Init => Counted /\ Placed
  BY CountedInit, PlacedInit
<1>2. Counted /\ Placed /\ [Next]_vars => (Counted /\ Placed)'
  BY CountedStep, PlacedStep
<1>3. QED
  BY <1>1, <1>2, PTL DEF Spec

\* No submit() makes two LLM calls: its item is in the queue once or at one worker.
THEOREM NeverDuplicated == Spec => []InOnePlace
<1>1. Counted /\ Placed => InOnePlace
  <2> SUFFICES ASSUME Counted, Placed PROVE InOnePlace
    OBVIOUS
  <2>1. \A w \in Busy : RunBy(running[w]) = {w}
    BY DEF Placed, Busy, RunBy, Counted, TypeOK
  <2>2. QED
    BY <2>1 DEF Placed, QueuedOnce, InOnePlace
<1>2. QED
  BY <1>1, PlacedAlways, PTL

\* A caller that was refused, or left before it was admitted, is never served.
THEOREM NoServiceAfterRefusal == Spec => []RefusedNeverServed
<1>1. Counted /\ Placed => RefusedNeverServed
  BY DEF Counted, TypeOK, Placed, RefusedNeverServed, Unsent, Busy, RunBy
<1>2. QED
  BY <1>1, PlacedAlways, PTL

\* A caller that awaits its future has its item in the queue or at a worker.
THEOREM NothingLost == Spec => []NoJobLost
<1>1. Counted /\ Placed => NoJobLost
  BY DEF Counted, Placed, NoJobLost, Busy, RunBy
<1>2. QED
  BY <1>1, PlacedAlways, PTL

\* Both together: a call that was admitted is served exactly once.
THEOREM AdmittedServedOnce == Spec => []ServedOnce
<1>1. InOnePlace /\ NoJobLost => ServedOnce
  BY DEF ServedOnce
<1>2. QED
  BY <1>1, NeverDuplicated, NothingLost, PTL

-----------------------------------------------------------------------------
(* What a shutdown can leave behind *)

\* Why a stranded item belongs to a caller that was blocked when close() began:
\* the stop tokens come after every item admitted earlier, and a worker that is
\* gone took a token, so it left only later items behind.
Orderly ==
  /\ accepting => lifecycle = "running"
  /\ lifecycle = "running" => alive = Workers
  /\ lifecycle = "closed" => alive = {}
  /\ lifecycle \in {"new", "running"} => \A i \in 1..Len(queue) : queue[i] # Stop
  /\ Busy \subseteq alive
  /\ \A i, k \in 1..Len(queue) : i < k /\ queue[i] = Stop /\ queue[k] # Stop =>
       queue[k] \in blockedAtClose
  /\ lifecycle # "new" /\ alive # Workers =>
       \A i \in 1..Len(queue) : queue[i] # Stop => queue[i] \in blockedAtClose
  /\ \A j \in Jobs : caller[j] = "blocked" =>
       lifecycle # "new" /\ (lifecycle # "running" => j \in blockedAtClose)

\* There is nothing out of order before the start.
LEMMA OrderlyInit == Init => Orderly
  BY EmptySeq DEF Init, Orderly, Busy

\* Every step keeps the order of the shutdown.
LEMMA OrderlyStep == Counted /\ Orderly /\ [Next]_vars => Orderly'
<1> SUFFICES ASSUME Counted, Orderly, [Next]_vars PROVE Orderly'
  OBVIOUS
<1>t. TypeOK /\ WithinCapacity /\ queue \in Seq(Entry) /\ Len(queue) \in Nat
  BY DEF Counted, TypeOK, Entry
<1>1. CASE Start
  BY <1>1 DEF Start, Orderly, Busy
<1>2. ASSUME NEW j \in Jobs, CallerStep(j) PROVE Orderly'
  <2>1. ASSUME NEW from, NEW to, GivesUp(j, from, to), to = "blocked" => accepting
        PROVE  Orderly'
    BY <2>1, <1>t DEF GivesUp, CallerGoes, shutdownVars, workerVars, Orderly, Busy, TypeOK
  <2>2. ASSUME NEW from, Enqueue(j, from), from = "blocked" \/ accepting PROVE Orderly'
    <3>1. /\ Len(queue') = Len(queue) + 1
          /\ \A i \in 1..Len(queue) : queue'[i] = queue[i]
          /\ queue'[Len(queue) + 1] = j
      BY <2>2, <1>t, AppendFacts DEF Enqueue, Entry
    <3>2. \A i \in 1..Len(queue') : i \in 1..Len(queue) \/ i = Len(queue) + 1
      BY <3>1, <1>t
    <3>3. lifecycle \in {"new", "running"} \/ j \in blockedAtClose
      BY <2>2 DEF Enqueue, CallerGoes, Orderly
    <3>4. lifecycle # "new" /\ (lifecycle = "running" => alive = Workers)
      BY <2>2 DEF Enqueue, CallerGoes, Orderly
    <3>5. /\ UNCHANGED <<lifecycle, accepting, blockedAtClose, alive>> /\ Busy' = Busy
          /\ \A k \in Jobs : caller'[k] = "blocked" => caller[k] = "blocked"
      BY <2>2, <1>t DEF Enqueue, CallerGoes, shutdownVars, workerVars, Busy, TypeOK
    <3>6. \A i \in 1..Len(queue') : lifecycle \in {"new", "running"} => queue'[i] # Stop
      BY <3>1, <3>2 DEF Orderly
    <3>7. \A i, k \in 1..Len(queue') : i < k /\ queue'[i] = Stop /\ queue'[k] # Stop =>
            queue'[k] \in blockedAtClose
      <4> SUFFICES ASSUME NEW i \in 1..Len(queue'), NEW k \in 1..Len(queue'),
                          i < k, queue'[i] = Stop, queue'[k] # Stop
                   PROVE  queue'[k] \in blockedAtClose
        OBVIOUS
      <4>1. i \in 1..Len(queue) /\ lifecycle \notin {"new", "running"}
        BY <3>1, <3>2, <3>6, <1>t
      <4>2. QED
        BY <4>1, <3>1, <3>2, <3>3 DEF Orderly
    <3>8. alive # Workers => \A i \in 1..Len(queue') : queue'[i] # Stop =>
            queue'[i] \in blockedAtClose
      BY <3>1, <3>2, <3>3, <3>4 DEF Orderly
    <3>9. QED
      BY <3>4, <3>5, <3>6, <3>7, <3>8 DEF Orderly
  <2>3. CASE CancelWaiting(j)
    BY <2>3, <1>t DEF CancelWaiting, CallerGoes, shutdownVars, workerVars, Orderly, Busy, TypeOK
  <2>4. QED
    BY <1>2, <2>1, <2>2, <2>3 DEF CallerStep, SubmitClosed, Submit, Admit, PutTimeout,
      CancelBlocked, Return
<1>3. ASSUME NEW w \in Workers, WorkerStep(w) PROVE Orderly'
  <2>1. ASSUME Take(w)
        PROVE  /\ UNCHANGED <<caller, lifecycle, accepting, blockedAtClose>>
               /\ w \in alive /\ Len(queue) \in Nat \ {0} /\ Head(queue) = queue[1]
               /\ Len(queue') = Len(queue) - 1
               /\ \A i \in 1..Len(queue') : queue'[i] = queue[i + 1] /\ i + 1 \in 1..Len(queue)
    BY <2>1, <1>t, TailFacts DEF Take, shutdownVars
  <2>2. ASSUME Take(w), Busy' \subseteq alive', alive' = alive PROVE Orderly'
    BY <2>1, <2>2 DEF Orderly
  <2>3. CASE TakeCancelled(w)
    BY <2>2, <2>3 DEF TakeCancelled, workerVars, Busy, Orderly
  <2>4. CASE TakeJob(w)
    BY <2>1, <2>2, <2>4, <1>t DEF TakeJob, Busy, Orderly, TypeOK
  <2>5. CASE TakeStop(w)
    <3>1. Take(w) /\ queue[1] = Stop /\ alive' = alive \ {w} /\ Busy' = Busy /\ w \notin Busy
      BY <2>1, <2>5 DEF TakeStop, Take, Busy
    <3>2. lifecycle \notin {"new", "running", "closed"}
      BY <2>1, <3>1 DEF Orderly
    <3>3. \A i \in 1..Len(queue') : queue'[i] # Stop => queue'[i] \in blockedAtClose
      BY <2>1, <3>1 DEF Orderly
    <3>4. QED
      BY <2>1, <3>1, <3>2, <3>3 DEF Orderly
  <2>6. ASSUME NEW o \in {"value", "error"}, Finish(w, o) PROVE Orderly'
    BY <2>6, <1>t DEF Finish, Deliver, shutdownVars, Orderly, Busy, TypeOK
  <2>7. QED
    BY <1>3, <2>3, <2>4, <2>5, <2>6 DEF WorkerStep
<1>4. ASSUME NEW owed \in Nat, PutStops(owed), lifecycle \notin {"new", "closed"},
             UNCHANGED <<caller, alive, running>>, ~accepting',
             \/ lifecycle = "running" /\ blockedAtClose' = {j \in Jobs : caller[j] = "blocked"}
             \/ lifecycle # "running" /\ UNCHANGED blockedAtClose
      PROVE  Orderly'
  <2>1. /\ Len(queue') \in Nat /\ Len(queue') >= Len(queue)
        /\ lifecycle' \in {"stopping", "joining"}
        /\ \A i \in 1..Len(queue) : queue'[i] = queue[i]
        /\ \A i \in 1..Len(queue') : i > Len(queue) => queue'[i] = Stop
    BY <1>4, <1>t, PutStopsCounted, LenProperties
  <2>2. \A i \in 1..Len(queue') : i \in 1..Len(queue) \/ queue'[i] = Stop
    BY <2>1, <1>t
  <2>3. \A i, k \in 1..Len(queue') : i < k /\ queue'[i] = Stop /\ queue'[k] # Stop =>
          queue'[k] \in blockedAtClose'
    <3> SUFFICES ASSUME NEW i \in 1..Len(queue'), NEW k \in 1..Len(queue'),
                        i < k, queue'[i] = Stop, queue'[k] # Stop
                 PROVE  queue'[k] \in blockedAtClose'
      OBVIOUS
    <3>1. k \in 1..Len(queue) /\ i \in 1..Len(queue)
      BY <2>1, <2>2, <1>t
    <3>2. queue[i] = Stop /\ queue[k] # Stop
      BY <3>1, <2>1
    <3>3. QED
      BY <3>1, <3>2, <2>1, <1>4 DEF Orderly
  <2>4. Busy' = Busy
    BY <1>4 DEF Busy
  <2>5. QED
    BY <1>4, <2>1, <2>2, <2>3, <2>4 DEF Orderly
<1>5. CASE Close
  <2>1. Cardinality(Workers) \in Nat
    BY FS_CardinalityType
  <2>2. QED
    BY <1>4, <1>5, <2>1 DEF Close, BeginClose, workerVars
<1>6. CASE CloseGoesOn
  BY <1>4, <1>6, <1>t DEF CloseGoesOn, workerVars, TypeOK, Orderly
<1>7. CASE Join
  BY <1>7 DEF Join, workerVars, Orderly, Busy
<1>8. CASE UNCHANGED vars
  BY <1>8 DEF vars, shutdownVars, workerVars, Orderly, Busy
<1>9. QED
  BY <1>1, <1>2, <1>3, <1>5, <1>6, <1>7, <1>8 DEF Next, CloserStep, Terminated

\* So it is kept for good.
LEMMA OrderlyAlways == Spec => []Orderly
<1>1. Counted /\ Orderly /\ [Next]_vars => Orderly'
  BY OrderlyStep
<1>2. QED
  BY <1>1, OrderlyInit, CountedAlways, PTL DEF Spec

\* When the queue is closed, a submit() that was not already waiting for a slot
\* when close() began has come back or can come back at once.
THEOREM StrandedWereBlocked == Spec => []OnlyBlockedAtCloseStranded
<1>1. Counted /\ Placed /\ Orderly => OnlyBlockedAtCloseStranded
  <2> SUFFICES ASSUME Placed, Orderly, lifecycle = "closed", NEW j \in Jobs,
                      caller[j] = "waiting", result[j] = "pending"
               PROVE  j \in blockedAtClose
    BY DEF OnlyBlockedAtCloseStranded
  <2>1. alive = {} /\ Busy = {}
    BY DEF Orderly
  <2>2. Queued(j)
    BY <2>1 DEF Placed
  <2>3. QED
    BY <2>1, <2>2 DEF Orderly, Queued
<1>2. QED
  BY <1>1, OrderlyAlways, PlacedAlways, PTL

-----------------------------------------------------------------------------
(* The stop tokens *)

StopsIn(q) == {i \in 1..Len(q) : q[i] = Stop}

\* There are finitely many of them, and a work item at the end is not one more.
LEMMA StopsOfAppend ==
  ASSUME NEW q \in Seq(Entry)
  PROVE  /\ IsFiniteSet(StopsIn(q)) /\ Cardinality(StopsIn(q)) \in Nat
         /\ \A j \in Jobs : StopsIn(Append(q, j)) = StopsIn(q)
<1>1. Len(q) \in Nat
  OBVIOUS
<1>2. IsFiniteSet(1..Len(q))
  BY <1>1, FS_Interval
<1>3. StopsIn(q) \subseteq 1..Len(q)
  BY DEF StopsIn
<1>4. IsFiniteSet(StopsIn(q)) /\ Cardinality(StopsIn(q)) \in Nat
  BY <1>2, <1>3, FS_Subset, FS_CardinalityType
<1>5. ASSUME NEW j \in Jobs PROVE StopsIn(Append(q, j)) = StopsIn(q)
  <2>1. j \in Entry /\ j # Stop
    BY DEF Entry
  <2>2. \A i \in 1..(Len(q) + 1) : i \in 1..Len(q) \/ i = Len(q) + 1
    BY <1>1
  <2>3. 1..Len(q) \subseteq 1..(Len(q) + 1)
    BY <1>1
  <2>4. QED
    BY <2>1, <2>2, <2>3, AppendFacts DEF StopsIn
<1>6. QED
  BY <1>4, <1>5

\* Taking the head takes a token exactly when the head is one.
LEMMA StopsOfTail ==
  ASSUME NEW q \in Seq(Entry), q # <<>>
  PROVE  Cardinality(StopsIn(q)) =
           IF Head(q) = Stop THEN Cardinality(StopsIn(Tail(q))) + 1 ELSE Cardinality(StopsIn(Tail(q)))
<1>1. /\ Tail(q) \in Seq(Entry) /\ Len(q) \in Nat \ {0} /\ Len(Tail(q)) = Len(q) - 1
      /\ \A i \in 1..Len(Tail(q)) : Tail(q)[i] = q[i + 1]
      /\ Head(q) = q[1]
  BY TailFacts
<1> DEFINE later == StopsIn(q) \ {1}
           f == [i \in StopsIn(Tail(q)) |-> i + 1]
<1>2. \A i \in StopsIn(Tail(q)) : i \in Nat /\ i + 1 \in later
  BY <1>1 DEF StopsIn
<1>3. \A k \in later : k - 1 \in StopsIn(Tail(q)) /\ (k - 1) + 1 = k
  BY <1>1 DEF StopsIn
<1>4. f \in Bijection(StopsIn(Tail(q)), later)
  <2>1. f \in [StopsIn(Tail(q)) -> later]
    BY <1>2
  <2>2. \A x, y \in StopsIn(Tail(q)) : f[x] = f[y] => x = y
    BY <1>2
  <2>3. \A k \in later : k - 1 \in StopsIn(Tail(q)) /\ f[k - 1] = k
    BY <1>3
  <2> HIDE DEF f, later
  <2>4. QED
    BY <2>1, <2>2, <2>3 DEF Bijection, Injection, Surjection, IsInjective
<1>5. IsFiniteSet(StopsIn(Tail(q))) /\ Cardinality(StopsIn(Tail(q))) \in Nat
  BY <1>1, StopsOfAppend
<1>6. Cardinality(later) = Cardinality(StopsIn(Tail(q)))
  BY <1>4, <1>5, FS_Bijection DEF ExistsBijection
<1>7. IsFiniteSet(StopsIn(q)) /\ Cardinality(StopsIn(q)) \in Nat
  BY StopsOfAppend
<1>8. Cardinality(later) = IF 1 \in StopsIn(q) THEN Cardinality(StopsIn(q)) - 1 ELSE Cardinality(StopsIn(q))
  BY <1>7, FS_RemoveElement
<1>9. 1 \in StopsIn(q) <=> Head(q) = Stop
  BY <1>1 DEF StopsIn
<1>10. QED
  BY <1>5, <1>6, <1>7, <1>8, <1>9

\* What close() puts and what it still owes make up what it owed before.
LEMMA StopsOfPut ==
  ASSUME TypeOK, WithinCapacity, NEW owed \in Nat, PutStops(owed)
  PROVE  stopsLeft' + Cardinality(StopsIn(queue')) = owed + Cardinality(StopsIn(queue))
<1> DEFINE room == MaxSize - Len(queue)
           n == IF owed <= room THEN owed ELSE room
<1>1. queue \in Seq(Entry) /\ Len(queue) \in Nat /\ room \in Nat
  BY DEF TypeOK, Entry, WithinCapacity
<1>2. n \in Nat
  BY <1>1
<1>3. queue' = queue \o [i \in 1..n |-> Stop] /\ stopsLeft' = owed - n
  BY DEF PutStops
<1> HIDE DEF n
<1>4. /\ queue' \in Seq(Entry) /\ Len(queue') = Len(queue) + n
      /\ \A i \in 1..Len(queue) : queue'[i] = queue[i]
      /\ \A i \in 1..Len(queue') : i > Len(queue) => queue'[i] = Stop
  BY <1>1, <1>2, <1>3, StopFacts
<1> DEFINE first == Len(queue) + 1
           last == Len(queue) + n
           new == first..last
<1>5. StopsIn(queue') = StopsIn(queue) \cup new
  <2>1. ASSUME NEW i \in 1..Len(queue') PROVE i \in 1..Len(queue) \/ (i \in new /\ i > Len(queue))
    BY <1>1, <1>2, <1>4
  <2>2. 1..Len(queue) \subseteq 1..Len(queue') /\ new \subseteq 1..Len(queue')
    BY <1>1, <1>2, <1>4
  <2>3. \A i \in new : i > Len(queue)
    BY <1>1, <1>2
  <2> HIDE DEF new
  <2>4. QED
    BY <1>4, <2>1, <2>2, <2>3 DEF StopsIn
<1>6. StopsIn(queue) \cap new = {}
  BY <1>1, <1>2 DEF StopsIn
<1>7. IsFiniteSet(new) /\ Cardinality(new) = n
  <2>1. first \in Int /\ last \in Int /\ n = (IF first > last THEN 0 ELSE last - first + 1)
    BY <1>1, <1>2
  <2> HIDE DEF first, last
  <2>2. QED
    BY <2>1, FS_Interval
<1>8. IsFiniteSet(StopsIn(queue)) /\ Cardinality(StopsIn(queue)) \in Nat
  BY <1>1, StopsOfAppend
<1> HIDE DEF new
<1>9. Cardinality(StopsIn(queue')) = Cardinality(StopsIn(queue)) + n
  <2>1. Cardinality(StopsIn(queue) \cup new) = Cardinality(StopsIn(queue)) + Cardinality(new)
                                               - Cardinality(StopsIn(queue) \cap new)
    BY <1>7, <1>8, FS_Union
  <2>2. Cardinality(StopsIn(queue) \cap new) = 0
    BY <1>6, FS_EmptySet
  <2>3. QED
    BY <1>2, <1>5, <1>7, <1>8, <2>1, <2>2
<1>10. QED
  BY <1>1, <1>2, <1>3, <1>8, <1>9

\* The count that close() relies on; before it, there are no tokens.
StopsMatch ==
  lifecycle \in {"stopping", "joining"} =>
    stopsLeft + Cardinality(StopsIn(queue)) = Cardinality(alive)

\* Every step keeps a stop token for each worker that has not gone.
LEMMA StopsMatchStep == Counted /\ Orderly /\ StopsMatch /\ [Next]_vars => StopsMatch'
<1> SUFFICES ASSUME Counted, Orderly, StopsMatch, [Next]_vars PROVE StopsMatch'
  OBVIOUS
<1>t. TypeOK /\ WithinCapacity /\ queue \in Seq(Entry) /\ stopsLeft \in Nat
  BY DEF Counted, TypeOK, Entry
<1>a. IsFiniteSet(alive) /\ Cardinality(alive) \in Nat
  BY <1>t, FS_Subset, FS_CardinalityType DEF TypeOK
<1>b. Cardinality(StopsIn(queue)) \in Nat
  BY <1>t, StopsOfAppend
<1>0. CASE UNCHANGED <<lifecycle, stopsLeft, queue, alive>>
  BY <1>0 DEF StopsMatch
<1>1. CASE Start \/ Join
  BY <1>1 DEF Start, Join, StopsMatch
<1>2. ASSUME NEW j \in Jobs, CallerStep(j) PROVE StopsMatch'
  <2>1. CASE \E from \in {"idle", "blocked"} : Enqueue(j, from)
    <3>1. StopsIn(queue') = StopsIn(queue) /\ UNCHANGED <<lifecycle, stopsLeft, alive>>
      BY <2>1, <1>t, StopsOfAppend DEF Enqueue, shutdownVars, workerVars
    <3>2. QED
      BY <3>1 DEF StopsMatch
  <2>2. QED
    BY <1>0, <1>2, <2>1 DEF CallerStep, SubmitClosed, Submit, Admit, PutTimeout, CancelBlocked,
      CancelWaiting, Return, GivesUp, shutdownVars, workerVars
<1>3. ASSUME NEW w \in Workers, WorkerStep(w) PROVE StopsMatch'
  <2>1. ASSUME Take(w)
        PROVE  /\ UNCHANGED <<lifecycle, stopsLeft>> /\ w \in alive
               /\ Cardinality(StopsIn(queue')) \in Nat
               /\ Cardinality(StopsIn(queue)) = IF Head(queue) = Stop
                    THEN Cardinality(StopsIn(queue')) + 1 ELSE Cardinality(StopsIn(queue'))
    BY <2>1, <1>t, StopsOfTail, StopsOfAppend, TailFacts DEF Take, shutdownVars
  <2>2. CASE TakeStop(w)
    <3>1. Cardinality(alive') = Cardinality(alive) - 1
      BY <2>1, <2>2, <1>a, FS_RemoveElement DEF TakeStop
    <3>2. QED
      BY <2>1, <2>2, <3>1, <1>t, <1>a DEF TakeStop, StopsMatch
  <2>3. CASE TakeCancelled(w) \/ TakeJob(w)
    BY <2>1, <2>3 DEF TakeCancelled, TakeJob, StopsMatch, workerVars
  <2>4. QED
    BY <1>0, <1>3, <2>2, <2>3 DEF WorkerStep, Finish, Deliver, shutdownVars
<1>4. CASE Close
  <2>1. Cardinality(Workers) \in Nat /\ PutStops(Cardinality(Workers)) /\ UNCHANGED alive
    BY <1>4, FS_CardinalityType DEF Close, BeginClose, workerVars
  <2>2. alive = Workers /\ StopsIn(queue) = {}
    BY <1>4 DEF Orderly, StopsIn, Close, BeginClose
  <2>3. QED
    BY <2>1, <2>2, <1>t, StopsOfPut, FS_EmptySet DEF StopsMatch
<1>5. CASE CloseGoesOn
  BY <1>5, <1>t, StopsOfPut DEF CloseGoesOn, workerVars, StopsMatch
<1>6. QED
  BY <1>0, <1>1, <1>2, <1>3, <1>4, <1>5 DEF Next, CloserStep, Terminated, vars, shutdownVars, workerVars

\* While close() is under way, every worker that is alive has one stop token, in the
\* queue or still to be put: none is left behind and none takes another's.
THEOREM EveryWorkerStopped == Spec => []OneStopPerWorker
<1>1. Init => StopsMatch
  BY DEF Init, StopsMatch
<1>2. Spec => []StopsMatch
  <2>1. Counted /\ Orderly /\ StopsMatch /\ [Next]_vars => StopsMatch'
    BY StopsMatchStep
  <2>2. QED
    BY <1>1, <2>1, CountedAlways, OrderlyAlways, PTL DEF Spec
<1>3. StopsMatch => OneStopPerWorker
  BY DEF StopsMatch, OneStopPerWorker, StopsIn
<1>4. QED
  BY <1>2, <1>3, PTL

-----------------------------------------------------------------------------
(* The promise to the callers *)

\* A call whose caller left before a worker took it is never sent.
THEOREM LeftIsNotSent == Spec => LeftNeverSent
<1> DEFINE Step == \A w \in Workers : running'[w] # running[w] /\ running'[w] # Free =>
                     result[running'[w]] = "pending"
<1>1. Counted /\ Placed /\ [Next]_vars => [Step]_vars
  <2> SUFFICES ASSUME Counted, Placed, [Next]_vars PROVE Step
    OBVIOUS
  <2>t. TypeOK
    BY DEF Counted
  <2>1. CASE UNCHANGED running
    BY <2>1
  <2>2. ASSUME NEW w \in Workers, TakeJob(w) PROVE Step
    <3>1. Head(queue) \in Jobs /\ Queued(Head(queue)) /\ result[Head(queue)] # "cancelled"
      BY <2>2, <2>t, TailQueued DEF TakeJob, Take, Placed
    <3>2. running' = [running EXCEPT ![w] = Head(queue)] /\ result[Head(queue)] = "pending"
      BY <2>2, <3>1 DEF TakeJob, Placed
    <3>3. QED
      BY <3>2, <2>t DEF TypeOK
  <2>3. ASSUME NEW w \in Workers, NEW o \in {"value", "error"}, Finish(w, o) PROVE Step
    BY <2>3, <2>t DEF Finish, Deliver, TypeOK
  <2>4. ASSUME NEW j \in Jobs, CallerStep(j) PROVE UNCHANGED running
    BY <2>4 DEF CallerStep, SubmitClosed, Submit, Admit, PutTimeout, CancelBlocked,
      CancelWaiting, Return, GivesUp, Enqueue, workerVars
  <2>5. QED
    BY <2>1, <2>2, <2>3, <2>4 DEF Next, Start, CloserStep, Close, BeginClose, CloseGoesOn,
      Join, Terminated, WorkerStep, TakeStop, TakeCancelled, workerVars, vars
<1>2. Spec => [][Counted /\ Placed /\ [Next]_vars]_vars
  BY PlacedAlways, PTL DEF Spec
<1> HIDE DEF Step
<1>3. Spec => [][Step]_vars
  BY <1>1, PlacedAlways, PTL DEF Spec
<1>4. QED
  BY <1>3 DEF LeftNeverSent, Step

AtWorker(j) == \E w \in Busy : running[w] = j

\* The stage of every job, read off its caller and its place.
StageRead == \A j \in Jobs :
  /\ caller[j] \in {"idle", "blocked"} => Stage(j) = "unsent"
  /\ caller[j] \in Refused => Stage(j) = "refused"
  /\ Queued(j) => Stage(j) = "queued"
  /\ AtWorker(j) => Stage(j) = "executing" /\ ~Queued(j) /\ ~Unsent(j)
  /\ ~Unsent(j) /\ ~Queued(j) /\ ~AtWorker(j) => Stage(j) = "over"

\* What the mapping says of a job is what its caller and its place say.
LEMMA StageFacts == TypeOK /\ Placed => StageRead
<1> SUFFICES ASSUME TypeOK, Placed, NEW j \in Jobs PROVE StageRead!(j)
  BY DEF StageRead
<1>1. AtWorker(j) <=> RunBy(j) # {}
  BY DEF AtWorker, RunBy, Busy
<1>2. Queued(j) => ~Unsent(j)
  BY DEF Placed
<1>3. AtWorker(j) => ~Queued(j) /\ ~Unsent(j)
  BY DEF Placed, AtWorker
<1>4. QED
  BY <1>1, <1>2, <1>3 DEF Stage, Unsent, Refused

\* Fewer jobs execute than there are workers while one of them is free.
LEMMA RoomForOneMore ==
  ASSUME TypeOK, Placed, NEW w \in Workers \ Busy
  PROVE  Cardinality({j \in Jobs : Stage(j) = "executing"}) < Cardinality(Workers)
<1> DEFINE E == {j \in Jobs : Stage(j) = "executing"}
           f == [v \in Busy |-> running[v]]
<1>1. \A j \in E : AtWorker(j)
  BY StageFacts DEF StageRead, Unsent
<1>2. \A v \in Busy : running[v] \in E
  BY StageFacts DEF StageRead, AtWorker, Busy, TypeOK
<1>3. f \in Surjection(Busy, E)
  BY <1>1, <1>2 DEF Surjection, AtWorker
<1>4. IsFiniteSet(Busy) /\ Cardinality(Busy) \in Nat
  BY BusyFacts DEF TypeOK
<1>5. IsFiniteSet(E) /\ Cardinality(E) <= Cardinality(Busy)
  BY <1>3, <1>4, FS_Surjection
<1>6. Cardinality(Workers \ {w}) = Cardinality(Workers) - 1 /\ IsFiniteSet(Workers \ {w})
  BY FS_RemoveElement
<1>7. Cardinality(Busy) <= Cardinality(Workers \ {w})
  BY <1>6, FS_Subset DEF Busy
<1>8. Cardinality(E) \in Nat /\ Cardinality(Workers) \in Nat
  BY <1>5, FS_CardinalityType
<1>9. QED
  BY <1>4, <1>5, <1>6, <1>7, <1>8

\* The queue starts as its abstraction does.
LEMMA PromiseInit == Init => Promise!Init
<1> SUFFICES ASSUME Init PROVE Promise!Init
  OBVIOUS
<1>1. \A j \in Jobs : Stage(j) = "unsent"
  BY CountedInit, PlacedInit, StageFacts DEF StageRead, Init, Counted
<1>2. QED
  BY <1>1 DEF Init, Promise!Init

\* Every step of the queue is one of its abstraction, or a stutter of it.
LEMMA PromiseStep ==
  Counted /\ Placed /\ Counted' /\ Placed' /\ [Next]_vars => [Promise!Next]_(Promise!vars)
<1> SUFFICES ASSUME Counted, Placed, Counted', Placed', [Next]_vars
             PROVE  [Promise!Next]_(Promise!vars)
  OBVIOUS
<1>t. TypeOK /\ TypeOK'
  BY DEF Counted
<1>f. StageRead /\ StageRead'
  <2>1. StageRead
    BY <1>t, StageFacts
  <2>2. TypeOK' /\ Placed' => StageRead'
    BY StageFacts, PTL
  <2>3. QED
    BY <1>t, <2>1, <2>2
<1>s. ASSUME UNCHANGED result, \A j \in Jobs : Stage(j)' = Stage(j)
      PROVE  UNCHANGED Promise!vars
  BY <1>s DEF Promise!vars
<1>2. ASSUME NEW j \in Jobs, CallerStep(j) PROVE [Promise!Next]_(Promise!vars)
  <2>1. ASSUME NEW from, NEW to, GivesUp(j, from, to)
        PROVE  /\ UNCHANGED result /\ caller[j] = from /\ caller'[j] = to
               /\ \A k \in Jobs : (Queued(k)' <=> Queued(k)) /\ (AtWorker(k)' <=> AtWorker(k))
               /\ \A k \in Jobs : k # j => Stage(k)' = Stage(k)
    BY <2>1, <1>t DEF GivesUp, CallerGoes, workerVars, Queued, AtWorker, Busy, TypeOK, Stage, RunBy
  <2>2. ASSUME NEW from \in {"idle", "blocked"}, NEW to \in Refused, GivesUp(j, from, to)
        PROVE  Promise!Refuse(j)
    <3>1. Stage(j) = "unsent" /\ Stage(j)' = "refused"
      BY <2>1, <2>2, <1>f DEF StageRead
    <3>2. QED
      BY <2>1, <2>2, <3>1 DEF Promise!Refuse
  <2>3. ASSUME GivesUp(j, "idle", "blocked") PROVE UNCHANGED Promise!vars
    BY <2>1, <2>3, <1>f, <1>s DEF StageRead
  <2>4. ASSUME NEW from \in {"idle", "blocked"}, Enqueue(j, from) PROVE Promise!Admit(j)
    <3>1. /\ UNCHANGED <<result, running>> /\ caller[j] = from /\ queue' = Append(queue, j)
          /\ caller' = [caller EXCEPT ![j] = "waiting"] /\ ~Queued(j)
      BY <2>4 DEF Enqueue, CallerGoes, workerVars, Placed, Unsent
    <3>2. \A k \in Jobs : Queued(k)' <=> Queued(k) \/ k = j
      BY <3>1, <1>t, AppendQueued DEF Placed
    <3>3. Stage(j) = "unsent" /\ Stage(j)' = "queued"
      BY <3>1, <3>2, <1>f DEF StageRead
    <3>4. \A k \in Jobs : k # j => Stage(k)' = Stage(k)
      BY <3>1, <3>2, <1>t DEF Stage, RunBy, TypeOK
    <3>5. QED
      BY <3>1, <3>3, <3>4 DEF Promise!Admit
  <2>5. CASE Return(j)
    <3>1. PICK to \in {"answered", "failed"} :
            GivesUp(j, "waiting", to) /\ result[j] \in {"value", "error"}
      BY <2>5 DEF Return
    <3>2. ~Unsent(j) /\ ~Unsent(j)' /\ ~Queued(j) /\ ~AtWorker(j)
      BY <2>1, <3>1 DEF Unsent, Refused, Placed, AtWorker
    <3>3. QED
      BY <2>1, <3>1, <3>2, <1>f, <1>s DEF StageRead
  <2>6. CASE CancelWaiting(j)
    <3>1. /\ UNCHANGED <<queue, running>> /\ caller[j] = "waiting" /\ caller'[j] = "left"
          /\ result' = [result EXCEPT ![j] = IF @ = "pending" THEN "cancelled" ELSE @]
          /\ \A k \in Jobs : k # j => caller'[k] = caller[k]
      BY <2>6, <1>t DEF CancelWaiting, CallerGoes, workerVars, TypeOK
    <3>2. \A k \in Jobs : (Queued(k)' <=> Queued(k)) /\ (AtWorker(k)' <=> AtWorker(k))
      BY <3>1 DEF Queued, AtWorker, Busy
    <3>3. ~Unsent(j) /\ ~Unsent(j)'
      BY <3>1 DEF Unsent, Refused
    <3>4. Stage(j)' = Stage(j)
      BY <3>2, <3>3, <1>f DEF StageRead
    <3>5. \A k \in Jobs : k # j => Stage(k)' = Stage(k)
      BY <3>1 DEF Stage, RunBy, Queued
    <3>6. CASE result[j] = "pending"
      <4>1. Stage(j) \in {"queued", "executing"}
        BY <3>1, <3>6, <1>f DEF StageRead, Placed, AtWorker
      <4>2. Promise!Abandon(j)
        BY <3>1, <3>4, <3>5, <3>6, <4>1 DEF Promise!Abandon
      <4>3. QED
        BY <4>2 DEF Promise!Next
    <3>7. CASE result[j] # "pending"
      <4>1. UNCHANGED result
        BY <3>1, <3>7, <1>t DEF TypeOK
      <4>2. QED
        BY <4>1, <3>4, <3>5, <1>s
    <3>8. QED
      BY <3>6, <3>7
  <2>7. QED
    BY <1>2, <2>2, <2>3, <2>4, <2>5, <2>6 DEF CallerStep, SubmitClosed, Submit, Admit,
      PutTimeout, CancelBlocked, Refused, Promise!Next
<1>3. ASSUME NEW w \in Workers, WorkerStep(w) PROVE [Promise!Next]_(Promise!vars)
  <2>1. ASSUME Take(w)
        PROVE  /\ \A k \in Jobs : Queued(k)' <=> Queued(k) /\ k # Head(queue)
               /\ Head(queue) # Stop => Head(queue) \in Jobs /\ Queued(Head(queue))
               /\ UNCHANGED <<caller, result>> /\ w \notin Busy
               /\ \A k \in Jobs : Unsent(k)' <=> Unsent(k)
    BY <2>1, <1>t, TailQueued DEF Take, Placed, Busy, Unsent
  <2>2. CASE TakeStop(w)
    <3>1. Take(w) /\ Head(queue) = Stop /\ UNCHANGED running
      BY <2>2 DEF TakeStop
    <3>2. \A k \in Jobs : Queued(k)' <=> Queued(k)
      BY <2>1, <3>1
    <3>3. QED
      BY <2>1, <3>1, <3>2, <1>s DEF Stage, RunBy
  <2>3. CASE TakeCancelled(w)
    <3> PICK j \in Jobs : j = Head(queue)
      BY <2>1, <2>3 DEF TakeCancelled
    <3>1. /\ Take(w) /\ j = Head(queue) /\ Queued(j) /\ ~Unsent(j) /\ result[j] = "cancelled"
          /\ UNCHANGED running
      BY <2>1, <2>3 DEF TakeCancelled, workerVars, Placed
    <3>2. ~Queued(j)' /\ ~Unsent(j)' /\ ~AtWorker(j)'
      BY <2>1, <3>1 DEF AtWorker, Busy, Placed
    <3>3. Stage(j) = "queued" /\ Stage(j)' = "over"
      BY <3>1, <3>2, <1>f DEF StageRead
    <3>4. \A k \in Jobs : k # j => Stage(k)' = Stage(k)
      BY <2>1, <3>1 DEF Stage, RunBy
    <3>5. Promise!Drop(j)
      BY <2>1, <3>1, <3>3, <3>4 DEF Promise!Drop
    <3>6. QED
      BY <3>1, <3>5 DEF Promise!Next
  <2>4. CASE TakeJob(w)
    <3> PICK j \in Jobs : j = Head(queue)
      BY <2>1, <2>4 DEF TakeJob
    <3>1. /\ Take(w) /\ j = Head(queue) /\ Queued(j) /\ result[j] = "pending"
          /\ running' = [running EXCEPT ![w] = j]
      BY <2>1, <2>4 DEF TakeJob, Placed
    <3>2. AtWorker(j)'
      BY <3>1, <1>t DEF AtWorker, Busy, TypeOK
    <3>3. Stage(j) = "queued" /\ Stage(j)' = "executing"
      BY <3>1, <3>2, <1>f DEF StageRead
    <3>4. \A k \in Jobs : k # j => RunBy(k)' = RunBy(k)
      BY <2>1, <3>1, <1>t DEF RunBy, Busy, TypeOK
    <3>5. \A k \in Jobs : k # j => Stage(k)' = Stage(k)
      BY <2>1, <3>1, <3>4 DEF Stage
    <3>6. Cardinality({k \in Jobs : Stage(k) = "executing"}) < Cardinality(Workers)
      BY <2>1, <3>1, <1>t, RoomForOneMore
    <3>7. Promise!Executing = {k \in Jobs : Stage(k) = "executing"}
      BY DEF Promise!Executing
    <3>8. Promise!Cardinality(Promise!Executing) = Cardinality({k \in Jobs : Stage(k) = "executing"})
      BY <3>7 DEF Promise!Cardinality, Cardinality
    <3>9. Promise!Execute(j)
      BY <2>1, <3>1, <3>3, <3>5, <3>6, <3>8 DEF Promise!Execute
    <3>10. QED
      BY <3>1, <3>9 DEF Promise!Next
  <2>5. ASSUME NEW o \in {"value", "error"}, Finish(w, o) PROVE [Promise!Next]_(Promise!vars)
    <3> PICK j \in Jobs : j = running[w]
      BY <2>5, <1>t DEF Finish, Deliver, TypeOK
    <3>1. /\ UNCHANGED <<queue, caller>> /\ w \in Busy /\ j = running[w] /\ AtWorker(j)
          /\ running' = [running EXCEPT ![w] = Free]
          /\ result' = [result EXCEPT ![j] = IF @ = "pending" THEN o ELSE @]
          /\ result[j] \in {"pending", "cancelled"}
      BY <2>5, <1>t DEF Finish, Deliver, Busy, TypeOK, AtWorker, Placed
    <3>2. /\ \A k \in Jobs : (Queued(k)' <=> Queued(k)) /\ (Unsent(k)' <=> Unsent(k))
          /\ ~AtWorker(j)'
      BY <3>1, <1>t DEF Queued, Unsent, AtWorker, Busy, TypeOK, Placed
    <3>3. Stage(j) = "executing" /\ Stage(j)' = "over"
      BY <3>1, <3>2, <1>f DEF StageRead
    <3>4. \A k \in Jobs : k # j => RunBy(k)' = RunBy(k)
      BY <3>1, <1>t DEF RunBy, TypeOK
    <3>5. \A k \in Jobs : k # j => Stage(k)' = Stage(k)
      BY <3>1, <3>2, <3>4 DEF Stage
    <3>6. Promise!Complete(j)
      <4>1. result[j] = "cancelled" => UNCHANGED result
        BY <3>1, <1>t DEF TypeOK
      <4>2. result[j] = "pending" => result' = [result EXCEPT ![j] = o]
        BY <3>1
      <4>3. QED
        BY <3>1, <3>3, <3>5, <4>1, <4>2 DEF Promise!Complete
    <3>7. QED
      BY <3>1, <3>6 DEF Promise!Next
  <2>6. QED
    BY <1>3, <2>2, <2>3, <2>4, <2>5 DEF WorkerStep
\* The steps of start() and close(), and stuttering.
<1>4. ASSUME UNCHANGED <<caller, result, running>>, \A k \in Jobs : Queued(k)' <=> Queued(k)
      PROVE  UNCHANGED Promise!vars
  BY <1>4, <1>s DEF Stage, RunBy
<1>5. ASSUME UNCHANGED <<caller, result, running, queue>> PROVE UNCHANGED Promise!vars
  BY <1>4, <1>5 DEF Queued
<1>6. CASE Start \/ Join \/ UNCHANGED vars
  BY <1>5, <1>6 DEF Start, Join, vars, workerVars
<1>7. CASE Close
  <2>1. Cardinality(Workers) \in Nat
    BY FS_CardinalityType
  <2>2. QED
    BY <1>4, <1>7, <2>1, StopsQueued DEF Close, BeginClose, workerVars, Placed, Counted
<1>8. CASE CloseGoesOn
  BY <1>4, <1>8, <1>t, StopsQueued DEF CloseGoesOn, workerVars, Placed, Counted, TypeOK
<1>9. QED
  BY <1>2, <1>3, <1>6, <1>7, <1>8 DEF Next, CloserStep, Terminated

\* The queue, its workers and its shutdown implement what the callers rely on:
\* a job is refused or executed at most once, at most worker_count at a time.
THEOREM PromiseKept == Spec => KeepsPromise
<1>1. Spec => [][Promise!Next]_(Promise!vars)
  <2>1. Counted /\ Placed /\ [Next]_vars => Counted' /\ Placed'
    BY CountedStep, PlacedStep
  <2>2. QED
    BY <2>1, PromiseStep, PlacedAlways, PTL DEF Spec
<1>2. Spec => Promise!Init
  BY PromiseInit DEF Spec
<1>3. QED
  BY <1>1, <1>2 DEF KeepsPromise, Promise!Spec

\* A call of the queue is executed at most once, and after a refusal never: what the
\* callers rely on, seen at each job.
THEOREM ExecutedAtMostOnce == Spec => Promise!AtMostOnce
<1> DEFINE stage == [j \in Jobs |-> Stage(j)]
           Forward == \A j \in Jobs : stage'[j] # stage[j] =>
             <<stage[j], stage'[j]>> \in
               {<<"unsent", "refused">>, <<"unsent", "queued">>, <<"queued", "executing">>,
                <<"queued", "over">>, <<"executing", "over">>}
<1>1. Promise!Next => Forward
  <2> HIDE DEF stage
  <2>1. QED
    BY DEF stage, Promise!Next, Promise!Refuse, Promise!Admit, Promise!Abandon, Promise!Execute,
           Promise!Drop, Promise!Complete
<1>2. Promise!Spec => Promise!AtMostOnce
  BY <1>1, PTL DEF Promise!Spec, Promise!AtMostOnce
<1>3. QED
  BY <1>2, PromiseKept, PTL DEF KeepsPromise

\* A caller is told one thing: an answer is of an execution, and nothing replaces it.
THEOREM OutcomeStands == Spec => Promise!OutcomeStands
<1> DEFINE stage == [j \in Jobs |-> Stage(j)]
           Stands == \A j \in Jobs : result'[j] # result[j] =>
             /\ result[j] = "pending"
             /\ result'[j] \in {"value", "error"} => stage[j] = "executing"
<1>1. TypeOK /\ Promise!Next => Stands
  <2> HIDE DEF stage
  <2>1. QED
    BY DEF TypeOK, stage, Promise!Next, Promise!Refuse, Promise!Admit, Promise!Abandon,
           Promise!Execute, Promise!Drop, Promise!Complete
<1>2. []TypeOK /\ Promise!Spec => Promise!OutcomeStands
  BY <1>1, PTL DEF Promise!Spec, Promise!OutcomeStands
<1>3. QED
  BY <1>2, PromiseKept, TypeCorrect, PTL DEF KeepsPromise
=============================================================================
