-------------------------- MODULE BatchRunnerProofs --------------------------
(***************************************************************************)
(* Theorems about the batch runner and its results CSV, for every set of   *)
(* batches, every batch size, every finite set of account workers and any  *)
(* number of batches kept, through cancellations, crashes and restarts.    *)
(***************************************************************************)
EXTENDS BatchRunner, FiniteSetTheorems, SequenceTheorems, TLAPS

USE BatchAssumption

-----------------------------------------------------------------------------
(* The inductive invariant *)

\* A batch id is submitted once, and only submitted batches have a status or rows.
Known ==
  /\ \A i, k \in 1..Len(submitted) : submitted[i] = submitted[k] => i = k
  /\ \A f \in Files : status[f] # "none" => Has(submitted, f[1])
  /\ \A b \in Batches : ~Has(submitted, b) => rows[b] = <<>>
  /\ lifecycle = "down" => \A f \in Files : status[f] = "none"

\* The files that wait are those in the queue; it is in order, and what comes after
\* one of its files in the order is in it too.
Waiting ==
  /\ \A f \in Files : status[f] = "queued" => Has(queue, f)
  /\ \A f \in Files : Has(queue, f) => status[f] \in {"queued", "failed"}
  /\ \A i, k \in 1..Len(queue) : i < k => Before(queue[i], queue[k])
  /\ \A f, g \in Files : Has(queue, f) /\ status[g] # "none" /\ Before(f, g) => Has(queue, g)

Holding == {w \in Workers : at[w] \in {"analysing", "lock", "writing"}}

\* A file is in the hand of one worker at a time, out of the queue.
InHand ==
  /\ \A w \in Holding : job[w] \in Files /\ ~Has(queue, job[w])
  /\ \A v, w \in Holding : job[v] = job[w] => v = w
  /\ \A w \in Workers : at[w] = "analysing" => status[job[w]] = "analysing"
  /\ \A w \in Workers : at[w] \in {"lock", "writing"} => status[job[w]] \in Final

IsRow(f, i) == i \in 1..Len(rows[f[1]]) /\ rows[f[1]][i].position = f[2]

\* A file gets its row when it leaves the hand of its worker, and not before.
Recorded ==
  /\ \A f \in Files : \A i, k \in 1..Len(rows[f[1]]) : IsRow(f, i) /\ IsRow(f, k) => i = k
  /\ \A f \in Files : \A i \in 1..Len(rows[f[1]]) :
       IsRow(f, i) => /\ ~Has(queue, f) /\ \A w \in Holding : job[w] # f
                      /\ status[f] \in {"none", rows[f[1]][i].status}
  /\ \A f \in Files : lifecycle = "up" /\ status[f] \in Final =>
       \/ \E i \in 1..Len(rows[f[1]]) : IsRow(f, i)
       \/ f \in unrecorded
       \/ Has(queue, f)
       \/ \E w \in Workers : at[w] \in {"lock", "writing"} /\ job[w] = f

\* What the poll counted as final is final still, and it lists after it has counted.
PollHonest ==
  /\ poll.batch = None => poll = NoPoll
  /\ Len(poll.counted) <= BatchSize /\ Len(poll.listed) <= BatchSize
  /\ poll.listed # <<>> => Len(poll.counted) = BatchSize
  /\ \A i \in 1..Len(poll.counted) :
       poll.counted[i] \in Final => status[<<poll.batch, i>>] = poll.counted[i]
  /\ \A i \in 1..Len(poll.listed) : poll.counted[i] \in Final => poll.listed[i] = poll.counted[i]

IInv == TypeOK /\ Known /\ Waiting /\ InHand /\ Recorded /\ PollHonest

-----------------------------------------------------------------------------
(* Sequences and files *)

\* What is in a sequence with one more element.
LEMMA AppendFacts ==
  ASSUME NEW S, NEW s \in Seq(S), NEW x \in S
  PROVE  /\ Append(s, x) \in Seq(S)
         /\ Len(s) \in Nat /\ Len(Append(s, x)) = Len(s) + 1
         /\ \A i \in 1..Len(s) : Append(s, x)[i] = s[i]
         /\ Append(s, x)[Len(s) + 1] = x
         /\ \A e : Has(Append(s, x), e) <=> Has(s, e) \/ e = x
<1>1. /\ Append(s, x) \in Seq(S)
      /\ Len(s) \in Nat /\ Len(Append(s, x)) = Len(s) + 1
      /\ \A i \in 1..Len(s) : Append(s, x)[i] = s[i]
      /\ Append(s, x)[Len(s) + 1] = x
  BY AppendProperties
<1>2. \A i \in 1..(Len(s) + 1) : i \in 1..Len(s) \/ i = Len(s) + 1
  BY <1>1
<1>3. Len(s) + 1 \in 1..(Len(s) + 1) /\ \A i \in 1..Len(s) : i \in 1..(Len(s) + 1)
  BY <1>1
<1>4. QED
  BY <1>1, <1>2, <1>3 DEF Has

\* What is in a sequence without its head.
LEMMA TailFacts ==
  ASSUME NEW S, NEW s \in Seq(S), s # <<>>
  PROVE  /\ Tail(s) \in Seq(S)
         /\ Len(s) \in Nat \ {0} /\ Len(Tail(s)) = Len(s) - 1
         /\ \A i \in 1..Len(Tail(s)) : i + 1 \in 1..Len(s) /\ Tail(s)[i] = s[i + 1]
         /\ Head(s) = s[1] /\ Head(s) \in S
         /\ \A e : Has(s, e) <=> e = Head(s) \/ Has(Tail(s), e)
<1>1. /\ Tail(s) \in Seq(S)
      /\ Len(s) \in Nat \ {0} /\ Len(Tail(s)) = Len(s) - 1
      /\ \A i \in 1..Len(Tail(s)) : Tail(s)[i] = s[i + 1]
      /\ Head(s) = s[1] /\ Head(s) \in S
  BY HeadTailProperties, EmptySeq
<1>2. \A i \in 1..Len(Tail(s)) : i + 1 \in 1..Len(s)
  BY <1>1
<1>3. ASSUME NEW e, Has(s, e), e # Head(s) PROVE Has(Tail(s), e)
  <2>1. PICK i \in 1..Len(s) : s[i] = e
    BY <1>3 DEF Has
  <2>2. i - 1 \in 1..Len(Tail(s)) /\ (i - 1) + 1 = i
    BY <1>1, <1>3, <2>1
  <2>3. QED
    BY <1>1, <2>1, <2>2 DEF Has
<1>4. \A e : Has(Tail(s), e) => Has(s, e)
  BY <1>1, <1>2 DEF Has
<1>5. Has(s, Head(s))
  BY <1>1 DEF Has
<1>6. QED
  BY <1>1, <1>2, <1>3, <1>4, <1>5

\* A file is its batch and its position.
LEMMA FileFacts ==
  /\ \A f \in Files : f[1] \in Batches /\ f[2] \in Positions /\ f = <<f[1], f[2]>>
  /\ \A b \in Batches, p \in Positions : <<b, p>> \in Files /\ <<b, p>>[1] = b /\ <<b, p>>[2] = p
  /\ \A f, g \in Files : f[1] = g[1] /\ f[2] = g[2] => f = g
  /\ None \notin Files /\ None \notin Batches
  BY DEF Files, Positions

\* What the files of a batch do to the queue.
FilesOf(b) == [p \in Positions |-> <<b, p>>]

\* What a queue holds once the files of a batch are put at its end.
LEMMA BatchQueued ==
  ASSUME NEW q \in Seq(Files), NEW b \in Batches
  PROVE  LET r == q \o FilesOf(b)
         IN  /\ r \in Seq(Files)
             /\ Len(q) \in Nat /\ Len(r) = Len(q) + BatchSize
             /\ \A i \in 1..Len(q) : r[i] = q[i]
             /\ \A i \in 1..Len(r) : i \in 1..Len(q) \/ (i > Len(q) /\ r[i] = <<b, i - Len(q)>>)
             /\ \A f \in Files : Has(r, f) <=> Has(q, f) \/ f[1] = b
<1> DEFINE r == q \o FilesOf(b)
<1> DEFINE t == FilesOf(b)
<1>1. t \in Seq(Files) /\ Len(t) = BatchSize /\ \A p \in 1..BatchSize : t[p] = <<b, p>>
  <2>1. BatchSize \in Nat /\ \A p \in 1..BatchSize : <<b, p>> \in Files
    BY FileFacts DEF Positions
  <2>2. t = [p \in 1..BatchSize |-> <<b, p>>]
    BY DEF FilesOf, Positions
  <2>3. t \in [1..BatchSize -> Files] /\ DOMAIN t = 1..BatchSize
    BY <2>1, <2>2
  <2>4. \A p \in 1..BatchSize : t[p] = <<b, p>>
    BY <2>2
  <2> HIDE DEF t
  <2>5. t \in Seq(Files) /\ Len(t) = BatchSize
    BY <2>1, <2>3
  <2>6. QED
    BY <2>4, <2>5
<1> HIDE DEF t
<1>2. /\ q \o t \in Seq(Files)
      /\ Len(q \o t) = Len(q) + BatchSize
      /\ \A i \in 1..(Len(q) + BatchSize) : (q \o t)[i] = IF i <= Len(q) THEN q[i] ELSE t[i - Len(q)]
  BY <1>1, ConcatProperties
<1>3. r = q \o t /\ Len(q) \in Nat
  BY DEF t
<1> HIDE DEF r
<1>4. \A i \in 1..Len(r) : i \in 1..Len(q) \/ (i > Len(q) /\ i - Len(q) \in 1..BatchSize)
  BY <1>2, <1>3
<1>5. \A i \in 1..Len(q) : i \in 1..Len(r) /\ r[i] = q[i]
  BY <1>2, <1>3
<1>6. \A i \in 1..Len(r) : i \in 1..Len(q) \/ (i > Len(q) /\ r[i] = <<b, i - Len(q)>>)
  BY <1>1, <1>2, <1>3, <1>4
<1>7. \A p \in 1..BatchSize : Len(q) + p \in 1..Len(r) /\ r[Len(q) + p] = <<b, p>>
  BY <1>1, <1>2, <1>3
<1>8. ASSUME NEW f \in Files PROVE Has(r, f) <=> Has(q, f) \/ f[1] = b
  <2>1. f[1] = b => Has(r, f)
    <3>1. f = <<f[1], f[2]>> /\ f[2] \in 1..BatchSize
      BY FileFacts DEF Positions
    <3>2. QED
      BY <1>7, <3>1 DEF Has
  <2>2. Has(q, f) => Has(r, f)
    BY <1>5 DEF Has
  <2>3. ASSUME Has(r, f), ~Has(q, f) PROVE f[1] = b
    <3>1. PICK i \in 1..Len(r) : r[i] = f
      BY <2>3 DEF Has
    <3>2. f = <<b, i - Len(q)>>
      BY <1>5, <1>6, <2>3, <3>1 DEF Has
    <3>3. QED
      BY <3>2
  <2>4. QED
    BY <2>1, <2>2, <2>3
<1>9. QED
  BY <1>2, <1>3, <1>5, <1>6, <1>8 DEF r

\* The turn of a batch, in any sequence of batches.
Place(s, b) == CHOOSE i \in 1..Len(s) : s[i] = b

\* The place of a batch is where it is in the sequence.
LEMMA PlaceFacts ==
  ASSUME NEW s, NEW b, Has(s, b)
  PROVE  Place(s, b) \in 1..Len(s) /\ s[Place(s, b)] = b
  BY DEF Place, Has

\* The order of the files of submitted batches is strict.
LEMMA BeforeFacts ==
  ASSUME TypeOK, NEW f \in Files, NEW g \in Files, Has(submitted, f[1]), Has(submitted, g[1])
  PROVE  /\ Turn(f[1]) \in 1..Len(submitted) /\ Turn(g[1]) \in 1..Len(submitted)
         /\ Before(f, g) => ~Before(g, f) /\ f # g
<1>1. \A b : Turn(b) = Place(submitted, b)
  BY DEF Turn, Place
<1>2. /\ Turn(f[1]) \in 1..Len(submitted) /\ submitted[Turn(f[1])] = f[1]
      /\ Turn(g[1]) \in 1..Len(submitted) /\ submitted[Turn(g[1])] = g[1]
  BY <1>1, PlaceFacts
<1>3. Len(submitted) \in Nat /\ f[2] \in Nat /\ g[2] \in Nat
  BY FileFacts DEF TypeOK, Positions
<1>4. QED
  BY <1>2, <1>3 DEF Before

\* The invariant holds before the first batch.
LEMMA IInvInit == Init => IInv
<1> SUFFICES ASSUME Init PROVE IInv
  OBVIOUS
<1>1. TypeOK
  <2>1. /\ submitted \in Seq(Batches) /\ kept \in Seq(Batches) /\ queue \in Seq(Files)
        /\ rows \in [Batches -> Seq([position : Positions, status : Final])]
    BY EmptySeq DEF Init
  <2>2. poll \in [batch : Batches \cup {None}, counted : Seq(Status), listed : Seq(Status)]
    BY EmptySeq DEF Init, NoPoll
  <2>3. QED
    BY <2>1, <2>2 DEF Init, TypeOK, Status
<1>2. \A e : ~Has(<<>>, e)
  BY EmptySeq DEF Has
<1>3. Known
  BY EmptySeq DEF Init, Known, Has
<1>4. Waiting
  BY <1>2, EmptySeq DEF Init, Waiting
<1>5. InHand
  BY DEF Init, InHand, Holding
<1>6. Recorded
  <2>1. \A b \in Batches : Len(rows[b]) = 0
    BY EmptySeq DEF Init
  <2>2. \A f \in Files : 1..Len(rows[f[1]]) = {}
    BY <2>1, FileFacts
  <2>3. QED
    BY <2>2 DEF Init, Recorded, Final
<1>7. PollHonest
  BY EmptySeq DEF Init, PollHonest, NoPoll
<1>8. QED
  BY <1>1, <1>3, <1>4, <1>5, <1>6, <1>7 DEF IInv

-----------------------------------------------------------------------------
(* The steps, by what they touch *)

\* A status that is final stays so while the process lives.
FinalKept == \A f \in Files : status[f] \in Final => status'[f] = status[f]

\* A poll that is not read on stays honest.
LEMMA PollKept ==
  ASSUME IInv, FinalKept, UNCHANGED poll
  PROVE  PollHonest'
<1>1. \A i \in 1..Len(poll.counted) : poll.counted[i] \in Final =>
        status'[<<poll.batch, i>>] = poll.counted[i]
  <2> SUFFICES ASSUME NEW i \in 1..Len(poll.counted), poll.counted[i] \in Final
               PROVE  status'[<<poll.batch, i>>] = poll.counted[i]
    OBVIOUS
  <2>1. poll.batch # None
    BY EmptySeq DEF IInv, PollHonest, NoPoll
  <2>2. Len(poll.counted) \in Nat /\ Len(poll.counted) <= BatchSize
    BY DEF IInv, TypeOK, PollHonest
  <2>3. <<poll.batch, i>> \in Files
    BY <2>1, <2>2 DEF IInv, TypeOK, Files, Positions
  <2>4. status[<<poll.batch, i>>] = poll.counted[i]
    BY DEF IInv, PollHonest
  <2>5. QED
    BY <2>3, <2>4 DEF FinalKept
<1>2. QED
  BY <1>1 DEF IInv, PollHonest

\* Nothing in the order changes.
LEMMA WaitingKept ==
  ASSUME Waiting, UNCHANGED <<submitted, status, queue>>
  PROVE  Waiting'
<1>1. \A g, h : Before(g, h)' <=> Before(g, h)
  BY DEF Before, Turn
<1>2. \A i, k \in 1..Len(queue) : i < k => Before(queue[i], queue[k])'
  BY DEF Waiting, Before, Turn
<1>3. \A f, g \in Files : Has(queue, f) /\ status[g] # "none" /\ Before(f, g)' => Has(queue, g)
  BY <1>1 DEF Waiting
<1>4. QED
  BY <1>2, <1>3 DEF Waiting

\* A file in the hand of a worker is known, is not waiting and has no row.
LEMMA HandFacts ==
  ASSUME IInv, NEW w \in Holding
  PROVE  /\ job[w] \in Files /\ status[job[w]] \in {"analysing"} \cup Final
         /\ Has(submitted, job[w][1]) /\ ~Has(queue, job[w])
         /\ \A i \in 1..Len(rows[job[w][1]]) : ~IsRow(job[w], i)
<1>1. job[w] \in Files /\ status[job[w]] \in {"analysing"} \cup Final /\ ~Has(queue, job[w])
  BY DEF IInv, InHand, Holding
<1>2. QED
  BY <1>1 DEF IInv, Known, Recorded, Final

\* What a worker does to the queue when it gets its oldest file.
LEMMA GetFacts ==
  ASSUME IInv, NEW w \in Workers, NEW step, Get(w, step)
  PROVE  LET f == Head(queue)
         IN  /\ f \in Files /\ Has(queue, f) /\ queue' \in Seq(Files)
             /\ \A g : Has(queue', g) <=> Has(queue, g) /\ g # f
             /\ \A i, k \in 1..Len(queue') : i < k => Before(queue'[i], queue'[k])
             /\ \A g, h \in Files : Has(queue', g) /\ status[h] # "none" /\ Before(g, h) => Has(queue', h)
<1>t. TypeOK /\ Known /\ Waiting
  BY DEF IInv
<1> DEFINE f == Head(queue)
<1>1. /\ queue # <<>> /\ queue' = Tail(queue) /\ queue \in Seq(Files)
  BY <1>t DEF Get, TypeOK
<1>2. /\ queue' \in Seq(Files)
      /\ Len(queue) \in Nat \ {0} /\ Len(queue') = Len(queue) - 1
      /\ \A i \in 1..Len(queue') : i + 1 \in 1..Len(queue) /\ queue'[i] = queue[i + 1]
      /\ f = queue[1] /\ f \in Files
      /\ \A e : Has(queue, e) <=> e = f \/ Has(queue', e)
  BY <1>1, TailFacts
<1> HIDE DEF f
<1>3. \A i, k \in 1..Len(queue') : i < k => Before(queue'[i], queue'[k])
  <2> SUFFICES ASSUME NEW i \in 1..Len(queue'), NEW k \in 1..Len(queue'), i < k
               PROVE  Before(queue'[i], queue'[k])
    OBVIOUS
  <2>1. i + 1 \in 1..Len(queue) /\ k + 1 \in 1..Len(queue) /\ i + 1 < k + 1
    BY <1>2
  <2>2. QED
    BY <1>2, <2>1, <1>t DEF Waiting
<1>4. \A g \in Files : Has(queue, g) => Has(submitted, g[1])
  BY <1>t DEF Known, Waiting
<1>5. ASSUME NEW g \in Files, Has(queue', g) PROVE Before(f, g)
  <2>1. PICK i \in 1..Len(queue') : queue'[i] = g
    BY <1>5 DEF Has
  <2>2. 1 < i + 1 /\ 1 \in 1..Len(queue)
    BY <1>2
  <2>3. QED
    BY <1>2, <2>1, <2>2, <1>t DEF Waiting
<1>6. ASSUME NEW g \in Files, Has(queue', g) PROVE g # f /\ ~Before(g, f)
  BY <1>2, <1>4, <1>5, <1>6, <1>t, BeforeFacts
<1>7. ~Has(queue', f)
  BY <1>2, <1>6
<1>8. ASSUME NEW g \in Files, NEW h \in Files, Has(queue', g), status[h] # "none", Before(g, h)
      PROVE  Has(queue', h)
  <2>1. Has(queue, g) /\ h # f
    BY <1>2, <1>6, <1>8
  <2>2. Has(queue, h)
    BY <1>8, <2>1, <1>t DEF Waiting
  <2>3. QED
    BY <1>2, <2>1, <2>2
<1>9. QED
  BY <1>2, <1>3, <1>7, <1>8 DEF f

-----------------------------------------------------------------------------
(* Each action keeps the invariant *)

\* A file leaves the queue for the hand of the worker, analysed or only recorded.
LEMMA GetKeeps ==
  ASSUME IInv, NEW w \in Workers, StartFile(w) \/ TakeRejected(w)
  PROVE  IInv' /\ FinalKept
<1>t. TypeOK /\ Known /\ Waiting /\ InHand /\ Recorded
  BY DEF IInv
<1>0. PICK f \in Files : f = Head(queue)
  BY GetFacts DEF StartFile, TakeRejected
<1>1. PICK step \in {"analysing", "lock"} :
        /\ Get(w, step)
        /\ step = "analysing" => status[f] = "queued" /\ status' = [status EXCEPT ![f] = "analysing"]
        /\ step = "lock" => status[f] = "failed" /\ status' = status
  BY <1>0 DEF StartFile, TakeRejected
<1>2. /\ lifecycle = "up" /\ at[w] = "get"
      /\ at' = [at EXCEPT ![w] = step] /\ job' = [job EXCEPT ![w] = f]
      /\ UNCHANGED <<lifecycle, submitted, kept, header, rows, unrecorded, refused, poll>>
  BY <1>0, <1>1 DEF Get, diskVars
<1>3. /\ Has(queue, f) /\ queue' \in Seq(Files)
      /\ \A g : Has(queue', g) <=> Has(queue, g) /\ g # f
      /\ \A i, k \in 1..Len(queue') : i < k => Before(queue'[i], queue'[k])
      /\ \A g, h \in Files : Has(queue', g) /\ status[h] # "none" /\ Before(g, h) => Has(queue', h)
  BY <1>0, <1>1, GetFacts
<1>4. /\ status' \in [Files -> Status]
      /\ \A g \in Files \ {f} : status'[g] = status[g]
      /\ step = "analysing" => status'[f] = "analysing" /\ status[f] = "queued"
      /\ step = "lock" => status'[f] = "failed" /\ status[f] = "failed"
  BY <1>1, <1>t DEF TypeOK, Status
<1>5. FinalKept
  BY <1>4 DEF FinalKept, Final
<1>6. TypeOK'
  BY <1>2, <1>3, <1>4, <1>t DEF TypeOK
<1>7. Known'
  BY <1>2, <1>4, <1>t DEF Known
<1>8. Waiting'
  <2>1. \A g, h : Before(g, h)' <=> Before(g, h)
    BY <1>2 DEF Before, Turn
  <2>2. \A i, k \in 1..Len(queue') : i < k => Before(queue[i], queue[k])'
    BY <1>2, <1>3 DEF Before, Turn
  <2>3. \A g, h \in Files : Has(queue', g) /\ status'[h] # "none" /\ Before(g, h)' => Has(queue', h)
    BY <1>3, <1>4, <2>1
  <2>4. QED
    BY <1>3, <1>4, <2>2, <2>3, <1>t DEF Waiting
<1>9. /\ Holding' = Holding \cup {w} /\ w \notin Holding
      /\ job'[w] = f /\ \A v \in Holding : job'[v] = job[v] /\ job[v] # f
      /\ at'[w] = step /\ \A v \in Workers \ {w} : at'[v] = at[v]
  BY <1>2, <1>3, <1>t DEF Holding, TypeOK, InHand
<1>10. InHand'
  <2>1. \A v \in Holding : job[v] \in Files /\ status'[job[v]] = status[job[v]] /\ ~Has(queue', job[v])
    BY <1>3, <1>4, <1>9, <1>t DEF InHand
  <2>2. (\A v \in Holding' : job'[v] \in Files /\ ~Has(queue', job'[v])) /\ (\A u, v \in Holding' : job'[u] = job'[v] => u = v)
    BY <1>3, <1>9, <2>1, <1>t DEF InHand
  <2>3. \A v \in Workers : at'[v] = "analysing" => status'[job'[v]] = "analysing"
    BY <1>4, <1>9, <2>1, <1>t DEF InHand, Holding
  <2>4. \A v \in Workers : at'[v] \in {"lock", "writing"} => status'[job'[v]] \in Final
    BY <1>4, <1>9, <2>1, <1>t DEF InHand, Holding, Final
  <2>5. QED
    BY <2>2, <2>3, <2>4 DEF InHand
<1>11. Recorded'
  <2>1. \A g \in Files : \A i : IsRow(g, i)' <=> IsRow(g, i)
    BY <1>2 DEF IsRow
  <2>2. \A i \in 1..Len(rows[f[1]]) : ~IsRow(f, i)
    BY <1>3, <1>t DEF Recorded
  <2>3. ASSUME NEW g \in Files, NEW i \in 1..Len(rows'[g[1]]), IsRow(g, i)'
        PROVE  /\ ~Has(queue', g) /\ \A v \in Holding' : job'[v] # g
               /\ status'[g] \in {"none", rows'[g[1]][i].status}
    BY <1>2, <1>3, <1>4, <1>9, <2>1, <2>2, <2>3, <1>t DEF Recorded
  <2>4. ASSUME NEW g \in Files, lifecycle' = "up", status'[g] \in Final
        PROVE  \/ \E i \in 1..Len(rows'[g[1]]) : IsRow(g, i)'
               \/ g \in unrecorded'
               \/ Has(queue', g)
               \/ \E v \in Workers : at'[v] \in {"lock", "writing"} /\ job'[v] = g
    <3>1. CASE g = f
      BY <1>4, <1>9, <2>4, <3>1 DEF Final
    <3>2. CASE g # f
      <4>1. ASSUME NEW v \in Workers, at[v] \in {"lock", "writing"}, job[v] = g
            PROVE  at'[v] \in {"lock", "writing"} /\ job'[v] = g
        BY <1>2, <1>9, <4>1 DEF Holding
      <4>2. QED
        BY <1>2, <1>3, <1>4, <2>1, <2>4, <3>2, <4>1, <1>t DEF Recorded
    <3>3. QED
      BY <3>1, <3>2
  <2>5. QED
    BY <1>2, <2>1, <2>3, <2>4, <1>t DEF Recorded
<1>12. PollHonest'
  BY <1>2, <1>5, PollKept
<1>13. QED
  BY <1>5, <1>6, <1>7, <1>8, <1>10, <1>11, <1>12 DEF IInv

\* A file gets its outcome; it was in no queue and had no row.
LEMMA EndAnalysisKeeps ==
  ASSUME IInv, NEW w \in Workers, NEW outcome \in Final, EndAnalysis(w, outcome)
  PROVE  IInv' /\ FinalKept
<1>t. TypeOK /\ Known /\ Waiting /\ InHand /\ Recorded
  BY DEF IInv
<1>0. w \in Holding /\ at[w] = "analysing"
  BY DEF EndAnalysis, Holding
<1>1. PICK f \in Files : f = job[w]
  BY <1>0, HandFacts
<1>2. /\ at' = [at EXCEPT ![w] = "lock"] /\ status' = [status EXCEPT ![f] = outcome]
      /\ UNCHANGED <<lifecycle, submitted, kept, queue, job, header, rows, unrecorded, refused, poll>>
  BY <1>1 DEF EndAnalysis, diskVars
<1>3. /\ status' \in [Files -> Status] /\ status[f] = "analysing" /\ status'[f] = outcome
      /\ \A g \in Files \ {f} : status'[g] = status[g]
  BY <1>0, <1>1, <1>2, <1>t DEF TypeOK, Status, InHand
<1>4. FinalKept
  BY <1>3 DEF FinalKept, Final
<1>5. TypeOK'
  BY <1>2, <1>3, <1>t DEF TypeOK
<1>6. Known'
  BY <1>2, <1>3, <1>t DEF Known
<1>7. Waiting'
  <2>1. ~Has(queue, f) /\ outcome \notin {"queued", "none"} /\ status[f] # "none"
    BY <1>0, <1>1, <1>3, HandFacts DEF Final
  <2>2. \A g, h : Before(g, h)' <=> Before(g, h)
    BY <1>2 DEF Before, Turn
  <2>3. \A g \in Files : (status'[g] = "queued" <=> status[g] = "queued") /\ (status'[g] # "none" <=> status[g] # "none")
    BY <1>3, <2>1
  <2>4. \A g \in Files : Has(queue, g) => status'[g] = status[g]
    BY <1>3, <2>1
  <2>5. QED
    BY <1>2, <2>2, <2>3, <2>4, <1>t DEF Waiting
<1>8. /\ Holding' = Holding /\ at'[w] = "lock" /\ \A v \in Workers \ {w} : at'[v] = at[v]
      /\ \A v \in Holding : v # w => job[v] \in Files \ {f}
  BY <1>0, <1>1, <1>2, <1>t DEF Holding, TypeOK, InHand
<1>9. InHand'
  <2>1. \A v \in Holding \ {w} : status'[job[v]] = status[job[v]]
    BY <1>3, <1>8
  <2>2. \A v \in Workers : at'[v] = "analysing" => status'[job'[v]] = "analysing"
    BY <1>2, <1>8, <2>1, <1>t DEF InHand, Holding
  <2>3. \A v \in Workers : at'[v] \in {"lock", "writing"} => status'[job'[v]] \in Final
    BY <1>1, <1>2, <1>3, <1>8, <2>1, <1>t DEF InHand, Holding
  <2>4. QED
    BY <1>2, <1>8, <2>2, <2>3, <1>t DEF InHand
<1>10. Recorded'
  <2>1. \A g \in Files : \A i : IsRow(g, i)' <=> IsRow(g, i)
    BY <1>2 DEF IsRow
  <2>2. \A i \in 1..Len(rows[f[1]]) : ~IsRow(f, i)
    BY <1>0, <1>1, HandFacts
  <2>3. ASSUME NEW g \in Files, lifecycle' = "up", status'[g] \in Final
        PROVE  \/ \E i \in 1..Len(rows'[g[1]]) : IsRow(g, i)'
               \/ g \in unrecorded'
               \/ Has(queue', g)
               \/ \E v \in Workers : at'[v] \in {"lock", "writing"} /\ job'[v] = g
    <3>1. CASE g = f
      BY <1>1, <1>2, <1>8, <3>1
    <3>2. CASE g # f
      <4>1. \A v \in Workers : at[v] \in {"lock", "writing"} => at'[v] \in {"lock", "writing"}
        BY <1>8
      <4>2. QED
        BY <1>2, <1>3, <2>1, <2>3, <3>2, <4>1, <1>t DEF Recorded
    <3>3. QED
      BY <3>1, <3>2
  <2>4. \A g \in Files : \A i \in 1..Len(rows[g[1]]) : IsRow(g, i) => status'[g] = status[g]
    BY <1>3, <2>2
  <2>5. QED
    BY <1>2, <1>8, <2>1, <2>3, <2>4, <1>t DEF Recorded
<1>11. PollHonest'
  BY <1>2, <1>4, PollKept
<1>12. QED
  BY <1>4, <1>5, <1>6, <1>7, <1>9, <1>10, <1>11 DEF IInv

\* The lock changes nothing that the invariant speaks of.
LEMMA LockKeeps ==
  ASSUME IInv, NEW w \in Workers, Lock(w)
  PROVE  IInv' /\ FinalKept
<1>t. TypeOK /\ Known /\ Waiting /\ InHand /\ Recorded
  BY DEF IInv
<1>1. /\ at[w] = "lock" /\ at' = [at EXCEPT ![w] = "writing"]
      /\ UNCHANGED <<lifecycle, submitted, kept, status, queue, job, header, rows, unrecorded, refused, poll>>
  BY DEF Lock, diskVars
<1>2. /\ Holding' = Holding
      /\ \A v \in Workers : at'[v] \in {"lock", "writing"} <=> at[v] \in {"lock", "writing"}
      /\ \A v \in Workers : at'[v] = "analysing" <=> at[v] = "analysing"
  BY <1>1, <1>t DEF Holding, TypeOK
<1>3. FinalKept
  BY <1>1 DEF FinalKept
<1>4. TypeOK' /\ Known' /\ Waiting'
  BY <1>1, <1>t, WaitingKept DEF TypeOK, Known
<1>5. InHand'
  BY <1>1, <1>2, <1>t DEF InHand
<1>6. Recorded'
  BY <1>1, <1>2, <1>t DEF Recorded, IsRow
<1>7. QED
  BY <1>1, <1>3, <1>4, <1>5, <1>6, PollKept DEF IInv

RowType == [position : Positions, status : Final]

\* The rows of every file are those it had, and the one that is appended.
LEMMA RowAppended ==
  ASSUME TypeOK, NEW f \in Files, status[f] \in Final,
         \A i \in 1..Len(rows[f[1]]) : ~IsRow(f, i),
         rows' = [rows EXCEPT ![f[1]] = Append(@, RowOf(f))]
  PROVE  /\ rows' \in [Batches -> Seq(RowType)]
         /\ \A b \in Batches \ {f[1]} : rows'[b] = rows[b]
         /\ \A g \in Files \ {f} : \A i : IsRow(g, i)' <=> IsRow(g, i)
         /\ \A g \in Files \ {f} : \A i : IsRow(g, i) => rows'[g[1]][i] = rows[g[1]][i]
         /\ \E last : \A i : IsRow(f, i)' <=> i = last
         /\ \A i : IsRow(f, i)' => rows'[f[1]][i].status = status[f]
<1> DEFINE old == rows[f[1]]
           new == Append(old, RowOf(f))
           last == Len(old) + 1
<1>1. /\ f[1] \in Batches /\ RowOf(f) \in RowType
      /\ RowOf(f).position = f[2] /\ RowOf(f).status = status[f]
      /\ old \in Seq(RowType)
  BY FileFacts DEF RowOf, RowType, TypeOK
<1>2. /\ new \in Seq(RowType) /\ Len(old) \in Nat /\ Len(new) = last
      /\ \A i \in 1..Len(old) : new[i] = old[i]
      /\ new[last] = RowOf(f)
  BY <1>1, AppendFacts
<1>3. /\ rows' \in [Batches -> Seq(RowType)]
      /\ rows'[f[1]] = new /\ \A b \in Batches \ {f[1]} : rows'[b] = rows[b]
  BY <1>1, <1>2 DEF TypeOK, RowType
<1>4. /\ \A i \in 1..last : i \in 1..Len(old) \/ i = last
      /\ last \in 1..last /\ \A i \in 1..Len(old) : i \in 1..last /\ i # last
  BY <1>2
<1> HIDE DEF last, new
<1>5. ASSUME NEW g \in Files \ {f}, NEW i
      PROVE  (IsRow(g, i)' <=> IsRow(g, i)) /\ (IsRow(g, i) => rows'[g[1]][i] = rows[g[1]][i])
  <2>1. CASE g[1] = f[1]
    <3>1. g[2] # f[2]
      BY <2>1, FileFacts
    <3>2. IsRow(g, i)' => i \in 1..Len(old) /\ old[i].position = g[2]
      BY <1>1, <1>2, <1>3, <1>4, <2>1, <3>1 DEF IsRow
    <3>3. i \in 1..Len(old) => i \in 1..Len(new) /\ new[i] = old[i]
      BY <1>2, <1>4
    <3>4. QED
      BY <1>3, <2>1, <3>2, <3>3 DEF IsRow
  <2>2. CASE g[1] # f[1]
    BY <1>3, <2>2, FileFacts DEF IsRow
  <2>3. QED
    BY <2>1, <2>2
<1>6. \A i \in 1..Len(old) : old[i].position # f[2]
  BY DEF IsRow
<1>7. \A i : IsRow(f, i)' <=> i = last
  BY <1>1, <1>2, <1>3, <1>4, <1>6 DEF IsRow
<1>8. QED
  BY <1>1, <1>2, <1>3, <1>5, <1>7

\* A file gets its row, or is noted as one whose row could not be written, and leaves
\* the hand of its worker.
LEMMA UnlockKeeps ==
  ASSUME IInv, NEW w \in Workers, AppendRow(w) \/ AppendFails(w)
  PROVE  IInv' /\ FinalKept
<1>t. TypeOK /\ Known /\ Waiting /\ InHand /\ Recorded
  BY DEF IInv
<1>0. w \in Holding /\ at[w] = "writing"
  BY DEF AppendRow, AppendFails, Unlock, Holding
<1>1. PICK f \in Files : f = job[w]
  BY <1>0, HandFacts
<1>2. /\ at' = [at EXCEPT ![w] = IF lifecycle = "up" THEN "get" ELSE "gone"]
      /\ job' = [job EXCEPT ![w] = None]
      /\ UNCHANGED <<lifecycle, submitted, kept, status, queue, header, refused, poll>>
  BY DEF AppendRow, AppendFails, Unlock
<1>3. /\ status[f] \in Final /\ Has(submitted, f[1]) /\ ~Has(queue, f)
      /\ \A i \in 1..Len(rows[f[1]]) : ~IsRow(f, i)
  BY <1>0, <1>1, <1>t, HandFacts DEF InHand
<1>4. \/ rows' = [rows EXCEPT ![f[1]] = Append(@, RowOf(f))] /\ unrecorded' = unrecorded
      \/ unrecorded' = unrecorded \cup {f} /\ rows' = rows
  BY <1>1 DEF AppendRow, AppendFails
<1>5. /\ rows' \in [Batches -> Seq(RowType)] /\ unrecorded' \subseteq Files
      /\ \A b \in Batches \ {f[1]} : rows'[b] = rows[b]
      /\ \A g \in Files \ {f} : \A i : IsRow(g, i)' <=> IsRow(g, i)
      /\ \A g \in Files \ {f} : \A i : IsRow(g, i) => rows'[g[1]][i] = rows[g[1]][i]
      /\ \A i, k : IsRow(f, i)' /\ IsRow(f, k)' => i = k
      /\ \A i : IsRow(f, i)' => rows'[f[1]][i].status = status[f]
      /\ unrecorded \subseteq unrecorded'
      /\ (\E i : IsRow(f, i)') \/ f \in unrecorded'
  <2>1. CASE rows' = [rows EXCEPT ![f[1]] = Append(@, RowOf(f))] /\ unrecorded' = unrecorded
    BY <1>3, <1>t, <2>1, RowAppended DEF TypeOK
  <2>2. CASE unrecorded' = unrecorded \cup {f} /\ rows' = rows
    <3>1. \A g \in Files : \A i : IsRow(g, i)' <=> IsRow(g, i)
      BY <2>2 DEF IsRow
    <3>2. \A i : ~IsRow(f, i)
      BY <1>3 DEF IsRow
    <3>3. QED
      BY <2>2, <3>1, <3>2, <1>t DEF TypeOK, RowType
  <2>3. QED
    BY <1>4, <2>1, <2>2
<1>6. FinalKept
  BY <1>2 DEF FinalKept
<1>7. TypeOK'
  BY <1>2, <1>5, <1>t DEF TypeOK, RowType
<1>8. Known'
  BY <1>2, <1>3, <1>5, <1>t DEF Known
<1>9. Waiting'
  BY <1>2, <1>t, WaitingKept
<1>10. /\ Holding' = Holding \ {w} /\ at'[w] \notin {"analysing", "lock", "writing"}
       /\ \A v \in Workers \ {w} : at'[v] = at[v] /\ job'[v] = job[v]
       /\ \A v \in Holding : v # w => job[v] # f
  BY <1>0, <1>1, <1>2, <1>t DEF Holding, TypeOK, InHand
<1>11. InHand'
  BY <1>2, <1>10, <1>t DEF InHand, Holding
<1>12. Recorded'
  <2>1. ASSUME NEW g \in Files, NEW i \in 1..Len(rows'[g[1]]), IsRow(g, i)'
        PROVE  /\ ~Has(queue', g) /\ \A v \in Holding' : job'[v] # g
               /\ status'[g] \in {"none", rows'[g[1]][i].status}
    <3>1. CASE g = f
      BY <1>2, <1>3, <1>5, <1>10, <2>1, <3>1 DEF Holding
    <3>2. CASE g # f
      <4>1. IsRow(g, i) /\ i \in 1..Len(rows[g[1]]) /\ rows'[g[1]][i] = rows[g[1]][i]
        BY <1>5, <2>1, <3>2 DEF IsRow
      <4>2. QED
        BY <1>2, <1>10, <4>1, <1>t DEF Recorded, Holding
    <3>3. QED
      BY <3>1, <3>2
  <2>2. ASSUME NEW g \in Files, lifecycle' = "up", status'[g] \in Final
        PROVE  \/ \E i \in 1..Len(rows'[g[1]]) : IsRow(g, i)'
               \/ g \in unrecorded'
               \/ Has(queue', g)
               \/ \E v \in Workers : at'[v] \in {"lock", "writing"} /\ job'[v] = g
    <3>1. CASE g = f
      BY <1>5, <3>1 DEF IsRow
    <3>2. CASE g # f
      <4>1. \A i \in 1..Len(rows[g[1]]) : IsRow(g, i) => i \in 1..Len(rows'[g[1]]) /\ IsRow(g, i)'
        BY <1>5, <3>2 DEF IsRow
      <4>2. \A v \in Workers : at[v] \in {"lock", "writing"} /\ job[v] = g => at'[v] = at[v] /\ job'[v] = g
        BY <1>1, <1>10, <3>2
      <4>3. QED
        BY <1>2, <1>5, <2>2, <4>1, <4>2, <1>t DEF Recorded
    <3>3. QED
      BY <3>1, <3>2
  <2>3. \A g \in Files : \A i, k \in 1..Len(rows'[g[1]]) : IsRow(g, i)' /\ IsRow(g, k)' => i = k
    <3> SUFFICES ASSUME NEW g \in Files, NEW i, NEW k, IsRow(g, i)', IsRow(g, k)' PROVE i = k
      OBVIOUS
    <3>1. CASE g # f
      BY <1>5, <3>1, <1>t DEF Recorded, IsRow
    <3>2. QED
      BY <1>5, <3>1
  <2>4. QED
    BY <2>1, <2>2, <2>3 DEF Recorded
<1>13. QED
  BY <1>2, <1>6, <1>7, <1>8, <1>9, <1>11, <1>12, PollKept DEF IInv
\* A batch is put at the end: of the order, of the queue and of the batches kept.
LEMMA SubmitKeeps ==
  ASSUME IInv, NEW b \in Batches, NEW rejected \in SUBSET Positions, Submit(b, rejected)
  PROVE  IInv' /\ FinalKept
<1>t. TypeOK /\ Known /\ Waiting /\ InHand /\ Recorded
  BY DEF IInv
<1>1. /\ lifecycle = "up" /\ ~Has(submitted, b)
      /\ submitted' = Append(submitted, b) /\ kept' = KeepRecent(Append(kept, b))
      /\ status' = [f \in Files |->
           IF f[1] # b THEN status[f] ELSE IF f[2] \in rejected THEN "failed" ELSE "queued"]
      /\ queue' = queue \o [p \in Positions |-> <<b, p>>]
      /\ UNCHANGED <<lifecycle, at, job, rows, unrecorded, poll>>
      /\ header' \subseteq Batches /\ refused' \subseteq Batches
  BY <1>t DEF Submit, Enqueue, workerVars, TypeOK
<1>2. /\ submitted' \in Seq(Batches)
      /\ Len(submitted) \in Nat /\ Len(submitted') = Len(submitted) + 1
      /\ \A i \in 1..Len(submitted) : submitted'[i] = submitted[i]
      /\ submitted'[Len(submitted) + 1] = b
      /\ \A c : Has(submitted', c) <=> Has(submitted, c) \/ c = b
  BY <1>1, <1>t, AppendFacts DEF TypeOK
<1>3. /\ queue' \in Seq(Files) /\ Len(queue) \in Nat /\ Len(queue') = Len(queue) + BatchSize
      /\ \A i \in 1..Len(queue) : queue'[i] = queue[i]
      /\ \A i \in 1..Len(queue') : i \in 1..Len(queue) \/ (i > Len(queue) /\ queue'[i] = <<b, i - Len(queue)>>)
      /\ \A f \in Files : Has(queue', f) <=> Has(queue, f) \/ f[1] = b
  <2>1. queue \in Seq(Files) /\ queue' = queue \o FilesOf(b)
    BY <1>1, <1>t DEF TypeOK, FilesOf
  <2>2. QED
    BY <2>1, BatchQueued
<1>4. /\ \A f \in Files : f[1] # b => status'[f] = status[f]
      /\ \A f \in Files : f[1] = b => status[f] = "none" /\ status'[f] \in {"queued", "failed"}
      /\ status' \in [Files -> Status]
  BY <1>1, <1>t DEF Known, TypeOK, Status, Final
<1>5. FinalKept
  BY <1>4 DEF FinalKept, Final
<1>6. kept' \in Seq(Batches)
  <2>1. Append(kept, b) \in Seq(Batches) /\ Len(Append(kept, b)) \in Nat
    BY <1>t, AppendFacts DEF TypeOK
  <2> DEFINE s == Append(kept, b)
             m == IF Len(s) > MaxKept THEN Len(s) - MaxKept + 1 ELSE 1
  <2>2. m \in Int /\ m >= 1
    BY <2>1
  <2> HIDE DEF s, m
  <2>3. \A i \in m..Len(s) : s[i] \in Batches
    BY <2>1, <2>2, ElementOfSeq DEF s
  <2>4. SubSeq(s, m, Len(s)) \in Seq(Batches)
    BY <2>1, <2>2, <2>3, SubSeqProperties DEF s
  <2>5. QED
    BY <1>1, <2>4 DEF KeepRecent, s, m
<1>7. TypeOK'
  BY <1>1, <1>2, <1>3, <1>4, <1>6, <1>t DEF TypeOK
<1>8. Known'
  <2>1. \A i, k \in 1..Len(submitted') : submitted'[i] = submitted'[k] => i = k
    <3>1. \A i \in 1..Len(submitted') : i \in 1..Len(submitted) \/ i = Len(submitted) + 1
      BY <1>2
    <3>2. \A i \in 1..Len(submitted) : submitted'[i] # b
      BY <1>1, <1>2 DEF Has
    <3>3. QED
      BY <1>2, <3>1, <3>2, <1>t DEF Known
  <2>2. \A f \in Files : status'[f] # "none" => Has(submitted', f[1])
    BY <1>2, <1>4, <1>t DEF Known
  <2>3. QED
    BY <1>1, <1>2, <2>1, <2>2, <1>t DEF Known
\* Turns stay, and the new batch comes last.
<1>9. /\ \A c : Has(submitted, c) => Turn(c)' = Turn(c) /\ Turn(c) \in 1..Len(submitted)
      /\ Turn(b)' = Len(submitted) + 1
  <2>1. \A c : Turn(c) = Place(submitted, c) /\ Turn(c)' = Place(submitted', c)
    BY DEF Turn, Place
  <2>2. \A c : Has(submitted', c) => Place(submitted', c) \in 1..Len(submitted') /\ submitted'[Place(submitted', c)] = c
    BY PlaceFacts
  <2>3. \A c : Has(submitted, c) => Place(submitted, c) \in 1..Len(submitted) /\ submitted[Place(submitted, c)] = c
    BY PlaceFacts
  <2>4. \A i \in 1..Len(submitted) : i \in 1..Len(submitted')
    BY <1>2
  <2>5. Len(submitted) + 1 \in 1..Len(submitted')
    BY <1>2
  <2>6. QED
    BY <1>2, <1>8, <2>1, <2>2, <2>3, <2>4, <2>5 DEF Known
<1>10. /\ \A f, g \in Files : Has(submitted, f[1]) /\ Has(submitted, g[1]) => (Before(f, g)' <=> Before(f, g))
       /\ \A f, g \in Files : f[1] = b /\ Has(submitted, g[1]) => Before(g, f)' /\ ~Before(f, g)'
  BY <1>1, <1>2, <1>9 DEF Before
<1>11. \A f \in Files : Has(queue, f) => Has(submitted, f[1]) /\ f[1] # b
  BY <1>1, <1>t DEF Known, Waiting
<1>12. Waiting'
  <2>1. ASSUME NEW i \in 1..Len(queue'), NEW k \in 1..Len(queue'), i < k
        PROVE  Before(queue[i], queue[k])'
    <3>0. \A n \in 1..Len(queue) : queue[n] \in Files /\ Has(queue, queue[n]) /\ queue'[n] = queue[n]
      BY <1>3, <1>t, ElementOfSeq DEF TypeOK, Has
    <3>00. queue'[i] \in Files /\ queue'[k] \in Files
      BY <1>3, ElementOfSeq
    <3>1. CASE i \in 1..Len(queue) /\ k \in 1..Len(queue)
      BY <1>10, <1>11, <2>1, <3>0, <3>1, <1>t DEF Waiting
    <3>2. CASE i \in 1..Len(queue) /\ k \notin 1..Len(queue)
      <4>1. queue'[k] = <<b, k - Len(queue)>>
        BY <1>3, <3>2
      <4>2. queue'[k][1] = b
        BY <4>1
      <4>3. QED
        BY <1>10, <1>11, <3>0, <3>00, <3>2, <4>2
    <3>3. CASE i \notin 1..Len(queue)
      <4>1. /\ queue'[i] = <<b, i - Len(queue)>> /\ i \notin 1..Len(queue)
            /\ k \notin 1..Len(queue) /\ queue'[k] = <<b, k - Len(queue)>>
        BY <1>3, <2>1, <3>3
      <4>2. queue'[i][1] = queue'[k][1] /\ queue'[i][2] < queue'[k][2]
        BY <1>3, <2>1, <4>1
      <4>3. QED
        BY <4>2 DEF Before
    <3>4. QED
      BY <3>1, <3>2, <3>3
  <2>2. ASSUME NEW f \in Files, NEW g \in Files, Has(queue', f), status'[g] # "none", Before(f, g)'
        PROVE  Has(queue', g)
    <3>1. CASE g[1] = b
      BY <1>3, <3>1
    <3>2. CASE g[1] # b
      <4>1. status[g] # "none" /\ Has(submitted, g[1])
        BY <1>4, <2>2, <3>2, <1>t DEF Known
      <4>2. f[1] # b
        BY <1>10, <2>2, <4>1
      <4>3. Has(queue, f) /\ Before(f, g)
        BY <1>3, <1>10, <1>11, <2>2, <4>1, <4>2
      <4>4. QED
        BY <1>3, <4>1, <4>3, <1>t DEF Waiting
    <3>3. QED
      BY <3>1, <3>2
  <2>3. ASSUME NEW f \in Files, status'[f] = "queued" PROVE Has(queue', f)
    <3>1. CASE f[1] = b
      BY <1>3, <3>1
    <3>2. CASE f[1] # b
      BY <1>3, <1>4, <2>3, <3>2, <1>t DEF Waiting
    <3>3. QED
      BY <3>1, <3>2
  <2>4. \A f \in Files : Has(queue', f) => status'[f] \in {"queued", "failed"}
    BY <1>3, <1>4, <1>t DEF Waiting
  <2>5. QED
    BY <2>1, <2>2, <2>3, <2>4 DEF Waiting
<1>13. Holding' = Holding /\ \A w \in Holding : job[w] \in Files /\ job[w][1] # b
  BY <1>1, HandFacts DEF Holding
<1>14. InHand'
  <2>1. \A w \in Holding : ~Has(queue', job[w]) /\ status'[job[w]] = status[job[w]]
    BY <1>3, <1>4, <1>13, <1>t DEF InHand
  <2>2. QED
    BY <1>1, <1>13, <2>1, <1>t DEF InHand, Holding
<1>15. Recorded'
  <2>1. \A f \in Files : \A i : IsRow(f, i)' <=> IsRow(f, i)
    BY <1>1 DEF IsRow
  <2>2. \A f \in Files : \A i \in 1..Len(rows[f[1]]) : f[1] # b
    BY <1>1, <1>t, EmptySeq DEF Known
  <2>3. QED
    BY <1>1, <1>3, <1>4, <1>13, <2>1, <2>2, <1>t DEF Recorded
<1>16. QED
  BY <1>1, <1>5, <1>7, <1>8, <1>12, <1>14, <1>15, PollKept DEF IInv

-----------------------------------------------------------------------------
(* The poll and the process *)

\* A step of the poll leaves everything else alone.
PollOnly == UNCHANGED <<lifecycle, submitted, kept, status, queue, at, job, header, rows, unrecorded, refused>>

\* A step that only moves the poll keeps what is not about it.
LEMMA PollOnlyKeeps ==
  ASSUME IInv, PollOnly, PollHonest',
         poll' \in [batch : Batches \cup {None}, counted : Seq(Status), listed : Seq(Status)]
  PROVE  IInv' /\ FinalKept
<1>1. TypeOK' /\ Known' /\ FinalKept
  BY DEF PollOnly, IInv, TypeOK, Known, FinalKept
<1>2. Waiting'
  BY WaitingKept DEF PollOnly, IInv
<1>3. InHand' /\ Recorded'
  BY DEF PollOnly, IInv, InHand, Holding, Recorded, IsRow
<1>4. QED
  BY <1>1, <1>2, <1>3 DEF IInv

\* The poll reads the status of the next file into the statuses it has counted.
LEMMA PollCountsKeeps == IInv /\ PollCounts => IInv' /\ FinalKept
<1> SUFFICES ASSUME IInv, PollCounts PROVE IInv' /\ FinalKept
  OBVIOUS
<1> DEFINE next == Len(poll.counted) + 1
           read == status[<<poll.batch, next>>]
<1>t. /\ poll \in [batch : Batches \cup {None}, counted : Seq(Status), listed : Seq(Status)]
      /\ status \in [Files -> Status]
  BY DEF IInv, TypeOK
<1>1. /\ poll.batch # None /\ Len(poll.counted) < BatchSize
      /\ poll' = [poll EXCEPT !.counted = Append(poll.counted, read)]
  BY DEF PollCounts, ReadInto
<1>2. PollOnly
  BY DEF PollCounts, ReadInto, PollOnly, workerVars, diskVars
<1>3. /\ poll.batch \in Batches /\ next \in Positions /\ Len(poll.counted) \in Nat /\ read \in Status
  BY <1>1, <1>t, FileFacts DEF Positions
<1>4. /\ Append(poll.counted, read) \in Seq(Status)
      /\ Len(Append(poll.counted, read)) = next
      /\ \A i \in 1..Len(poll.counted) : Append(poll.counted, read)[i] = poll.counted[i]
      /\ Append(poll.counted, read)[next] = read
  BY <1>3, <1>t, AppendFacts
<1>5. /\ poll'.batch = poll.batch /\ poll'.listed = poll.listed
      /\ poll'.counted = Append(poll.counted, read)
      /\ poll' \in [batch : Batches \cup {None}, counted : Seq(Status), listed : Seq(Status)]
  BY <1>1, <1>4, <1>t
<1> HIDE DEF read
<1>6. poll.listed = <<>> /\ Len(poll.listed) = 0
  BY <1>1, EmptySeq DEF IInv, PollHonest
<1>7. \A i \in 1..next : i \in 1..Len(poll.counted) \/ i = next
  BY <1>3
<1>8. status' = status
  BY <1>2 DEF PollOnly
<1>9. PollHonest'
  <2>1. ASSUME NEW i \in 1..Len(poll'.counted), poll'.counted[i] \in Final
        PROVE  status'[<<poll'.batch, i>>] = poll'.counted[i]
    <3>1. CASE i = next
      BY <1>4, <1>5, <1>8, <3>1 DEF read
    <3>2. CASE i \in 1..Len(poll.counted)
      BY <1>4, <1>5, <1>8, <2>1, <3>2 DEF IInv, PollHonest
    <3>3. QED
      BY <1>4, <1>5, <1>7, <3>1, <3>2
  <2>2. Len(poll'.counted) <= BatchSize
    BY <1>1, <1>3, <1>4, <1>5
  <2>3. QED
    BY <1>1, <1>5, <1>6, <2>1, <2>2 DEF PollHonest
<1>10. QED
  BY <1>2, <1>5, <1>9, PollOnlyKeeps

\* The poll reads the status of the next file into the list, when all are counted.
LEMMA PollListsKeeps == IInv /\ PollLists => IInv' /\ FinalKept
<1> SUFFICES ASSUME IInv, PollLists PROVE IInv' /\ FinalKept
  OBVIOUS
<1> DEFINE next == Len(poll.listed) + 1
           read == status[<<poll.batch, next>>]
<1>t. /\ poll \in [batch : Batches \cup {None}, counted : Seq(Status), listed : Seq(Status)]
      /\ status \in [Files -> Status]
  BY DEF IInv, TypeOK
<1>1. /\ poll.batch # None /\ Len(poll.listed) < BatchSize /\ Len(poll.counted) = BatchSize
      /\ poll' = [poll EXCEPT !.listed = Append(poll.listed, read)]
  BY DEF PollLists, ReadInto
<1>2. PollOnly
  BY DEF PollLists, ReadInto, PollOnly, workerVars, diskVars
<1>3. /\ poll.batch \in Batches /\ next \in Positions /\ Len(poll.listed) \in Nat /\ read \in Status
  BY <1>1, <1>t, FileFacts DEF Positions
<1>4. /\ Append(poll.listed, read) \in Seq(Status)
      /\ Len(Append(poll.listed, read)) = next
      /\ \A i \in 1..Len(poll.listed) : Append(poll.listed, read)[i] = poll.listed[i]
      /\ Append(poll.listed, read)[next] = read
  BY <1>3, <1>t, AppendFacts
<1>5. /\ poll'.batch = poll.batch /\ poll'.counted = poll.counted
      /\ poll'.listed = Append(poll.listed, read)
      /\ poll' \in [batch : Batches \cup {None}, counted : Seq(Status), listed : Seq(Status)]
  BY <1>1, <1>4, <1>t
<1> HIDE DEF read
<1>6. \A i \in 1..next : i \in 1..Len(poll.listed) \/ i = next
  BY <1>3
<1>7. status' = status
  BY <1>2 DEF PollOnly
<1>8. PollHonest'
  <2>1. ASSUME NEW i \in 1..Len(poll'.listed), poll'.counted[i] \in Final
        PROVE  poll'.listed[i] = poll'.counted[i]
    <3>1. CASE i = next
      <4>1. next \in 1..Len(poll.counted)
        BY <1>1, <1>3 DEF Positions
      <4>2. status[<<poll.batch, next>>] = poll.counted[next]
        BY <1>5, <2>1, <3>1, <4>1 DEF IInv, PollHonest
      <4>3. QED
        BY <1>4, <1>5, <3>1, <4>2 DEF read
    <3>2. CASE i \in 1..Len(poll.listed)
      BY <1>4, <1>5, <2>1, <3>2 DEF IInv, PollHonest
    <3>3. QED
      BY <1>4, <1>5, <1>6, <3>1, <3>2
  <2>2. Len(poll'.listed) <= BatchSize
    BY <1>1, <1>3, <1>4, <1>5
  <2>3. QED
    BY <1>1, <1>5, <1>7, <2>1, <2>2 DEF IInv, PollHonest
<1>9. QED
  BY <1>2, <1>5, <1>8, PollOnlyKeeps

\* A poll begins with nothing read, and ends.
LEMMA PollEdgeKeeps ==
  ASSUME IInv, (\E b \in Batches : PollBegins(b)) \/ PollEnds
  PROVE  IInv' /\ FinalKept
<1>1. PollOnly
  BY DEF PollBegins, PollEnds, PollOnly, workerVars, diskVars
<1>2. \E b \in Batches \cup {None} : poll' = [NoPoll EXCEPT !.batch = b]
  BY DEF PollBegins, PollEnds, NoPoll
<1>3. PICK b \in Batches \cup {None} : poll' = [batch |-> b, counted |-> <<>>, listed |-> <<>>]
  BY <1>2 DEF NoPoll
<1>4. poll' \in [batch : Batches \cup {None}, counted : Seq(Status), listed : Seq(Status)]
  BY <1>3, EmptySeq
<1>5. PollHonest'
  BY <1>3, EmptySeq DEF PollHonest, NoPoll
<1>6. QED
  BY <1>1, <1>4, <1>5, PollOnlyKeeps

\* The workers are cancelled; a thread that writes goes on.
LEMMA CloseKeeps == IInv /\ Close => IInv' /\ FinalKept
<1> SUFFICES ASSUME IInv, Close PROVE IInv' /\ FinalKept
  OBVIOUS
<1>1. /\ lifecycle' = "closing" /\ at' = [w \in Workers |-> IF at[w] = "writing" THEN "writing" ELSE "gone"]
      /\ UNCHANGED <<submitted, kept, status, queue, job, header, rows, unrecorded, refused, poll>>
  BY DEF Close, diskVars
<1>2. Holding' \subseteq Holding /\ \A w \in Workers : at'[w] \in {"analysing", "lock", "writing"} => at[w] = "writing"
  BY <1>1 DEF Holding
<1>3. TypeOK' /\ Known' /\ FinalKept
  BY <1>1 DEF IInv, TypeOK, Known, FinalKept
<1>4. Waiting'
  BY <1>1, WaitingKept DEF IInv
<1>5. InHand'
  BY <1>1, <1>2 DEF IInv, InHand, Holding
<1>6. Recorded'
  BY <1>1, <1>2 DEF IInv, Recorded, IsRow
<1>7. QED
  BY <1>1, <1>3, <1>4, <1>5, <1>6, PollKept DEF IInv

\* The memory is gone and the disk stays.
LEMMA StoppedKeeps == IInv /\ Stopped => IInv'
<1> SUFFICES ASSUME IInv, Stopped PROVE IInv'
  OBVIOUS
<1>1. /\ lifecycle' = "down" /\ kept' = <<>> /\ status' = [f \in Files |-> "none"] /\ queue' = <<>>
      /\ at' = [w \in Workers |-> "gone"] /\ job' = [w \in Workers |-> None] /\ poll' = NoPoll
      /\ UNCHANGED <<submitted, header, rows, unrecorded, refused>>
  BY DEF Stopped, diskVars
<1>2. /\ <<>> \in Seq(Batches) /\ <<>> \in Seq(Files) /\ Len(<<>>) = 0
      /\ poll' \in [batch : Batches \cup {None}, counted : Seq(Status), listed : Seq(Status)]
  BY <1>1, EmptySeq DEF NoPoll
<1>3. TypeOK'
  BY <1>1, <1>2 DEF IInv, TypeOK, Status
<1>4. Known'
  BY <1>1 DEF IInv, Known
<1>5. Waiting'
  BY <1>1, <1>2 DEF Waiting, Has
<1>6. Holding' = {}
  BY <1>1 DEF Holding
<1>7. InHand'
  BY <1>1, <1>6 DEF InHand
<1>8. Recorded'
  BY <1>1, <1>2, <1>6 DEF IInv, Recorded, IsRow, Has
<1>9. PollHonest'
  BY <1>1, EmptySeq DEF PollHonest, NoPoll
<1>10. QED
  BY <1>3, <1>4, <1>5, <1>7, <1>8, <1>9 DEF IInv

\* A restart finds the rows on disk and nothing else.
LEMMA RestartKeeps == IInv /\ Restart => IInv' /\ FinalKept
<1> SUFFICES ASSUME IInv, Restart PROVE IInv' /\ FinalKept
  OBVIOUS
<1>1. /\ lifecycle = "down" /\ lifecycle' = "up" /\ at' = [w \in Workers |-> "get"]
      /\ UNCHANGED <<submitted, kept, status, queue, job, header, rows, unrecorded, refused, poll>>
  BY DEF Restart, diskVars
<1>2. Holding' = {} /\ \A f \in Files : status[f] = "none"
  BY <1>1 DEF IInv, Holding, Known
<1>3. TypeOK' /\ Known' /\ FinalKept
  BY <1>1 DEF IInv, TypeOK, Known, FinalKept
<1>4. Waiting'
  BY <1>1, WaitingKept DEF IInv
<1>5. InHand'
  BY <1>1, <1>2 DEF InHand
<1>6. Recorded'
  BY <1>1, <1>2 DEF IInv, Recorded, IsRow, Final
<1>7. QED
  BY <1>1, <1>3, <1>4, <1>5, <1>6, PollKept DEF IInv

-----------------------------------------------------------------------------
(* The theorems *)

\* Every step keeps the invariant, and no final status changes while the process lives.
LEMMA IInvStep == IInv /\ [Next]_vars => IInv' /\ (lifecycle' = "down" \/ FinalKept)
<1> SUFFICES ASSUME IInv, [Next]_vars PROVE IInv' /\ (lifecycle' = "down" \/ FinalKept)
  OBVIOUS
<1>1. CASE \E b \in Batches, rejected \in SUBSET Positions : Submit(b, rejected)
  BY <1>1, SubmitKeeps
<1>2. ASSUME NEW w \in Workers, WorkerStep(w) PROVE IInv' /\ FinalKept
  BY <1>2, GetKeeps, EndAnalysisKeeps, LockKeeps, UnlockKeeps DEF WorkerStep
<1>3. CASE PollStep
  BY <1>3, PollEdgeKeeps, PollCountsKeeps, PollListsKeeps DEF PollStep
<1>4. CASE Exit \/ Crash
  BY <1>4, StoppedKeeps DEF Exit, Crash, Stopped
<1>5. CASE UNCHANGED vars
  <2>1. PollOnly /\ UNCHANGED poll
    BY <1>5 DEF vars, workerVars, diskVars, PollOnly
  <2>2. FinalKept
    BY <2>1 DEF PollOnly, FinalKept
  <2>3. QED
    BY <2>1, <2>2, PollKept, PollOnlyKeeps DEF IInv, TypeOK
<1>6. QED
  BY <1>1, <1>2, <1>3, <1>4, <1>5, CloseKeeps, RestartKeeps DEF Next

\* So it holds for good.
LEMMA IInvAlways == Spec => []IInv
  BY IInvInit, IInvStep, PTL DEF Spec

\* Every variable keeps its type.
THEOREM TypeCorrect == Spec => []TypeOK
<1>1. IInv => TypeOK
  BY DEF IInv
<1>2. QED
  BY <1>1, IInvAlways, PTL

\* Accounts start in the order of submission, across batches and workers.
THEOREM StartedInOrder == Spec => []StartInOrder
<1>1. IInv => StartInOrder
  BY DEF IInv, Waiting, StartInOrder
<1>2. QED
  BY <1>1, IInvAlways, PTL

\* A status that is final never changes again while the process lives.
THEOREM FinalStaysFinal == Spec => FinalIsFinal
<1> DEFINE Step == \A f \in Files : status[f] \in Final /\ lifecycle' # "down" => status'[f] = status[f]
<1>1. IInv /\ [Next]_vars => Step
  BY IInvStep DEF FinalKept
<1> HIDE DEF Step
<1>2. Spec => [][Step]_vars
  BY <1>1, IInvAlways, PTL DEF Spec
<1>3. QED
  BY <1>2 DEF FinalIsFinal, Step

\* The CSV has at most one row of a file, with the outcome the page shows; while the
\* process is up, a finished file has its row, waits for it, or is noted as refused.
THEOREM RecordedOnce == Spec => []OneRowPerFile
<1>1. IInv => OneRowPerFile
  <2> SUFFICES ASSUME IInv, NEW f \in Files
               PROVE  LET own == {i \in 1..Len(rows[f[1]]) : rows[f[1]][i].position = f[2]}
                      IN  /\ Cardinality(own) <= 1
                          /\ \A i \in own : status[f] \in {"none", rows[f[1]][i].status}
                          /\ lifecycle = "up" /\ status[f] \in Final /\ own = {} =>
                               \/ f \in unrecorded
                               \/ Has(queue, f)
                               \/ \E w \in Workers : at[w] \in {"lock", "writing"} /\ job[w] = f
    BY DEF OneRowPerFile
  <2> DEFINE own == {i \in 1..Len(rows[f[1]]) : rows[f[1]][i].position = f[2]}
  <2>1. \A i : i \in own <=> IsRow(f, i)
    BY DEF IsRow
  <2>2. \A i \in own : i \in 1..Len(rows[f[1]])
    OBVIOUS
  <2> HIDE DEF own
  <2>3. \A i, k \in own : i = k
    BY <2>1, <2>2 DEF IInv, Recorded
  <2>4. own = {} \/ \E i \in own : own = {i}
    BY <2>3
  <2>5. Cardinality(own) <= 1
    <3>1. CASE own = {}
      <4>1. Cardinality(own) = 0
        BY <3>1, FS_EmptySet
      <4>2. QED
        BY <4>1
    <3>2. CASE \E i \in own : own = {i}
      <4>1. PICK i \in own : own = {i}
        BY <3>2
      <4>2. Cardinality({i}) = 1
        BY FS_Singleton
      <4>3. QED
        BY <4>1, <4>2
    <3>3. QED
      BY <2>4, <3>1, <3>2
  <2>6. \A i \in own : status[f] \in {"none", rows[f[1]][i].status}
    BY <2>1, <2>2 DEF IInv, Recorded
  <2>7. lifecycle = "up" /\ status[f] \in Final /\ own = {} =>
          \/ f \in unrecorded
          \/ Has(queue, f)
          \/ \E w \in Workers : at[w] \in {"lock", "writing"} /\ job[w] = f
    BY <2>1 DEF IInv, Recorded
  <2>8. QED
    BY <2>5, <2>6, <2>7 DEF own
<1>2. QED
  BY <1>1, IInvAlways, PTL

\* A poll that says "finished" lists no file as waiting or under way.
THEOREM FinishedPollComplete == Spec => []FinishedPollIsComplete
<1>1. IInv => FinishedPollIsComplete
  <2> SUFFICES ASSUME IInv, Len(poll.counted) = BatchSize, \A i \in Positions : poll.counted[i] \in Final,
                      NEW i \in 1..Len(poll.listed)
               PROVE  poll.listed[i] \in Final
    BY DEF FinishedPollIsComplete
  <2>1. Len(poll.listed) \in Nat /\ Len(poll.listed) <= BatchSize
    BY DEF IInv, TypeOK, PollHonest
  <2>2. i \in Positions
    BY <2>1 DEF Positions
  <2>3. QED
    BY <2>2 DEF IInv, PollHonest
<1>2. QED
  BY <1>1, IInvAlways, PTL
=============================================================================
