------------------------ MODULE AccountAnalysisProofs ------------------------
(***************************************************************************)
(* Theorems about the analysis of one account, for every account and every *)
(* outcome of every LLM call.                                              *)
(***************************************************************************)
EXTENDS AccountAnalysis, SequenceTheorems, TLAPS

USE AccountsAssumption

-----------------------------------------------------------------------------
(* The inductive invariant *)

AskOutcomes == {"refused", "error", "truncated"} \cup Unfit \cup {"used"}

\* The measure, the history and the answer of one call, by where the call is.
CallAgrees(c) ==
  /\ failed[c] <=> stage[c] = "failed"
  /\ stage[c] = "used" => attempts[c] # 0 /\ kept[c] \in Answers(c) /\ CameTo(c, "used")
  /\ attempts[c] = 0 <=> \A i \in 1..Len(asks[c]) : asks[c][i] = "refused"
  /\ stage[c] \in {"idle", "skipped"} => asks[c] = <<>>

\* Which calls can still be out, by how far the analysis is.
InPhase ==
  /\ phase = "new" => \A c \in Calls : stage[c] = "idle"
  /\ phase = "calls" => stage["summary"] = "idle"
  /\ phase \in {"summary", "done"} => \A c \in Parallel : stage[c] \in Over
  /\ phase = "done" => stage["summary"] \in Over \cup {"idle"}

\* Nothing the assessment was made from changes after it.
AssessmentStands == Done => assessment = Assessed

IInv ==
  /\ TypeOK
  /\ \A c \in Calls : CallAgrees(c)
  /\ InPhase
  /\ AssessmentStands

\* The invariant holds of an account that has not been started.
LEMMA IInvInit == Init => IInv
<1> SUFFICES ASSUME Init PROVE IInv
  OBVIOUS
<1>1. TypeOK
  <2>1. asks \in [Calls -> Seq(AskOutcomes)]
    BY EmptySeq DEF Init
  <2>2. DOMAIN kept = Calls /\ \A c \in Calls : kept[c] = NoAnswer(c)
    BY DEF Init
  <2>3. QED
    BY <2>1, <2>2 DEF Init, TypeOK, Done, AskOutcomes
<1>2. \A c \in Calls : CallAgrees(c)
  BY EmptySeq DEF Init, CallAgrees, CameTo
<1>3. InPhase /\ AssessmentStands
  BY DEF Init, InPhase, AssessmentStands, Done
<1>4. QED
  BY <1>1, <1>2, <1>3 DEF IInv

-----------------------------------------------------------------------------
(* One call *)

\* What noting the outcome of an ask does to the history of the call.
LEMMA NoteFacts ==
  ASSUME TypeOK, NEW c \in Calls, NEW how \in AskOutcomes, Note(c, how)
  PROVE  /\ asks' \in [Calls -> Seq(AskOutcomes)]
         /\ \A d \in Calls \ {c} : asks'[d] = asks[d]
         /\ CameTo(c, how)'
         /\ (\A i \in 1..Len(asks'[c]) : asks'[c][i] = "refused")
              <=> how = "refused" /\ \A i \in 1..Len(asks[c]) : asks[c][i] = "refused"
<1>1. asks[c] \in Seq(AskOutcomes) /\ asks'[c] = Append(asks[c], how)
  BY DEF TypeOK, Note, AskOutcomes
<1>2. /\ Append(asks[c], how) \in Seq(AskOutcomes)
      /\ Len(Append(asks[c], how)) = Len(asks[c]) + 1
      /\ Len(asks[c]) \in Nat
      /\ \A i \in 1..Len(asks[c]) : Append(asks[c], how)[i] = asks[c][i]
      /\ Append(asks[c], how)[Len(asks[c]) + 1] = how
  BY <1>1, AppendProperties
<1>3. asks' \in [Calls -> Seq(AskOutcomes)] /\ \A d \in Calls \ {c} : asks'[d] = asks[d]
  BY <1>1, <1>2 DEF TypeOK, Note, AskOutcomes
<1>4. CameTo(c, how)'
  BY <1>1, <1>2, EmptySeq DEF CameTo
<1>5. \A i \in 1..(Len(asks[c]) + 1) : i \in 1..Len(asks[c]) \/ i = Len(asks[c]) + 1
  BY <1>2
<1>6. \A i \in 1..Len(asks[c]) : i \in 1..(Len(asks[c]) + 1)
  BY <1>2
<1>7. Len(asks[c]) + 1 \in 1..(Len(asks[c]) + 1)
  BY <1>2
<1>8. QED
  BY <1>1, <1>2, <1>3, <1>4, <1>5, <1>6, <1>7

\* An ask that comes back with how: the call fails, is asked again, or its answer is used.
LEMMA CallStepKeeps ==
  ASSUME IInv, NEW c \in Calls, NEW how \in AskOutcomes, stage[c] = "asked", Note(c, how),
         UNCHANGED <<given, phase, assessment>>,
         \/ how = "refused" /\ UNCHANGED attempts
         \/ how # "refused" /\ attempts' = [attempts EXCEPT ![c] = @ + 1],
         \/ Fails(c)
         \/ AskedAgain(c)
         \/ how = "used" /\ \E a \in Answers(c) : Uses(c, a)
  PROVE  IInv'
<1>t. TypeOK
  BY DEF IInv
<1>1. PICK to \in {"failed", "asked", "used"} :
        /\ stage' = [stage EXCEPT ![c] = to]
        /\ to = "used" => how = "used"
        /\ failed' = [failed EXCEPT ![c] = (to = "failed")]
        /\ to # "used" => UNCHANGED kept
        /\ to = "used" => \E a \in Answers(c) : kept' = [kept EXCEPT ![c] = a]
  <2>1. failed[c] = FALSE /\ failed \in [Calls -> BOOLEAN]
    BY DEF IInv, CallAgrees, TypeOK
  <2>2. QED
    BY <2>1 DEF Fails, AskedAgain, Uses, Move
<1>2. /\ DOMAIN kept' = Calls /\ \A d \in Calls : kept'[d] \in Answers(d) \cup {NoAnswer(d)}
      /\ \A d \in Calls \ {c} : kept'[d] = kept[d]
      /\ to = "used" => kept'[c] \in Answers(c)
  BY <1>1, <1>t DEF TypeOK
<1>3. TypeOK'
  <2>1. asks' \in [Calls -> Seq(AskOutcomes)]
    BY <1>t, NoteFacts
  <2>2. stage' \in [Calls -> {"idle", "asked", "left"} \cup Over] /\ failed' \in [Calls -> BOOLEAN]
    BY <1>1, <1>t DEF TypeOK, Over
  <2>3. attempts' \in [Calls -> Nat]
    BY <1>t DEF TypeOK
  <2>4. QED
    BY <1>2, <1>t, <2>1, <2>2, <2>3 DEF TypeOK, AskOutcomes, Done
<1>4. ASSUME NEW d \in Calls PROVE CallAgrees(d)'
  <2>1. CASE d # c
    <3>1. /\ stage'[d] = stage[d] /\ failed'[d] = failed[d] /\ attempts'[d] = attempts[d]
          /\ kept'[d] = kept[d] /\ asks'[d] = asks[d]
      BY <1>1, <1>2, <1>t, <2>1, NoteFacts DEF TypeOK
    <3>2. QED
      BY <3>1 DEF IInv, CallAgrees, CameTo
  <2>2. CASE d = c
    <3>1. stage'[c] = to /\ failed'[c] = (to = "failed")
      BY <1>1, <1>t DEF TypeOK
    <3>2. attempts'[c] = 0 <=> how = "refused" /\ attempts[c] = 0
      BY <1>t DEF TypeOK
    <3>3. attempts[c] = 0 <=> \A i \in 1..Len(asks[c]) : asks[c][i] = "refused"
      BY DEF IInv, CallAgrees
    <3>4. attempts'[c] = 0 <=> \A i \in 1..Len(asks'[c]) : asks'[c][i] = "refused"
      BY <3>2, <3>3, <1>t, NoteFacts
    <3>5. CameTo(c, how)'
      BY <1>t, NoteFacts
    <3>6. QED
      BY <1>1, <1>2, <2>2, <3>1, <3>2, <3>4, <3>5 DEF CallAgrees
  <2>3. QED
    BY <2>1, <2>2
<1>5. InPhase'
  BY <1>1, <1>t DEF IInv, InPhase, TypeOK, Parallel, Calls, Over
<1>6. ~Done
  BY DEF IInv, InPhase, Over, Calls, Done
<1>7. QED
  BY <1>3, <1>4, <1>5, <1>6 DEF IInv, AssessmentStands, Done

-----------------------------------------------------------------------------
(* The assessment *)

\* What is assembled from the answers is an assessment.
LEMMA AssessedType == Assessed \in Assessments
<1>1. Risk \in {"low", "medium", "high"}
  BY DEF Risk
<1>2. \A k \in Screened : ScreenedCheck(k) \in [outcome : Outcomes, insight : BOOLEAN]
  BY DEF ScreenedCheck, Outcomes, Some, Usable
<1>3. \A k \in Checks : AnsweredCheck(k) \in [outcome : Outcomes, insight : BOOLEAN]
  BY DEF AnsweredCheck, Outcomes, Some, Usable, Unverified
<1>4. ReviewChecks \in [Checks -> [outcome : Outcomes, insight : BOOLEAN]]
  BY <1>2, <1>3 DEF ReviewChecks
<1>5. [c \in Calls |-> Timing(c)] \in [Calls -> {"not_run", "failed", "answered"}]
  BY DEF Timing
<1>6. Usable("summary") \in BOOLEAN
  BY DEF Usable
<1>7. QED
  BY <1>1, <1>4, <1>5, <1>6 DEF Assessed, Assessments

\* The assessment is made from calls that are over and stay as they are.
LEMMA AssessKeeps ==
  ASSUME IInv, Assess, UNCHANGED <<given, callVars>>,
         \A c \in Parallel : stage[c] \in Over, stage["summary"] \in Over \cup {"idle"}
  PROVE  IInv'
<1>1. UNCHANGED <<given, stage, attempts, failed, kept, asks>> /\ phase' = "done" /\ assessment' = Assessed
  BY DEF callVars, Assess
<1>2. TypeOK'
  BY <1>1, AssessedType DEF IInv, TypeOK, Done
<1>3. \A c \in Calls : CallAgrees(c)'
  BY <1>1 DEF IInv, CallAgrees, CameTo
<1>4. InPhase'
  BY <1>1 DEF InPhase
<1>5. AssessmentStands'
  BY <1>1 DEF AssessmentStands, Assessed, Risk, ReviewChecks, ScreenedCheck, AnsweredCheck, Unverified,
    Some, Usable, Timing, Found, AllVerified
<1>6. QED
  BY <1>2, <1>3, <1>4, <1>5 DEF IInv

\* Every step of the analysis keeps the invariant.
LEMMA IInvStep == IInv /\ [Next]_vars => IInv'
<1> SUFFICES ASSUME IInv, [Next]_vars PROVE IInv'
  OBVIOUS
<1>t. TypeOK
  BY DEF IInv
<1>1. CASE Begin
  <2>1. stage' \in [Calls -> {"idle", "asked", "left"} \cup Over]
    BY <1>1 DEF Begin, Over
  <2>2. /\ phase = "new" /\ phase' = "calls"
        /\ UNCHANGED <<given, attempts, failed, kept, asks, assessment>>
    BY <1>1 DEF Begin
  <2>3. TypeOK'
    BY <1>t, <2>1, <2>2 DEF TypeOK, Done
  <2>4. \A c \in Calls : stage'[c] \in {"idle", "asked", "skipped"} /\ stage[c] = "idle"
    BY <1>1, <2>2 DEF Begin, IInv, InPhase
  <2>5. \A c \in Calls : CallAgrees(c)'
    BY <2>2, <2>4 DEF IInv, CallAgrees, CameTo
  <2>6. InPhase' /\ AssessmentStands'
    BY <1>1 DEF Begin, InPhase, AssessmentStands, Done, Calls
  <2>7. QED
    BY <2>3, <2>5, <2>6 DEF IInv
<1>2. ASSUME NEW c \in Calls, CallStep(c) PROVE IInv'
  <2>1. CASE Refused(c)
    BY <2>1, CallStepKeeps DEF Refused, AskOutcomes
  <2>2. CASE Errs(c) \/ Truncated(c)
    BY <2>2, CallStepKeeps DEF Errs, Truncated, Executed, AskOutcomes
  <2>3. ASSUME NEW why \in Unfit, Executed(c), Again(c, why) PROVE IInv'
    <3>1. why \in AskOutcomes /\ why # "refused" /\ (Fails(c) \/ AskedAgain(c)) /\ Note(c, why)
      BY <2>3 DEF Again, AskOutcomes, Unfit
    <3>2. QED
      BY <2>3, <3>1, CallStepKeeps DEF Executed
  <2>4. ASSUME NEW a \in Answers(c), Executed(c), Uses(c, a) PROVE IInv'
    BY <2>4, CallStepKeeps DEF Executed, Uses, AskOutcomes
  <2>5. CASE Malformed(c)
    BY <2>3, <2>5 DEF Malformed, Unfit
  <2>6. ASSUME NEW a \in Answers(c), Answered(c, a) PROVE IInv'
    BY <2>3, <2>4, <2>6 DEF Answered, Unfit
  <2>7. QED
    BY <1>2, <2>1, <2>2, <2>5, <2>6 DEF CallStep, CallEnds
<1>3. CASE Gather /\ \E c \in Pattern : Usable(c)
  <2>1. /\ phase = "calls" /\ phase' = "summary" /\ stage' = [stage EXCEPT !["summary"] = "asked"]
        /\ \A c \in Parallel : stage[c] \in Over
        /\ UNCHANGED <<given, attempts, failed, kept, asks, assessment>>
    BY <1>3 DEF Gather, Gathered, AskSummary, Move
  <2>2. stage["summary"] = "idle"
    BY <2>1 DEF IInv, InPhase
  <2>3. TypeOK'
    BY <1>t, <2>1 DEF TypeOK, Done
  <2>4. \A c \in Calls : stage'[c] = stage[c] \/ (stage[c] = "idle" /\ stage'[c] = "asked")
    BY <1>t, <2>1, <2>2 DEF TypeOK
  <2>5. \A c \in Calls : CallAgrees(c)'
    BY <2>1, <2>4 DEF IInv, CallAgrees, CameTo
  <2>6. InPhase'
    BY <2>1, <1>t DEF InPhase, TypeOK, Parallel, Pattern, Calls
  <2>7. QED
    BY <2>1, <2>3, <2>5, <2>6 DEF IInv, AssessmentStands, Done
<1>4. CASE Gather /\ ~ \E c \in Pattern : Usable(c)
  <2>1. stage["summary"] = "idle"
    BY <1>4 DEF IInv, InPhase, Gather, Gathered
  <2>2. QED
    BY <1>4, <2>1, AssessKeeps DEF Gather, Gathered, callVars
<1>5. CASE SummaryOver
  BY <1>5, AssessKeeps DEF SummaryOver, IInv, InPhase
<1>6. CASE Cancel
  <2>1. /\ phase' = "cancelled" /\ ~Done /\ ~Done'
        /\ stage' = [c \in Calls |-> IF stage[c] = "asked" THEN "left" ELSE stage[c]]
        /\ UNCHANGED <<given, attempts, failed, kept, asks, assessment>>
    BY <1>6 DEF Cancel, Done
  <2>2. TypeOK'
    BY <1>t, <2>1 DEF TypeOK
  <2>3. \A c \in Calls : CallAgrees(c)'
    BY <1>t, <2>1 DEF IInv, CallAgrees, CameTo, TypeOK
  <2>4. QED
    BY <2>1, <2>2, <2>3 DEF IInv, InPhase, AssessmentStands
<1>7. CASE UNCHANGED vars
  <2>1. UNCHANGED <<given, phase, stage, attempts, failed, kept, asks, assessment>>
    BY <1>7 DEF vars, callVars
  <2>2. TypeOK' /\ InPhase' /\ \A c \in Calls : CallAgrees(c)'
    BY <2>1 DEF IInv, TypeOK, InPhase, CallAgrees, CameTo, Done
  <2>3. AssessmentStands'
    BY <2>1 DEF IInv, AssessmentStands, Done, Assessed, Risk, ReviewChecks, ScreenedCheck, AnsweredCheck,
      Unverified, Some, Usable, Timing, Found, AllVerified
  <2>4. QED
    BY <2>2, <2>3 DEF IInv
<1>8. QED
  BY <1>1, <1>2, <1>3, <1>4, <1>5, <1>6, <1>7 DEF Next, Terminated

\* So it holds for good.
LEMMA IInvAlways == Spec => []IInv
  BY IInvInit, IInvStep, PTL DEF Spec

-----------------------------------------------------------------------------
(* The retry *)

\* The history of a call, by where the call is.
RetriedWell(c) ==
  /\ Len(asks[c]) <= IF given.retry THEN 2 ELSE 1
  /\ \A i \in 1..(Len(asks[c]) - 1) : asks[c][i] \in Unfit
  /\ stage[c] = "asked" => \/ asks[c] = <<>>
                           \/ given.retry /\ Len(asks[c]) = 1 /\ asks[c][1] \in Unfit
  /\ stage[c] = "used" /\ given.retry /\ Len(asks[c]) = 1 => \A p \in Judged(c) : kept[c][p] = "full"

RInv == IInv /\ \A c \in Calls : RetriedWell(c)

\* A step in which no ask of the call comes back.
NoAskBack(c) == stage'[c] = stage[c] \/ stage'[c] = "left" \/ (asks[c] = <<>> /\ stage'[c] # "used")

\* Where no ask comes back the histories stay, and only a call without one is asked.
LEMMA RetriedStays ==
  ASSUME RInv, UNCHANGED given, UNCHANGED kept, UNCHANGED asks,
         \A c \in Calls : NoAskBack(c)
  PROVE  \A c \in Calls : RetriedWell(c)'
<1>1. \A c \in Calls : RetriedWell(c)
  BY DEF RInv
<1>2. \A c \in Calls : Judged(c)' = Judged(c)
  BY DEF Judged
<1> SUFFICES ASSUME NEW c \in Calls PROVE RetriedWell(c)'
  OBVIOUS
<1>3. stage'[c] = "asked" => stage[c] = "asked" \/ asks[c] = <<>>
  BY DEF NoAskBack
<1>4. stage'[c] = "used" => stage[c] = "used"
  BY DEF NoAskBack
<1>5. QED
  BY <1>1, <1>2, <1>3, <1>4 DEF RetriedWell

\* An answer that is not rejected before the final attempt has nothing to object to.
LEMMA UsedEarlyIsFull ==
  ASSUME NEW c \in Calls, NEW a \in Answers(c), ~Rejected(c, a), ~FinalAttempt(c)
  PROVE  \A p \in Judged(c) : a[p] = "full"
<1>1. Problems(c, a) = {}
  BY DEF Rejected
<1>2. QED
  BY <1>1 DEF Problems

\* An ask that comes back leads to another one only from a first, unusable answer.
LEMMA RetriedStep ==
  ASSUME RInv, NEW c \in Calls, NEW how \in AskOutcomes, stage[c] = "asked", Note(c, how), UNCHANGED given,
         \/ Fails(c)
         \/ AskedAgain(c) /\ ~FinalAttempt(c) /\ how \in Unfit
         \/ \E a \in Answers(c) : Uses(c, a) /\ ~Rejected(c, a)
  PROVE  \A d \in Calls : RetriedWell(d)'
<1>t. TypeOK /\ RetriedWell(c)
  BY DEF RInv, IInv
<1>1. /\ asks[c] \in Seq(AskOutcomes) /\ asks' = [asks EXCEPT ![c] = Append(@, how)]
      /\ asks \in [Calls -> Seq(AskOutcomes)]
  BY <1>t DEF TypeOK, Note, AskOutcomes
<1>2. /\ asks'[c] = Append(asks[c], how) /\ \A d \in Calls \ {c} : asks'[d] = asks[d]
      /\ Len(asks[c]) \in Nat /\ Len(asks'[c]) = Len(asks[c]) + 1
      /\ asks'[c][Len(asks[c]) + 1] = how
      /\ \A i \in 1..Len(asks[c]) : asks'[c][i] = asks[c][i]
  BY <1>1, AppendProperties
<1>3. \/ asks[c] = <<>> /\ Len(asks[c]) = 0
      \/ given.retry /\ Len(asks[c]) = 1 /\ asks[c][1] \in Unfit /\ asks[c] # <<>>
  BY <1>t, EmptySeq DEF RetriedWell
<1>4. PICK to \in {"failed", "asked", "used"} :
        /\ stage' = [stage EXCEPT ![c] = to]
        /\ \A d \in Calls \ {c} : kept'[d] = kept[d]
        /\ to = "asked" => ~FinalAttempt(c) /\ how \in Unfit
        /\ to = "used" => \E a \in Answers(c) : kept'[c] = a /\ ~Rejected(c, a)
  <2>1. DOMAIN kept = Calls
    BY <1>t DEF TypeOK
  <2>2. QED
    BY <2>1 DEF Fails, AskedAgain, Uses, Move
<1>5. \A d \in Calls : Judged(d)' = Judged(d)
  BY DEF Judged
<1>6. ASSUME NEW d \in Calls, d # c PROVE RetriedWell(d)'
  <2>1. asks'[d] = asks[d] /\ kept'[d] = kept[d] /\ stage'[d] = stage[d] /\ RetriedWell(d)
    BY <1>2, <1>4, <1>6, <1>t DEF RInv, TypeOK
  <2>2. QED
    BY <1>5, <2>1 DEF RetriedWell
<1>7. RetriedWell(c)'
  <2>1. Len(asks'[c]) <= IF given.retry THEN 2 ELSE 1
    BY <1>2, <1>3
  <2>2. \A i \in 1..(Len(asks'[c]) - 1) : asks'[c][i] \in Unfit
    BY <1>2, <1>3
  <2>3. stage'[c] = to
    BY <1>4, <1>t DEF TypeOK
  <2>4. to = "asked" => given.retry /\ Len(asks'[c]) = 1 /\ asks'[c][1] \in Unfit
    BY <1>2, <1>3, <1>4 DEF FinalAttempt
  <2>5. to = "used" /\ given.retry /\ Len(asks'[c]) = 1 => \A p \in Judged(c) : kept'[c][p] = "full"
    <3>1. given.retry /\ Len(asks'[c]) = 1 => ~FinalAttempt(c)
      BY <1>2, <1>3 DEF FinalAttempt
    <3>2. QED
      BY <1>4, <3>1, UsedEarlyIsFull
  <2>6. QED
    BY <1>5, <2>1, <2>2, <2>3, <2>4, <2>5 DEF RetriedWell
<1>8. QED
  BY <1>6, <1>7

\* Every step keeps the histories so.
LEMMA RInvStep == RInv /\ [Next]_vars => RInv'
<1> SUFFICES ASSUME RInv, [Next]_vars PROVE RInv'
  OBVIOUS
<1>t. IInv /\ TypeOK
  BY DEF RInv, IInv
<1>i. IInv'
  BY <1>t, IInvStep
<1>1. CASE Begin
  <2>1. \A c \in Calls : NoAskBack(c)
    BY <1>1, <1>t DEF Begin, IInv, InPhase, CallAgrees, NoAskBack
  <2>2. UNCHANGED given /\ UNCHANGED kept /\ UNCHANGED asks
    BY <1>1 DEF Begin
  <2>3. \A c \in Calls : RetriedWell(c)'
    BY <2>1, <2>2, RetriedStays
  <2>4. QED
    BY <1>i, <2>3 DEF RInv
<1>2. ASSUME NEW c \in Calls, CallStep(c) PROVE RInv'
  <2>1. CASE Refused(c)
    BY <1>i, <2>1, RetriedStep DEF Refused, AskOutcomes, RInv
  <2>2. CASE Errs(c) \/ Truncated(c)
    BY <1>i, <2>2, RetriedStep DEF Errs, Truncated, Executed, AskOutcomes, RInv
  <2>3. ASSUME NEW why \in Unfit, Executed(c), Again(c, why) PROVE RInv'
    <3>1. why \in AskOutcomes /\ Note(c, why) /\ (Fails(c) \/ (AskedAgain(c) /\ ~FinalAttempt(c)))
      BY <2>3 DEF Again, AskOutcomes
    <3>2. QED
      BY <1>i, <2>3, <3>1, RetriedStep DEF Executed, RInv
  <2>4. ASSUME NEW a \in Answers(c), Executed(c), Uses(c, a), ~Rejected(c, a) PROVE RInv'
    BY <1>i, <2>4, RetriedStep DEF Executed, Uses, AskOutcomes, RInv
  <2>5. CASE Malformed(c)
    BY <2>3, <2>5 DEF Malformed, Unfit
  <2>6. ASSUME NEW a \in Answers(c), Answered(c, a) PROVE RInv'
    BY <2>3, <2>4, <2>6 DEF Answered, Unfit
  <2>7. QED
    BY <1>2, <2>1, <2>2, <2>5, <2>6 DEF CallStep, CallEnds
<1>3. CASE Gather
  <2>1. /\ UNCHANGED <<given, kept, asks>> /\ phase = "calls"
        /\ UNCHANGED stage \/ stage' = [stage EXCEPT !["summary"] = "asked"]
    BY <1>3 DEF Gather, Gathered, AskSummary, Move
  <2>2. asks["summary"] = <<>>
    BY <1>t, <2>1 DEF IInv, InPhase, CallAgrees, Calls
  <2>3. \A c \in Calls : NoAskBack(c)
    BY <1>t, <2>1, <2>2 DEF TypeOK, NoAskBack
  <2>4. UNCHANGED given /\ UNCHANGED kept /\ UNCHANGED asks
    BY <2>1
  <2>5. \A c \in Calls : RetriedWell(c)'
    BY <2>3, <2>4, RetriedStays
  <2>6. QED
    BY <1>i, <2>5 DEF RInv
<1>4. CASE SummaryOver \/ UNCHANGED vars
  <2>1. UNCHANGED given /\ UNCHANGED kept /\ UNCHANGED asks /\ UNCHANGED stage
    BY <1>4 DEF SummaryOver, vars, callVars
  <2>2. \A c \in Calls : NoAskBack(c)
    BY <2>1 DEF NoAskBack
  <2>3. \A c \in Calls : RetriedWell(c)'
    BY <2>1, <2>2, RetriedStays
  <2>4. QED
    BY <1>i, <2>3 DEF RInv
<1>5. CASE Cancel
  <2>1. \A c \in Calls : NoAskBack(c)
    BY <1>5 DEF Cancel, NoAskBack
  <2>2. UNCHANGED given /\ UNCHANGED kept /\ UNCHANGED asks
    BY <1>5 DEF Cancel
  <2>3. \A c \in Calls : RetriedWell(c)'
    BY <2>1, <2>2, RetriedStays
  <2>4. QED
    BY <1>i, <2>3 DEF RInv
<1>6. QED
  BY <1>1, <1>2, <1>3, <1>4, <1>5 DEF Next, Terminated

\* So it holds for good.
LEMMA RInvAlways == Spec => []RInv
<1>1. Init => RInv
  <2> SUFFICES ASSUME Init PROVE RInv
    OBVIOUS
  <2>1. \A c \in Calls : asks[c] = <<>> /\ Len(asks[c]) = 0 /\ stage[c] = "idle"
    BY EmptySeq DEF Init
  <2>2. QED
    BY <2>1, IInvInit DEF RInv, RetriedWell
<1>2. QED
  BY <1>1, RInvStep, PTL DEF Spec

-----------------------------------------------------------------------------
(* The theorems *)

\* Every variable keeps its type: every analysis that ends has a whole assessment.
THEOREM TypeCorrect == Spec => []TypeOK
<1>1. IInv => TypeOK
  BY DEF IInv
<1>2. QED
  BY <1>1, IInvAlways, PTL

\* A case is only closed from a whole review: every call the review rests on was
\* answered, both screened checks are described, and nothing unusual was found.
THEOREM ClosedFromWholeReview == Spec => []ClosedOnlyWhenWhole
<1>1. IInv => ClosedOnlyWhenWhole
  <2> SUFFICES ASSUME IInv, Done, assessment.decision = "no_further_review_suggested"
               PROVE  /\ ~given.unusual
                      /\ \A c \in {"activity_money", "inactivity_burst_gaps", "summary"} : CameTo(c, "used")
                      /\ \A k \in Screened : kept["activity_money"][k] \in {"full", "label"}
    BY DEF ClosedOnlyWhenWhole
  <2>1. assessment = Assessed
    BY DEF IInv, AssessmentStands
  <2>2. Usable("summary") /\ AllVerified(ReviewChecks) /\ Risk = "low"
    BY <2>1 DEF Assessed
  <2>3. ~given.unusual
    BY <2>2 DEF Risk
  <2>4. \A k \in Screened : Some("activity_money", k)
    BY <2>2 DEF AllVerified, ReviewChecks, ScreenedCheck, Checks
  <2>5. Usable("inactivity_burst_gaps")
    <3>1. ReviewChecks["burst_and_gaps"].outcome # "not_verified"
      BY <2>2 DEF AllVerified, Checks
    <3>2. QED
      BY <3>1 DEF ReviewChecks, Checks, AnsweredCheck, Unverified, StageOf, Screened
  <2>6. Usable("activity_money")
    BY <2>4 DEF Some, Screened
  <2>7. ASSUME NEW k \in Screened PROVE kept["activity_money"][k] \in {"full", "label"}
    <3>1. kept["activity_money"] \in Answers("activity_money")
      BY <2>6 DEF IInv, CallAgrees, Usable, Calls, Parallel, Pattern
    <3>2. Parts("activity_money") = Screened /\ PartsOf["activity_money"][k] = Texts
      BY DEF Parts, PartsOf, ActivityParts
    <3>3. kept["activity_money"][k] \in Texts
      BY <3>1, <3>2 DEF Answers
    <3>4. QED
      BY <3>3, <2>4 DEF Some, Texts
  <2>8. QED
    BY <2>2, <2>3, <2>5, <2>6, <2>7 DEF IInv, CallAgrees, Usable, Calls, Parallel, Pattern
<1>2. QED
  BY <1>1, IInvAlways, PTL

\* A call is asked again only once, with the retry on and after an answer that could not
\* be used; and the allowances of the final attempt are not made before it.
THEOREM RetriesAreBounded == Spec => []RetriedOnlyWhenUnfit
<1>1. RInv => RetriedOnlyWhenUnfit
  BY DEF RInv, RetriedWell, RetriedOnlyWhenUnfit, Usable
<1>2. QED
  BY <1>1, RInvAlways, PTL

\* The timing table says "answered" of the calls whose answer was used, and "not run" of
\* those that no worker executed.
THEOREM TimingTrue == Spec => []TimingHonest
<1>1. IInv => TimingHonest
  <2> SUFFICES ASSUME IInv, Done, NEW c \in Calls
               PROVE  /\ (assessment.timing[c] = "answered") = Usable(c)
                      /\ (assessment.timing[c] = "not_run") =
                           \A i \in 1..Len(asks[c]) : asks[c][i] = "refused"
    BY DEF TimingHonest
  <2>1. assessment.timing[c] = Timing(c)
    BY DEF IInv, AssessmentStands, Assessed
  <2>2. CallAgrees(c) /\ failed[c] \in BOOLEAN
    BY DEF IInv, TypeOK
  <2>3. stage[c] \in Over \cup {"idle"}
    BY DEF IInv, InPhase, Done, Calls
  <2>4. stage[c] \in {"idle", "skipped"} => attempts[c] = 0
    BY <2>2, EmptySeq DEF CallAgrees
  <2>5. QED
    BY <2>1, <2>2, <2>3, <2>4 DEF CallAgrees, Timing, Usable, Over
<1>2. QED
  BY <1>1, IInvAlways, PTL

=============================================================================
