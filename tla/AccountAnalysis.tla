--------------------------- MODULE AccountAnalysis ---------------------------
(***************************************************************************)
(* The analysis of one account (app/core/analysis_service.py): three LLM   *)
(* calls at the same time, the four review checks built from what they     *)
(* gave, a fourth call for the overall summary, and the assessment.        *)
(*                                                                         *)
(* The LLM work queue appears as what submit() can do to a caller: refuse  *)
(* the ask, or let a worker execute it and come back with an error or an   *)
(* answer.  An answer is, for each part the validator of the call judges,  *)
(* how good that part is:                                                  *)
(*   full      a sentence, or a value the validator accepts;               *)
(*   label     one or two words instead of a sentence;                     *)
(*   blank     nothing;                                                    *)
(*   unusable  missing or not in the data, so that the part is rejected on *)
(*             every attempt.                                              *)
(***************************************************************************)
EXTENDS Naturals, Sequences

\* profile: a customer profile was found; run: the account has an inactive run;
\* unusual, layering: what the screening found; retry: llm_format_retry_enabled.
Given == [profile : BOOLEAN, run : BOOLEAN, unusual : BOOLEAN, layering : BOOLEAN, retry : BOOLEAN]

CONSTANT Accounts   \* The accounts, with the settings, that are analysed.

ASSUME AccountsAssumption == Accounts \subseteq Given

Pattern == {"activity_money", "inactivity_burst_gaps"}
Parallel == Pattern \cup {"profile"}
Calls == Parallel \cup {"summary"}

\* The four review checks: two are decided by the screening and only described
\* by call 1, two are answered by call 2.
Screened == {"activity_and_amount_change", "money_in_and_out"}
Checks == Screened \cup {"activity_after_inactivity", "burst_and_gaps"}
StageOf(k) == IF k \in Screened THEN "activity_money" ELSE "inactivity_burst_gaps"

VARIABLES
  given,       \* What the account and the settings are.
  phase,       \* How far analyze_account() is.
  stage,       \* Where each call is.
  attempts,    \* measure.attempts of each call.
  failed,      \* measure.failed of each call.
  kept,        \* The accepted answer of each call.
  asks,        \* History: how each ask of each call came out.
  assessment   \* What analyze_account() returned.

callVars == <<stage, attempts, failed, kept, asks>>
vars == <<given, phase, callVars, assessment>>

Texts == {"full", "label", "blank"}

\* The parts the validator of each call judges, with the qualities they can have.
\* A description of call 1 is any text, or none.
ActivityParts == [k \in Screened |-> Texts]

\* The outcome of burst and gaps and its months can be missing or not in the data.
InactivityParts ==
  [activity_after_inactivity |-> Texts, burst_and_gaps |-> Texts \cup {"unusable"}]

\* A profile summary is rejected for a phrase that stands for missing data.
ProfileParts == [profile_summary |-> {"full", "unusable"}]

\* "headline" stands for the headline and the risk reason: a label is kept there.
\* Every other line that is not a sentence is left out, and so is blank.
SummaryParts == [headline |-> {"full", "unusable"}, verify_1 |-> {"full", "blank"}]

PartsOf == [activity_money |-> ActivityParts, inactivity_burst_gaps |-> InactivityParts,
            profile |-> ProfileParts, summary |-> SummaryParts]

Parts(c) == DOMAIN PartsOf[c]
Answers(c) == {a \in [Parts(c) -> Texts \cup {"unusable"}] : \A p \in Parts(c) : a[p] \in PartsOf[c][p]}
NoAnswer(c) == [p \in Parts(c) |-> "none"]

Over == {"used", "failed", "skipped"}
Unfit == {"malformed", "rejected"}
Undecided == [phase |-> "none"]

Init ==
  /\ given \in Accounts
  /\ phase = "new"
  /\ stage = [c \in Calls |-> "idle"]
  /\ attempts = [c \in Calls |-> 0]
  /\ failed = [c \in Calls |-> FALSE]
  /\ kept = [c \in Calls |-> NoAnswer(c)]
  /\ asks = [c \in Calls |-> <<>>]
  /\ assessment = Undecided

-----------------------------------------------------------------------------
(* One call: ask, validate, retry once on a format problem *)

Move(c, to) == stage' = [stage EXCEPT ![c] = to]
Note(c, how) == asks' = [asks EXCEPT ![c] = Append(@, how)]

\* The format retry is turned off, or this is the retry.
FinalAttempt(c) == ~given.retry \/ asks[c] # <<>>

\* The parts the validator of the call objects to.  Without an inactive run
\* the explanation of it is not looked at.
Judged(c) == IF given.run THEN Parts(c) ELSE Parts(c) \ {"activity_after_inactivity"}
Problems(c, a) ==
  {p \in Judged(c) : a[p] = "unusable" \/ (a[p] # "full" /\ ~FinalAttempt(c))}

\* An answer of call 2 is rejected on the final attempt only if the check it
\* decides is among the problems; any other call on any problem.
Rejected(c, a) ==
  /\ Problems(c, a) # {}
  /\ \/ c # "inactivity_burst_gaps" \/ ~FinalAttempt(c)
     \/ "burst_and_gaps" \in Problems(c, a)

\* Plausible slip: only the first ask is inside the try that marks the measure.
FailsUnmarked(c) ==
  /\ Move(c, "failed")
  /\ failed' = [failed EXCEPT ![c] = (asks[c] = <<>>)]
  /\ UNCHANGED kept

\* The call gives no result: _complete_with_retry() marks its measure.
Fails(c) == Move(c, "failed") /\ failed' = [failed EXCEPT ![c] = TRUE] /\ UNCHANGED kept

\* submit() raises: the queue stayed full, or is closed.
Refused(c) ==
  /\ stage[c] = "asked"
  /\ Fails(c)
  /\ Note(c, "refused")
  /\ UNCHANGED <<given, phase, attempts, assessment>>

\* A worker took the ask and its request is over; the worker counts the attempt
\* before the caller goes on.
Executed(c) ==
  /\ stage[c] = "asked"
  /\ attempts' = [attempts EXCEPT ![c] = @ + 1]
  /\ UNCHANGED <<given, phase, assessment>>

\* The LLM service fails, or the prompt does not fit: no retry.
Errs(c) == Executed(c) /\ Fails(c) /\ Note(c, "error")

AskedAgain(c) == Move(c, "asked") /\ UNCHANGED <<failed, kept>>

\* The answer could not be used: asked once more, or given up.
Again(c, why) ==
  /\ Note(c, why)
  /\ IF FinalAttempt(c) THEN Fails(c) ELSE AskedAgain(c)

\* Plausible slip: a truncated answer, which is a format error too, is caught as one.
TruncatedAgain(c) == Executed(c) /\ Again(c, "truncated")

\* The answer reached its output limit: no retry either.
Truncated(c) == Executed(c) /\ Fails(c) /\ Note(c, "truncated")

\* Not JSON, or not of the schema.
Malformed(c) == Executed(c) /\ Again(c, "malformed")

Uses(c, a) ==
  /\ Move(c, "used")
  /\ kept' = [kept EXCEPT ![c] = a]
  /\ Note(c, "used")
  /\ UNCHANGED failed

Answered(c, a) ==
  /\ Executed(c)
  /\ IF Rejected(c, a) THEN Again(c, "rejected") ELSE Uses(c, a)

-----------------------------------------------------------------------------
(* The review checks and the assessment *)

Usable(c) == stage[c] = "used"
Some(c, p) == Usable(c) /\ kept[c][p] # "blank"

Found(k) == IF k = "money_in_and_out" THEN given.layering ELSE given.unusual

\* Call 1 only describes a screened check; it cannot take its finding away.
ScreenedCheck(k) ==
  [outcome |-> IF Found(k) THEN "pattern_found" ELSE "no_pattern_found",
   insight |-> Some("activity_money", k)]

Unverified(k) == ~Usable(StageOf(k)) \/ kept[StageOf(k)][k] = "unusable"

\* The inactive run is computed by the code; the outcome of burst and gaps is
\* the model's.
AnsweredCheck(k) ==
  [outcome |->
     IF Unverified(k) THEN "not_verified"
     ELSE IF k = "burst_and_gaps" THEN "as_answered"
     ELSE IF given.run THEN "pattern_found" ELSE "no_pattern_found",
   insight |-> ~Unverified(k) /\ Some(StageOf(k), k) /\ (k = "burst_and_gaps" \/ given.run)]

ReviewChecks == [k \in Checks |-> IF k \in Screened THEN ScreenedCheck(k) ELSE AnsweredCheck(k)]

\* Plausible slip: a screened check counts as verified without a description.
OutcomesVerified(checks) == \A k \in Checks : checks[k].outcome # "not_verified"

AllVerified(checks) ==
  \A k \in Checks : checks[k].outcome # "not_verified" /\ (k \in Screened => checks[k].insight)

\* screening_risk()
Risk == IF ~given.unusual THEN "low" ELSE IF given.layering THEN "high" ELSE "medium"

Timing(c) ==
  IF attempts[c] = 0 THEN "not_run" ELSE IF failed[c] THEN "failed" ELSE "answered"

Assessed ==
  LET complete == Usable("summary") /\ AllVerified(ReviewChecks)
  IN [phase |-> "done", risk |-> Risk, checks |-> ReviewChecks, summary |-> Usable("summary"),
      status |-> IF complete THEN "completed" ELSE "needs_review",
      decision |-> IF complete /\ Risk = "low" THEN "no_further_review_suggested"
                   ELSE "further_review_suggested",
      timing |-> [c \in Calls |-> Timing(c)]]

Assess ==
  /\ phase' = "done"
  /\ assessment' = Assessed

-----------------------------------------------------------------------------
(* analyze_account() *)

\* Calls 1 to 3 become tasks; without a profile there is nothing to ask in call 3.
Begin ==
  /\ phase = "new"
  /\ phase' = "calls"
  /\ stage' = [c \in Calls |->
       IF c = "summary" THEN "idle" ELSE IF c = "profile" /\ ~given.profile THEN "skipped" ELSE "asked"]
  /\ UNCHANGED <<given, attempts, failed, kept, asks, assessment>>

Gathered == phase = "calls" /\ \A c \in Parallel : stage[c] \in Over

AskSummary == phase' = "summary" /\ Move("summary", "asked") /\ UNCHANGED assessment

\* The gather of the three calls is over: with both pattern calls failed there
\* is nothing to summarise.
Gather ==
  /\ Gathered
  /\ IF \E c \in Pattern : Usable(c) THEN AskSummary ELSE Assess /\ UNCHANGED stage
  /\ UNCHANGED <<given, attempts, failed, kept, asks>>

\* Plausible slip: an error of the summary call ends the analysis.
AssessOnlySummarised == phase = "summary" /\ Usable("summary") /\ Assess /\ UNCHANGED <<given, callVars>>

\* A failed summary is left out of the report.
SummaryOver == phase = "summary" /\ stage["summary"] \in Over /\ Assess /\ UNCHANGED <<given, callVars>>

\* The task of the analysis is cancelled, and its calls with it.
Cancel ==
  /\ phase \in {"new", "calls", "summary"}
  /\ phase' = "cancelled"
  /\ stage' = [c \in Calls |-> IF stage[c] = "asked" THEN "left" ELSE stage[c]]
  /\ UNCHANGED <<given, attempts, failed, kept, asks, assessment>>

Terminated == phase \in {"done", "cancelled"} /\ UNCHANGED vars

CallEnds(c) ==
  Errs(c) \/ Truncated(c) \/ Malformed(c) \/ \E a \in Answers(c) : Answered(c, a)

CallStep(c) == Refused(c) \/ CallEnds(c)

Next ==
  \/ Begin
  \/ \E c \in Calls : CallStep(c)
  \/ Gather
  \/ SummaryOver
  \/ Cancel
  \/ Terminated

Spec == Init /\ [][Next]_vars

\* The event loop runs what can run, and every ask comes back: a put that times
\* out, a worker that takes the item, a request that has a time limit.
FairSpec ==
  /\ Spec
  /\ WF_vars(Begin) /\ WF_vars(Gather) /\ WF_vars(SummaryOver)
  /\ \A c \in Calls : WF_vars(CallStep(c))

-----------------------------------------------------------------------------
(* Properties *)

Done == phase = "done"

\* The last ask of the call came out this way.
CameTo(c, how) == asks[c] # <<>> /\ asks[c][Len(asks[c])] = how

\* Every variable has its type.
Outcomes == {"pattern_found", "no_pattern_found", "as_answered", "not_verified"}
Assessments == [
  phase : {"done"}, risk : {"low", "medium", "high"}, summary : BOOLEAN,
  checks : [Checks -> [outcome : Outcomes, insight : BOOLEAN]],
  status : {"completed", "needs_review"},
  decision : {"no_further_review_suggested", "further_review_suggested"},
  timing : [Calls -> {"not_run", "failed", "answered"}]]

TypeOK ==
  /\ given \in Accounts
  /\ phase \in {"new", "calls", "summary", "done", "cancelled"}
  /\ stage \in [Calls -> {"idle", "asked", "left"} \cup Over]
  /\ attempts \in [Calls -> Nat]
  /\ failed \in [Calls -> BOOLEAN]
  /\ DOMAIN kept = Calls /\ \A c \in Calls : kept[c] \in Answers(c) \cup {NoAnswer(c)}
  /\ asks \in [Calls -> Seq({"refused", "error", "truncated"} \cup Unfit \cup {"used"})]
  /\ IF Done THEN assessment \in Assessments ELSE assessment = Undecided

\* A case is never closed from an incomplete review: no further review is
\* suggested only when calls 1, 2 and 4 gave answers that were used, each
\* screened check has its description, and no unusual transaction was found.
ClosedOnlyWhenWhole ==
  Done /\ assessment.decision = "no_further_review_suggested" =>
    /\ ~given.unusual
    /\ \A c \in {"activity_money", "inactivity_burst_gaps", "summary"} : CameTo(c, "used")
    /\ \A p \in Screened : kept["activity_money"][p] \in {"full", "label"}

\* A call is asked a second time only if the retry is on and its first answer came whole
\* but could not be used: not when the ask was refused, failed or was truncated, and never
\* a third time.  With the retry on, what is used of a first answer has nothing to object
\* to: the allowances of the final attempt are not made before it.
RetriedOnlyWhenUnfit ==
  \A c \in Calls :
    /\ Len(asks[c]) <= IF given.retry THEN 2 ELSE 1
    /\ \A i \in 1..(Len(asks[c]) - 1) : asks[c][i] \in Unfit
    /\ Usable(c) /\ given.retry /\ Len(asks[c]) = 1 => \A p \in Judged(c) : kept[c][p] = "full"

\* The timing table tells the truth: a call is "answered" exactly when its
\* answer was used, and "not run" exactly when no worker ever executed it.
TimingHonest ==
  Done => \A c \in Calls :
    /\ (assessment.timing[c] = "answered") = Usable(c)
    /\ (assessment.timing[c] = "not_run") =
         \A i \in 1..Len(asks[c]) : asks[c][i] = "refused"

\* No failure of an LLM call keeps an analysis from ending: it is assessed
\* unless it was cancelled.
EveryAnalysisEnds == <>(phase \in {"done", "cancelled"})
=============================================================================
