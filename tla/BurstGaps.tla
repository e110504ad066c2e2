------------------------------ MODULE BurstGaps ------------------------------
(***************************************************************************)
(* Bursts and long gaps (app/core/monthly_facts.py), which the code works  *)
(* out of an account's months, puts in a note for the LLM, and checks the  *)
(* answer about (_checked_burst_gaps() in app/core/analysis_service.py).   *)
(*                                                                         *)
(* Shares are in hundredths of a percent and gaps in hundredths of a day,  *)
(* as the loader rounds them; every number a text may quote is in          *)
(* hundredths too.  What a sentence says is the numbers it quotes and      *)
(* whether it denies a burst or calls the spacing even.                    *)
(***************************************************************************)
EXTENDS MonthlyFacts

CONSTANT LongGap   \* REVIEW_LONG_GAP_DAYS, in hundredths of a day.

ASSUME LongGapAssumption == LongGap \in Nat

-----------------------------------------------------------------------------
(* The figures of one month *)

\* In tenths of a percent, as it is shown and compared.
BurstShare(f) == Rounded(f.share, 10)

BurstGuideShare == 250

GapBasis(f) ==
  IF f.count >= 2 THEN "in_month"
  ELSE IF f.count = 1 /\ f.gap > 0 THEN "since_previous" ELSE "no_activity"

IsBurst(f) == BurstShare(f) >= BurstGuideShare

IsLongGap(f) == GapBasis(f) = "since_previous" /\ f.gap >= LongGap

BurstMonths(months) == {i \in 1..Len(months) : IsBurst(months[i])}
LongGapMonths(months) == {i \in 1..Len(months) : IsLongGap(months[i])}
HasInMonthGap(months) == \E i \in 1..Len(months) : GapBasis(months[i]) = "in_month"

-----------------------------------------------------------------------------
(* The note at the end of the prompt *)

NoteOutcome(months) ==
  IF BurstMonths(months) \cup LongGapMonths(months) # {} THEN "pattern_found" ELSE "no_pattern_found"

\* The months the note names, each with its share or its gap.
ListedNumbers(rows) ==
  LET months == Figured(rows)
      month(i) == 100 * Sorted(rows)[i].month
  IN  UNION ({{month(i), 10 * BurstShare(months[i])} : i \in BurstMonths(months)}
        \cup {{month(i), months[i].gap} : i \in LongGapMonths(months)})

\* Both findings also give the level they are measured by: "no month reaches a 25.0%
\* burst share", "60 days or more since the previous transaction".
NoteNumbers(rows) == ListedNumbers(rows) \cup {10 * BurstGuideShare, LongGap}

-----------------------------------------------------------------------------
(* The check of an answer *)

Labels == {"burst", "long_gap", "none"}

\* An answer names months of the file, at least one when it finds a pattern; any other
\* is rejected (see AccountAnalysis).
Answers(months) ==
  [outcome : {"no_pattern_found"}, label : {"none"}, months : {{}}]
  \cup [outcome : {"pattern_found"}, label : Labels, months : (SUBSET (1..Len(months))) \ {{}}]

\* Plausible slip: every selected month has to show the pattern.
FitsAll(months, a) ==
  CASE a.label = "burst" -> a.months \subseteq BurstMonths(months)
    [] a.label = "long_gap" -> a.months \subseteq LongGapMonths(months)
    [] OTHER -> FALSE

\* One of the selected months shows the pattern the answer names.
Fits(months, a) ==
  CASE a.label = "burst" -> a.months \cap BurstMonths(months) # {}
    [] a.label = "long_gap" -> a.months \cap LongGapMonths(months) # {}
    [] OTHER -> FALSE

\* n hundredths, given as n / d, rounded to 1, 0.1 and 0.01.
Roundings(n, d) == {100 * Rounded(n, 100 * d), 10 * Rounded(n, 10 * d), Rounded(n, d)}

\* The months, years and counts, and the shares (also as a fraction) and gaps.
AllowedNumbers(rows) ==
  {100 * n : n \in 0..12} \cup
  UNION {LET f == rows[i].figures IN
           {100 * rows[i].month, 100 * (rows[i].month \div 100), 100 * f.count}
             \cup Roundings(f.share, 1) \cup Roundings(f.share, 100) \cup Roundings(f.gap, 1)
         : i \in 1..Len(rows)}

\* What staff are told is wrong with answer a, whose sentence quotes the given numbers
\* and says the given things.
Issues(rows, a, quotes, says) ==
  LET months == Figured(rows) IN
  {issue \in {"label", "number", "no burst", "even spacing"} :
     CASE issue = "label" -> a.outcome = "pattern_found" /\ ~Fits(months, a)
       [] issue = "number" -> ~(quotes \subseteq AllowedNumbers(rows))
       [] issue = "no burst" -> issue \in says /\ BurstMonths(months) # {}
       [] issue = "even spacing" -> issue \in says /\ ~HasInMonthGap(months)}

-----------------------------------------------------------------------------
(* Properties *)

\* An answer does what the note tells it: the outcome, some of the months it lists, with
\* the name of what one of them shows.
FollowsNote(months, a) ==
  /\ a.outcome = NoteOutcome(months)
  /\ a.months \subseteq BurstMonths(months) \cup LongGapMonths(months)
  /\ \/ a.label = "burst" /\ \E i \in a.months : IsBurst(months[i])
     \/ a.label = "long_gap" /\ \E i \in a.months : IsLongGap(months[i])
     \/ a.months = {}

\* No issue is listed against an answer that does what the note tells it, quotes the
\* months the note lists with their figures, and denies only a burst that is not there.
ObedientAnswerIsClean ==
  Accepted(file) =>
    LET months == Figured(file)
        says == IF BurstMonths(months) = {} THEN {"no burst"} ELSE {}
    IN  \A a \in Answers(months) :
          FollowsNote(months, a) => Issues(file, a, ListedNumbers(file), says) = {}

\* What the docstring of allowed_burst_gap_numbers() says of its set: every number the
\* sentence may quote.  The note tells the sentence to state both findings.
NoteCanBeQuoted == Accepted(file) => NoteNumbers(file) \subseteq AllowedNumbers(file)
=============================================================================
