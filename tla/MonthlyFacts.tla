---------------------------- MODULE MonthlyFacts ----------------------------
(***************************************************************************)
(* What the code itself decides of an account before any LLM call: whether *)
(* its file is a whole review period (app/core/summary_loader.py), and the *)
(* usual level, the screening and the inactive period found in its months  *)
(* (app/core/monthly_facts.py).                                            *)
(*                                                                         *)
(* The only step reads one more row, so that the runs go through every     *)
(* file of the given months and figures.  Amounts are in cents, as the     *)
(* loader rounds them; settings with a decimal are in tenths.              *)
(***************************************************************************)
EXTENDS Integers, SequencesExt, Sorting

CONSTANTS
  Months,           \* The months a row may name, as YYYYMM.
  Figures,          \* The figures a row may have.
  ReviewMonths,     \* REVIEW_MONTHS.
  MinZeroMonths,    \* DORMANCY_MIN_ZERO_MONTHS.
  TimesUsual,       \* REVIEW_UNUSUAL_TIMES_USUAL, in tenths.
  MinAmount,        \* REVIEW_MIN_AMOUNT.
  MaxDifference,    \* REVIEW_LAYERING_MAX_DIFFERENCE_PCT, in tenths.
  TimesUsualMonth   \* REVIEW_LAYERING_TIMES_USUAL_MONTH, in tenths.

ASSUME FactsAssumption ==
  /\ \A n \in {ReviewMonths, MinZeroMonths, TimesUsual, MinAmount, MaxDifference, TimesUsualMonth} :
       n \in Nat \ {0}
  /\ Months \subseteq Nat
  \* Only a count is checked not to be below zero, and no figure against another: a
  \* month without transactions may come with amounts.
  /\ Figures \subseteq
       [count : Nat, largest : Int, total : Int, credit : Int, debit : Int, share : Int, gap : Int]

VARIABLE file  \* The rows read so far, in the order of the file.

TypeOK == file \in Seq([month : Months, figures : Figures])

Init == file = <<>>

ReadRow ==
  /\ Len(file) < ReviewMonths
  /\ \E m \in Months, f \in Figures : file' = Append(file, [month |-> m, figures |-> f])

Spec == Init /\ [][ReadRow]_file

-----------------------------------------------------------------------------
(* The loader *)

IsMonth(m) == m % 100 \in 1..12

\* Plausible slip: the year does not turn.
NextMonthOfYear(m) == m + 1

NextMonth(m) == IF m % 100 = 12 THEN m + 89 ELSE m + 1

\* The rows in the order of their months.
Sorted(rows) ==
  LET order == InOrder(1..Len(rows), [i \in 1..Len(rows) |-> rows[i].month])
  IN  [n \in 1..Len(rows) |-> rows[order[n]]]

\* Exactly the configured number of consecutive months; the rows may be in any order.
Accepted(rows) ==
  LET sorted == Sorted(rows) IN
  /\ Len(rows) = ReviewMonths
  /\ IsMonth(sorted[1].month)
  /\ \A i \in 1..(Len(rows) - 1) : sorted[i + 1].month = NextMonth(sorted[i].month)

\* The figures month by month, once the file is accepted.
Figured(rows) == LET sorted == Sorted(rows) IN [i \in 1..Len(rows) |-> sorted[i].figures]

-----------------------------------------------------------------------------
(* The usual level *)

\* n / d to the nearest integer, and to the even one half way (Decimal.quantize).
Rounded(n, d) ==
  LET q == n \div d  twice == 2 * (n % d)
  IN  IF twice > d \/ (twice = d /\ q % 2 = 1) THEN q + 1 ELSE q

\* The middle of values that are in order.
Middle(values) ==
  LET half == Len(values) \div 2
  IN  IF Len(values) % 2 = 1 THEN values[half + 1] ELSE Rounded(values[half] + values[half + 1], 2)

\* Plausible slip: the values are taken in the order of the months.
MedianUnsorted(S, value) ==
  LET order == InOrder(S, [i \in S |-> i]) IN Middle([n \in DOMAIN order |-> value[order[n]]])

\* Of the values of the months in S.
Median(S, value) ==
  LET order == InOrder(S, value) IN Middle([n \in DOMAIN order |-> value[order[n]]])

MinHistoryMonths == 3
NotEnoughHistory == {}

\* The months with transactions.
Active(months) == {i \in 1..Len(months) : months[i].count > 0}

\* The middle of their values, if they are enough.
Usual(S, value) == IF Cardinality(S) < MinHistoryMonths THEN NotEnoughHistory ELSE {Median(S, value)}

UsualLargest(months) == Usual(Active(months), [i \in 1..Len(months) |-> months[i].largest])
UsualMonth(months) == Usual(Active(months), [i \in 1..Len(months) |-> months[i].total])

-----------------------------------------------------------------------------
(* The screening *)

\* Plausible slip: exactly so many times the usual is not enough.
UnusualMonthsAbove(months) ==
  LET usual == UsualLargest(months) IN
  {i \in 1..Len(months) :
     /\ months[i].count > 0 /\ months[i].largest >= MinAmount
     /\ \A u \in usual : 10 * months[i].largest > TimesUsual * u}

UnusualMonths(months) ==
  LET usual == UsualLargest(months) IN
  {i \in 1..Len(months) :
     /\ months[i].count > 0 /\ months[i].largest >= MinAmount
     /\ \A u \in usual : 10 * months[i].largest >= TimesUsual * u}

InAndOut(f) == f.credit > 0 /\ f.debit > 0
Larger(f) == Max({f.credit, f.debit})
Smaller(f) == Min({f.credit, f.debit})

\* How far apart money in and money out are, in tenths of a percent of the larger.
Difference(f) == IF Larger(f) = 0 THEN 1000 ELSE Rounded(1000 * (Larger(f) - Smaller(f)), Larger(f))

FarAboveUsual(months, i) ==
  \A u \in UsualMonth(months) : 10 * months[i].total >= TimesUsualMonth * u

LayeringMonths(months) ==
  {i \in 1..Len(months) :
     /\ InAndOut(months[i])
     /\ Difference(months[i]) <= MaxDifference
     /\ Smaller(months[i]) >= MinAmount
     /\ FarAboveUsual(months, i)}

-----------------------------------------------------------------------------
(* What the note tells the LLM when the screening has found nothing *)

\* Of all months, those without transactions too.
Top(months) == Max({months[i].largest : i \in 1..Len(months)})

\* The last reason quotes the usual level, and there may be none to format.
UnusualNote(months) ==
  IF UnusualMonths(months) # {} THEN "found"
  ELSE IF Top(months) = 0 THEN "no transactions"
  ELSE IF Top(months) < MinAmount THEN "below the minimum"
  ELSE IF UsualLargest(months) = NotEnoughHistory THEN "error"
  ELSE "under so many times the usual"

-----------------------------------------------------------------------------
(* The inactive period *)

\* The first of the months without transactions that come just before month i.
ZeroStart(months, i) ==
  Min({s \in 1..i : \A k \in s..(i - 1) : months[k].count = 0})

Resumes(months) ==
  {i \in 2..Len(months) : months[i].count > 0 /\ i - ZeroStart(months, i) >= MinZeroMonths}

NoRun == [start |-> 0, active |-> 0, later |-> 0]

Run(months, i) ==
  [start |-> ZeroStart(months, i), active |-> i,
   later |-> Cardinality({k \in Active(months) : k > i})]

\* Plausible slip: the search goes forward.
FirstRun(months) == IF Resumes(months) = {} THEN NoRun ELSE Run(months, Min(Resumes(months)))

\* The search goes backward, and ends at the most recent run.
FindInactivityRun(months) == IF Resumes(months) = {} THEN NoRun ELSE Run(months, Max(Resumes(months)))

-----------------------------------------------------------------------------
(* Properties *)

Ordinal(m) == 12 * (m \div 100) + (m % 100)

\* A file is taken exactly when it holds a whole period, each month once, whatever
\* the order of its rows and across the end of a year.
LoaderTakesWholePeriods ==
  Accepted(file) <=>
    /\ Len(file) = ReviewMonths
    /\ \A i, k \in 1..Len(file) : i # k => file[i].month # file[k].month
    /\ \A i \in 1..Len(file) : IsMonth(file[i].month)
    /\ \A i, k \in 1..Len(file) : Ordinal(file[k].month) - Ordinal(file[i].month) < ReviewMonths

\* Which of the months in S are above the usual level.
Above(S, value, usual) == {i \in S : \A u \in usual : value[i] > u}

\* The screening compares an account with itself: where the usual level is known, at most
\* half of the months with transactions are found unusual with an amount above it, and at
\* most half layering with a total above it.  With a factor above one what is found is
\* above it, unless a layering month has no total.
OnlySomeStandOut ==
  Accepted(file) =>
    LET months == Figured(file)
        active == Active(months)
        largest == [i \in 1..Len(months) |-> months[i].largest]
        total == [i \in 1..Len(months) |-> months[i].total]
        unusual == Above(UnusualMonths(months), largest, UsualLargest(months))
        layering == Above(LayeringMonths(months), total, UsualMonth(months))
    IN  Cardinality(active) >= MinHistoryMonths =>
          /\ 2 * Cardinality(unusual) <= Cardinality(active)
          /\ 2 * Cardinality(layering \cap active) <= Cardinality(active)
          /\ TimesUsual > 10 => unusual = UnusualMonths(months)
          /\ TimesUsualMonth > 10 => \A i \in LayeringMonths(months) \ layering : total[i] <= 0

\* The reason given to the LLM for finding no unusual transaction can be written, and is
\* the real one: it never names a usual level that was reached.
RealReason(months) ==
  /\ UnusualNote(months) # "error"
  /\ UnusualNote(months) = "under so many times the usual" =>
       \A u \in UsualLargest(months) : 10 * Top(months) < TimesUsual * u

\* The reason is real where a month with transactions has the largest amount of all,
\* whatever amounts the months without transactions have.  Where none has, it need not
\* be: the note takes the largest amount of all months, the screening skips some.
UnusualReasonHolds ==
  Accepted(file) =>
    LET months == Figured(file)
    IN  (\E i \in Active(months) : months[i].largest = Top(months)) => RealReason(months)

\* The inactive period is the latest one: long enough, without any transaction,
\* nothing inactive before it that belongs to it, and none after it.
InactivityIsLatest ==
  Accepted(file) =>
    LET months == Figured(file)
        run == FindInactivityRun(months)
        Quiet(from, to) == \A k \in from..to : months[k].count = 0
        Ends(from, i) == i - from >= MinZeroMonths /\ Quiet(from, i - 1) /\ months[i].count > 0
    IN  IF run = NoRun
        THEN \A i \in 2..Len(months), from \in 1..Len(months) : from < i => ~Ends(from, i)
        ELSE /\ Ends(run.start, run.active)
             /\ run.start = 1 \/ months[run.start - 1].count > 0
             /\ \A i \in (run.active + 1)..Len(months), from \in 1..Len(months) : from < i => ~Ends(from, i)
=============================================================================
