---------------------------- MODULE MCAccountFile ----------------------------
(* Months around the end of a year, figures at the edges of the screening and of the *)
(* timing, and a customer's profile versions: TLC reads the one file or the other.    *)
EXTENDS BurstGaps, CustomerProfile

Month(count, largest, total, credit, debit, share, gap) ==
  [count |-> count, largest |-> largest, total |-> total, credit |-> credit, debit |-> debit,
   share |-> share, gap |-> gap]

AroundNewYear == {202511, 202512, 202601, 202602}

\* No activity; little and a cent more; twice that; large amounts in and out, near each
\* other, at the least amount and below it.  Shares that round up to 25.0% and down from
\* it; one transaction after just too short and long enough a gap; a long gap on average.
\* What the loader lets pass: amounts of a month without transactions, and below zero.
Edges == {
  Month(0, 0, 0, 0, 0, 0, 0),
  Month(1, 2, 2, 2, 0, 0, 5999),
  Month(2, 3, 4, 4, 0, 2495, 733),
  Month(1, 5, 5, 0, 5, 0, 6000),
  Month(3, 6, 12, 6, 6, 2494, 1067),
  Month(2, 4, 8, 4, 4, 3000, 7000),
  Month(0, 6, 12, 6, 6, 0, 0),
  Month(2, -3, -5, 0, -5, -5, -15)}

AccountFileInit == Init /\ ProfileInit

AccountFileNext ==
  \/ ReadRow /\ versions = <<>> /\ UNCHANGED versions
  \/ ReadVersion /\ file = <<>> /\ UNCHANGED file

AccountFileSpec == AccountFileInit /\ [][AccountFileNext]_<<file, versions>>
=============================================================================
