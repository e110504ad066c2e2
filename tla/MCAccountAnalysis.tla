-------------------------- MODULE MCAccountAnalysis --------------------------
(***************************************************************************)
(* AccountAnalysis for TLC: the accounts that are analysed.                *)
(***************************************************************************)
EXTENDS AccountAnalysis

\* Every combination with the profile call or the format retry left out, and two
\* accounts with both: one where nothing was found, one where everything was.
SomeAccounts ==
  {a \in Given :
     \/ ~a.profile \/ ~a.retry
     \/ a.run /\ ~a.unusual /\ ~a.layering
     \/ ~a.run /\ a.unusual /\ a.layering}
=============================================================================
