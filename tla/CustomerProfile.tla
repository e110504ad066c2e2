--------------------------- MODULE CustomerProfile ---------------------------
(***************************************************************************)
(* The versions of a customer's profile, read twice: by the analysis       *)
(* (load_customer_profile() in app/core/summary_loader.py) and by the      *)
(* filters of the folder page (latest_profiles() in                        *)
(* app/core/account_folder.py), which must look at the same one.           *)
(*                                                                         *)
(* The only step reads one more row of customer_info.  A row is of the     *)
(* account ("plain"), of the account under another spelling of its number  *)
(* ("respelled", such as padded), or of another account.                   *)
(***************************************************************************)
EXTENDS Integers, Sequences, FiniteSets, Sorting

CONSTANTS
  Dates,        \* VALID_FROM_DTTM, as ordered numbers.
  NoDate,       \* The row has none.
  Codes,        \* CITIZEN_CD and OCCUPATION_CD of a row, cleaned.
  MaxVersions   \* Bound on the rows.

ASSUME ProfileAssumption == Dates \subseteq Nat /\ NoDate \notin Nat /\ MaxVersions \in Nat

VARIABLE versions  \* The rows of customer_info read so far, in the order of the file.

Version == [acct : {"plain", "respelled", "other"}, from : Dates \cup {NoDate}, codes : Codes]

ProfileInit == versions = <<>>

ReadVersion ==
  /\ Len(versions) < MaxVersions
  /\ \E v \in Version : versions' = Append(versions, v)

ProfileSpec == ProfileInit /\ [][ReadVersion]_versions

-----------------------------------------------------------------------------

\* The rows with exactly the account's number and with a date.
Own(rows) == {i \in 1..Len(rows) : rows[i].acct = "plain" /\ rows[i].from # NoDate}

\* Plausible slip: the versions stay in the order of the file.
TimelineUnsorted(rows) ==
  LET order == InOrder(Own(rows), [i \in Own(rows) |-> 0])
  IN  [n \in 1..Cardinality(Own(rows)) |-> rows[order[n]]]

\* The analysis reads them oldest first; rows with one date stay in the order of the file.
Timeline(rows) ==
  LET order == InOrder(Own(rows), [i \in Own(rows) |-> rows[i].from])
  IN  [n \in 1..Cardinality(Own(rows)) |-> rows[order[n]]]

\* The last of them is the profile that the report shows and the prompts name.
Analysed(rows) ==
  LET timeline == Timeline(rows)
  IN  IF timeline = <<>> THEN {} ELSE {timeline[Len(timeline)].codes}

\* The folder page cleans the account numbers first, and sorts by a sort that may leave
\* rows with one date in any order: it takes one of the latest.
Latest(rows) ==
  LET cleaned == {i \in 1..Len(rows) : rows[i].acct # "other" /\ rows[i].from # NoDate}
  IN  {i \in cleaned : \A k \in cleaned : rows[k].from <= rows[i].from}

\* What it may filter the account by.
Filtered(rows) == {rows[i].codes : i \in Latest(rows)}

-----------------------------------------------------------------------------

\* When a version of the latest date spells the account's number plainly, the analysis
\* reads a latest version too, one that the folder page may filter by, whatever the order
\* of the rows and however the others are spelled.
SameVersion ==
  Latest(versions) \cap Own(versions) # {} =>
    Analysed(versions) # {} /\ Analysed(versions) \subseteq Filtered(versions)
=============================================================================
