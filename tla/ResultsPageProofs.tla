------------------------- MODULE ResultsPageProofs -------------------------
(***************************************************************************)
(* What the results page shows, for a batch of any size, any number of     *)
(* reports on their way and any order of their answers.                    *)
(*                                                                         *)
(* The page itself only knows which report it drew last for a file it is   *)
(* still on (batchState.shown).  IInv says that this is the report that is *)
(* to be seen, if one is: without it Draw could find a report visible that *)
(* it takes for another one.                                               *)
(***************************************************************************)
EXTENDS ResultsPage, TLAPS

\* A report that is to be seen is the one that was drawn last and not left since.
ShownIsDrawn ==
  /\ shown # 0 => drawn = shown
  /\ "report" \in visible => shown # 0

IInv == page \in 0..(Total + 1) /\ ShownIsDrawn /\ WrongOnlyUntilLoaded /\ DrawnOnce

\* What the two properties and the invariant are about.
view == <<data, page, shown, reports, drawn, visible, redrawn>>

\* The invariant holds of a page that shows nothing.
LEMMA IInvInit == Init => IInv
  BY DEF Init, IInv, ShownIsDrawn, WrongOnlyUntilLoaded, DrawnOnce

\* goToPage() goes to a page there is.
LEMMA ClampFacts == ASSUME NEW p \in 0..(Total + 1) PROVE Clamp(p) \in Pages
  BY PageAssumption DEF Clamp, Pages

\* However showBatchPage() ends, what is then to be seen is the report of the page it
\* was asked for, unless that file is ready and its report not there yet; and it does
\* not draw a report that is to be seen already.
LEMMA ShowsRight ==
  ASSUME IInv, NEW p \in Pages, NEW files, NEW have, NEW busy, NEW out,
         ShowBatchPage(p, Found(files, have, busy, out))
  PROVE  /\ ShownIsDrawn'
         /\ ~redrawn'
         /\ "report" \in visible' /\ drawn' # p => files[p] = "done" /\ p \notin have
<1> DEFINE found == Found(files, have, busy, out)
<1>1. found.files = files /\ found.reports = have
  BY DEF Found
<1>2. p # 0
  BY PageAssumption DEF Pages
<1>3. ShownIsDrawn /\ ~redrawn
  BY DEF IInv, DrawnOnce
<1> HIDE DEF found
<1>4. CASE Draw(p, found)
  <2>1. /\ shown' = p
        /\ drawn' = IF shown = p THEN drawn ELSE p
        /\ redrawn' = (redrawn \/ (shown # p /\ "report" \in visible /\ drawn = p))
    BY <1>4 DEF Draw, Reading
  <2>2. drawn' = p
    BY <1>2, <1>3, <2>1 DEF ShownIsDrawn
  <2>3. ~redrawn'
    BY <1>3, <2>1 DEF ShownIsDrawn
  <2>4. QED
    BY <1>2, <2>1, <2>2, <2>3 DEF ShownIsDrawn
<1>5. CASE Fetch(p, found)
  <2>1. "report" \notin visible' /\ UNCHANGED <<shown, drawn, redrawn>>
    BY <1>5 DEF Fetch, Reveal
  <2>2. QED
    BY <1>3, <2>1 DEF ShownIsDrawn
<1>6. CASE AlreadyLoading(p, found) /\ files[p] = "done" /\ p \notin have
  <2>1. ("report" \in visible' => "report" \in visible) /\ UNCHANGED <<shown, drawn, redrawn>>
    BY <1>6 DEF AlreadyLoading
  <2>2. QED
    BY <1>3, <1>6, <2>1 DEF ShownIsDrawn
<1>7. CASE SayStatus(p, found)
  <2>1. shown' = 0 /\ "report" \notin visible' /\ UNCHANGED redrawn
    BY <1>7 DEF SayStatus, Reveal
  <2>2. QED
    BY <1>3, <2>1 DEF ShownIsDrawn
<1>8. ShowBatchPage(p, found)
  BY DEF found
<1>9. QED
  BY <1>1, <1>4, <1>5, <1>6, <1>7, <1>8 DEF ShowBatchPage

\* Whoever shows the page it then is on, with what it then has, leaves all well.
LEMMA ShowingKeeps ==
  ASSUME IInv, NEW p \in Pages, NEW busy, NEW out,
         ShowBatchPage(p, Found(data', reports', busy, out)), page' = p
  PROVE  IInv'
<1>1. /\ ShownIsDrawn'
      /\ ~redrawn'
      /\ "report" \in visible' /\ drawn' # p => data'[p] = "done" /\ p \notin reports'
  BY ShowsRight
<1>2. page' \in 0..(Total + 1)
  BY PageAssumption DEF Pages
<1>3. QED
  BY <1>1, <1>2 DEF IInv, WrongOnlyUntilLoaded, DrawnOnce

\* What touches nothing that is to be seen keeps the invariant.
LEMMA ViewKept == IInv /\ UNCHANGED view => IInv'
  BY DEF IInv, view, ShownIsDrawn, WrongOnlyUntilLoaded, DrawnOnce

-----------------------------------------------------------------------------
(* The poll and the clicks *)

\* An answered poll shows the page the reader is on.
LEMMA PollAnsweredKeeps == IInv /\ PollAnswered => IInv'
<1> SUFFICES ASSUME IInv, PollAnswered
             PROVE  IInv'
  OBVIOUS
<1>1. /\ data' = poll.files /\ reports' = reports /\ page' = Clamp(page)
      /\ ShowBatchPage(Clamp(page), Found(poll.files, reports, loading, loads))
  BY DEF PollAnswered
<1>2. Clamp(page) \in Pages
  BY ClampFacts DEF IInv
<1>3. ShowBatchPage(Clamp(page), Found(data', reports', loading, loads))
  BY <1>1
<1>4. QED
  BY <1>1, <1>2, <1>3, ShowingKeeps

\* A poll that breaks off touches nothing that is to be seen.
LEMMA PollBrokenKeeps == IInv /\ PollBroken => IInv'
  BY DEF IInv, PollBroken, screen, ShownIsDrawn, WrongOnlyUntilLoaded, DrawnOnce

\* Nor does one that is refused.
LEMMA PollRefusedKeeps == IInv /\ PollRefused => IInv'
  BY DEF IInv, PollRefused, ShowBatchError, batchState, ShownIsDrawn, WrongOnlyUntilLoaded, DrawnOnce

\* A click shows the page it goes to.
LEMMA GoToPageKeeps ==
  ASSUME IInv, NEW p \in Pages, GoToPage(p)
  PROVE  IInv'
<1>1. /\ page' = p
      /\ ShowBatchPage(p, Found(data, reports, loading, loads))
      /\ data' = data /\ reports' = reports
  BY DEF GoToPage
<1>2. ShowBatchPage(p, Found(data', reports', loading, loads))
  BY <1>1
<1>3. QED
  BY <1>1, <1>2, ShowingKeeps

-----------------------------------------------------------------------------
(* The answers *)

\* An answer for another page changes nothing that is shown; one for this page shows
\* it, unless there are no statuses.
LEMMA AfterFetchKeeps ==
  ASSUME IInv, NEW p \in Pages, AfterFetch(p, page = p),
         \A q : q # p => (q \in reports' <=> q \in reports)
  PROVE  IInv'
<1>1. data' = data /\ page' = page
  BY DEF AfterFetch
<1>2. CASE page = p /\ data # NoData
  <2>1. ShowBatchPage(p, Found(data, reports', 0, [loads EXCEPT ![p] = @ - 1]))
    BY <1>2 DEF AfterFetch
  <2>2. ShowBatchPage(p, Found(data', reports', 0, [loads EXCEPT ![p] = @ - 1]))
    BY <1>1, <2>1
  <2>3. QED
    BY <1>1, <1>2, <2>2, ShowingKeeps
<1>3. CASE ~(page = p /\ data # NoData)
  <2>1. UNCHANGED <<shown, drawn, visible, redrawn>>
    BY <1>3 DEF AfterFetch, screen
  <2>2. ShownIsDrawn' /\ DrawnOnce'
    BY <2>1 DEF IInv, ShownIsDrawn, DrawnOnce
  <2>3. WrongOnlyUntilLoaded'
    BY <1>1, <1>3, <2>1 DEF IInv, WrongOnlyUntilLoaded
  <2>4. QED
    BY <1>1, <2>2, <2>3 DEF IInv
<1>4. QED
  BY <1>2, <1>3

\* A fetch that fails shows no report.
LEMMA ReportFailedKeeps ==
  ASSUME IInv, NEW p \in Pages, ReportFailed(p)
  PROVE  IInv'
<1>1. UNCHANGED view
  BY DEF ReportFailed, view
<1>2. QED
  BY <1>1, ViewKept

-----------------------------------------------------------------------------
(* The whole *)

\* Every step of the script keeps the invariant.
LEMMA IInvStep == IInv /\ [Next]_vars => IInv'
<1> SUFFICES ASSUME IInv, [Next]_vars
             PROVE  IInv'
  OBVIOUS
<1>1. CASE UNCHANGED vars
  <2>1. UNCHANGED view
    BY <1>1 DEF vars, batchState, screen, view
  <2>2. QED
    BY <2>1, ViewKept
<1>2. CASE PollCounts \/ PollLists \/ PollDropped \/ PollAgain
  <2>1. UNCHANGED view
    BY <1>2 DEF PollCounts, PollLists, PollDropped, PollAgain, batchState, screen, view
  <2>2. QED
    BY <2>1, ViewKept
<1>3. CASE PollAnswered
  BY <1>3, PollAnsweredKeeps
<1>4. CASE PollBroken
  BY <1>4, PollBrokenKeeps
<1>5. CASE PollRefused
  BY <1>5, PollRefusedKeeps
<1>6. ASSUME NEW p \in Pages,
             GoToPage(p) \/ ReportLoaded(p) \/ ReportBroken(p) \/ ReportFailed(p) \/ FileMoves(p)
      PROVE  IInv'
  <2>1. CASE GoToPage(p)
    BY <2>1, GoToPageKeeps
  <2>2. CASE ReportLoaded(p)
    <3>1. AfterFetch(p, page = p) /\ reports' = reports \cup {p}
      BY <2>2 DEF ReportLoaded
    <3>2. QED
      BY <3>1, AfterFetchKeeps
  <2>3. CASE ReportBroken(p)
    <3>1. AfterFetch(p, page = p) /\ reports' = reports \ {p}
      BY <2>3 DEF ReportBroken
    <3>2. QED
      BY <3>1, AfterFetchKeeps
  <2>4. CASE ReportFailed(p)
    BY <2>4, ReportFailedKeeps
  <2>5. CASE FileMoves(p)
    <3>1. UNCHANGED view
      BY <2>5 DEF FileMoves, batchState, screen, view
    <3>2. QED
      BY <3>1, ViewKept
  <2>6. QED
    BY <1>6, <2>1, <2>2, <2>3, <2>4, <2>5
<1>7. QED
  BY <1>1, <1>2, <1>3, <1>4, <1>5, <1>6 DEF Next

\* So it holds for good.
LEMMA IInvAlways == Spec => []IInv
  BY IInvInit, IInvStep, PTL DEF Spec

\* In whatever order the reports arrive, that of another file stands only until the
\* report of this page has come.
THEOREM WrongReportGives == Spec => []WrongOnlyUntilLoaded
<1>1. IInv => WrongOnlyUntilLoaded
  BY DEF IInv
<1>2. QED
  BY <1>1, IInvAlways, PTL

\* A report that is being read is not drawn again by a poll or a late answer.
THEOREM ReadInPeace == Spec => []DrawnOnce
<1>1. IInv => DrawnOnce
  BY DEF IInv
<1>2. QED
  BY <1>1, IInvAlways, PTL
=============================================================================
