---------------------------- MODULE ResultsPage ----------------------------
(***************************************************************************)
(* The results page of a batch (app/static/results.js): it polls the       *)
(* statuses of the files, shows one file at a time, and fetches a finished *)
(* report when its file is shown.                                          *)
(*                                                                         *)
(* The page's script is one thread: an action is what runs between two     *)
(* awaits.  Answers to fetches arrive in any order, and a click can come   *)
(* between any two of them.  A file is named by its page.                  *)
(***************************************************************************)
EXTENDS Integers, FiniteSetsExt

CONSTANTS
  Total,    \* The number of files of the batch.
  MaxLoads  \* Bound: no click while this many reports are being fetched.

ASSUME PageAssumption ==
  /\ Total \in Nat \ {0}
  /\ MaxLoads \in Nat \ {0}

VARIABLES
  status,   \* In the server: the status of each file.
  poll,     \* Where the poll is, with the answer under way.
  data,     \* batchState.data: the statuses of the last poll; NoData before it.
  page,     \* batchState.page.
  shown,    \* batchState.shown: the page drawn last, unless it was left; or 0.
  reports,  \* batchState.reports: the reports fetched so far.
  loading,  \* batchState.loading: the page whose report is being fetched, or 0.
  loads,    \* How many fetches of each report have not been answered.
  drawn,    \* The page whose report is in #result, or 0.
  visible,  \* What is not hidden: "bar", "report", "note" (the placeholder), "error".
  note,     \* What the placeholder says, and of which page.
  redrawn   \* History: a report was drawn again while it was being read.

batchState == <<data, page, shown, reports, loading>>
screen == <<drawn, visible, note, redrawn>>
vars == <<status, poll, batchState, loads, screen>>

Pages == 1..Total
Final == {"done", "failed"}
Status == {"queued", "analysing"} \cup Final
NoData == [p \in Pages |-> "none"]

At(place) == [at |-> place, files |-> NoData, finished |-> FALSE]
Says(p, what) == [page |-> p, what |-> what]

TypeOK ==
  /\ status \in [Pages -> Status]
  /\ poll \in [at : {"timer", "sent", "counted", "answered", "stopped"}, finished : BOOLEAN,
               files : [Pages -> Status] \cup {NoData}]
  /\ data \in [Pages -> Status] \cup {NoData}
  /\ page \in 0..(Total + 1)
  /\ data # NoData => page \in Pages
  /\ shown \in 0..Total /\ loading \in 0..Total /\ drawn \in 0..Total
  /\ reports \subseteq Pages
  /\ loads \in [Pages -> 0..(MaxLoads + 1)]
  /\ visible \subseteq {"bar", "report", "note", "error"}
  /\ note \in [page : 0..Total, what : {"", "loading", "status", "failed"}]
  /\ redrawn \in BOOLEAN

\* The page number of the address may lie outside the batch.
Init ==
  /\ status \in [Pages -> {"queued", "failed"}]
  /\ poll = At("sent")
  /\ data = NoData
  /\ page \in 0..(Total + 1)
  /\ shown = 0 /\ loading = 0 /\ drawn = 0
  /\ reports = {}
  /\ loads = [p \in Pages |-> 0]
  /\ visible = {}
  /\ note = Says(0, "")
  /\ redrawn = FALSE

-----------------------------------------------------------------------------
(* showBatchPage(), and the part of loadReport() that runs before its      *)
(* fetch, given what they find in batchState and the fetches under way.    *)

Found(files, have, busy, out) == [files |-> files, reports |-> have, loading |-> busy, loads |-> out]

Reading(p) == "report" \in visible /\ drawn = p

Reveal(part, other) == visible' = (visible \ {other}) \cup {"bar", part}

\* Plausible slip: the page is drawn at every poll.
DrawAlways(p, found) ==
  /\ shown' = p /\ drawn' = p
  /\ redrawn' = (redrawn \/ Reading(p))
  /\ Reveal("report", "note")
  /\ loading' = found.loading /\ loads' = found.loads
  /\ UNCHANGED note

\* Drawn once, unless the page was left for a file that is not ready.
Draw(p, found) ==
  /\ shown' = p
  /\ drawn' = IF shown = p THEN drawn ELSE p
  /\ redrawn' = (redrawn \/ (shown # p /\ Reading(p)))
  /\ Reveal("report", "note")
  /\ loading' = found.loading /\ loads' = found.loads
  /\ UNCHANGED note

Fetch(p, found) ==
  /\ found.loading # p
  /\ loading' = p
  /\ loads' = [found.loads EXCEPT ![p] = @ + 1]
  /\ Reveal("note", "report")
  /\ note' = Says(p, "loading")
  /\ UNCHANGED <<shown, drawn, redrawn>>

\* Only the bar changes: the report or the placeholder of the page before stays.
AlreadyLoading(p, found) ==
  /\ found.loading = p
  /\ visible' = visible \cup {"bar"}
  /\ loading' = found.loading /\ loads' = found.loads
  /\ UNCHANGED <<shown, drawn, note, redrawn>>

SayStatus(p, found) ==
  /\ shown' = 0
  /\ Reveal("note", "report")
  /\ note' = Says(p, "status")
  /\ loading' = found.loading /\ loads' = found.loads
  /\ UNCHANGED <<drawn, redrawn>>

ShowBatchPage(p, found) ==
  \/ found.files[p] = "done" /\ p \in found.reports /\ Draw(p, found)
  \/ found.files[p] = "done" /\ p \notin found.reports /\ (Fetch(p, found) \/ AlreadyLoading(p, found))
  \/ found.files[p] # "done" /\ SayStatus(p, found)

-----------------------------------------------------------------------------
(* The poll *)

AllFinal(files) == \A p \in Pages : files[p] \in Final

\* The server counts before it lists: it may list the last file as final and yet
\* answer that the batch is not finished.
PollCounts ==
  /\ poll.at = "sent"
  /\ poll' = [poll EXCEPT !.at = "counted", !.finished = AllFinal(status)]
  /\ UNCHANGED <<status, batchState, loads, screen>>

PollLists ==
  /\ poll.at = "counted"
  /\ poll' = [poll EXCEPT !.at = "answered", !.files = status]
  /\ UNCHANGED <<status, batchState, loads, screen>>

Clamp(p) == IF p < 1 THEN 1 ELSE IF p > Total THEN Total ELSE p

PollAnswered ==
  /\ poll.at = "answered"
  /\ data' = poll.files
  /\ page' = Clamp(page)
  /\ ShowBatchPage(Clamp(page), Found(poll.files, reports, loading, loads))
  /\ poll' = At(IF poll.finished THEN "stopped" ELSE "timer")
  /\ UNCHANGED <<status, reports>>

\* Plausible slip: a dropped connection ends the polling.
PollDroppedForGood ==
  /\ poll.at \in {"sent", "answered"}
  /\ poll' = At("stopped")
  /\ UNCHANGED <<status, batchState, loads, screen>>

PollDropped ==
  /\ poll.at \in {"sent", "answered"}
  /\ poll' = At("timer")
  /\ UNCHANGED <<status, batchState, loads, screen>>

\* The answer breaks off in its body: the statuses are lost, and the page stands
\* still until the next poll.
PollBroken ==
  /\ poll.at = "answered"
  /\ data' = NoData
  /\ poll' = At("timer")
  /\ UNCHANGED <<status, page, shown, reports, loading, loads, screen>>

\* Only the message is left to see.
ShowBatchError == visible' = {"error"} /\ UNCHANGED <<drawn, note, redrawn>>

\* An answer that is not ok: the batch is gone, or a server between them fails.
PollRefused ==
  /\ poll.at = "sent"
  /\ poll' = At("stopped")
  /\ ShowBatchError
  /\ UNCHANGED <<status, batchState, loads>>

PollAgain ==
  /\ poll.at = "timer"
  /\ poll' = At("sent")
  /\ UNCHANGED <<status, batchState, loads, screen>>

-----------------------------------------------------------------------------
(* Clicks and reports *)

GoToPage(p) ==
  /\ "bar" \in visible /\ data # NoData
  /\ p \in {page - 1, page + 1} \cap Pages
  /\ MapThenSumSet(LAMBDA q : loads[q], Pages) < MaxLoads
  /\ page' = p
  /\ ShowBatchPage(p, Found(data, reports, loading, loads))
  /\ UNCHANGED <<status, poll, data, reports>>

\* The fetch of p ends with the flag cleared, whatever page it names by now, and p
\* is shown if it is still the page; without statuses showBatchPage() throws.
AfterFetch(p, stillPage) ==
  LET rest == [loads EXCEPT ![p] = @ - 1] IN
  /\ loads[p] > 0
  /\ IF stillPage /\ data # NoData
     THEN ShowBatchPage(p, Found(data, reports', 0, rest))
     ELSE loads' = rest /\ loading' = 0 /\ UNCHANGED <<shown, screen>>
  /\ UNCHANGED <<status, poll, data, page>>

\* Plausible slip: drawing the report is left to the next poll.
ReportLoadedNotShown(p) == reports' = reports \cup {p} /\ AfterFetch(p, FALSE)

ReportLoaded(p) == reports' = reports \cup {p} /\ AfterFetch(p, page = p)

\* The answer breaks off in its body: an empty report is kept, which counts as none.
ReportBroken(p) == reports' = reports \ {p} /\ AfterFetch(p, page = p)

\* Plausible slip: a failure leaves the flag set.
ReportFailedStillMarked(p) ==
  /\ loads[p] > 0
  /\ loads' = [loads EXCEPT ![p] = @ - 1]
  /\ note' = Says(p, "failed")
  /\ UNCHANGED <<status, poll, batchState, drawn, visible, redrawn>>

\* The message replaces what the placeholder says, whatever page is shown by now.
ReportFailed(p) ==
  /\ loads[p] > 0
  /\ loads' = [loads EXCEPT ![p] = @ - 1]
  /\ loading' = 0
  /\ note' = Says(p, "failed")
  /\ UNCHANGED <<status, poll, data, page, shown, reports, drawn, visible, redrawn>>

-----------------------------------------------------------------------------
(* The server, and the whole *)

FileMoves(p) ==
  /\ \/ status[p] = "queued" /\ status' = [status EXCEPT ![p] = "analysing"]
     \/ status[p] = "analysing" /\ \E end \in Final : status' = [status EXCEPT ![p] = end]
  /\ UNCHANGED <<poll, batchState, loads, screen>>

Next ==
  \/ PollCounts \/ PollLists \/ PollAnswered \/ PollDropped \/ PollBroken \/ PollRefused \/ PollAgain
  \/ \E p \in Pages : GoToPage(p) \/ ReportLoaded(p) \/ ReportBroken(p) \/ ReportFailed(p) \/ FileMoves(p)

Spec == Init /\ [][Next]_vars

\* The timer fires and every fetch ends; of many in a row one gets through whole.
\* Nothing is assumed of the clicks or of the analyses.
Fairness ==
  /\ WF_vars(PollAgain)
  /\ SF_vars(PollCounts)
  /\ WF_vars(PollLists)
  /\ SF_vars(PollAnswered)
  /\ \A p \in Pages : SF_vars(ReportLoaded(p) \/ ReportFailed(p))

FairSpec == Spec /\ Fairness

-----------------------------------------------------------------------------
(* Properties *)

\* Whoever reads a report under the number and name of a file reads that file's
\* report: one report per page.
ReportIsOfItsPage == "report" \in visible => drawn = page

\* A report of another file is never left standing once the report of this page
\* has arrived, in whatever order the fetches are answered.
WrongOnlyUntilLoaded ==
  "report" \in visible /\ drawn # page /\ data # NoData => data[page] = "done" /\ page \notin reports

\* Polling and late answers do not draw again a report that is being read.
DrawnOnce == ~redrawn

\* Whoever stays on a file that is ready gets its report or is told of a failure,
\* even when the answer of another page has cleared the flag.  The failure may be
\* that of another page, whose message replaces the one of this page.
ReadyIsDrawn ==
  \A p \in Pages :
    page = p /\ data[p] = "done" ~>
      \/ page # p
      \/ Reading(p)
      \/ note.what = "failed"
      \/ "error" \in visible

\* The page keeps polling through dropped connections until it has seen the end
\* of every file; only a refusal stops it earlier.
PollingReachesTheEnd ==
  AllFinal(status) ~> (poll.at = "stopped" /\ (data = status \/ "error" \in visible))
=============================================================================
