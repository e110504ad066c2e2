----------------------------- MODULE ReportStore -----------------------------
(***************************************************************************)
(* One account from its file to its saved report (UploadAnalyser in        *)
(* app/api/routes.py, ReportStore in app/core/report_store.py), with what  *)
(* the disk does: a write can be refused at any step, the process can die  *)
(* between any two, and a power failure takes what was never synced.       *)
(*                                                                         *)
(* A report is two files, the JSON and then the HTML, written by a thread  *)
(* that a cancelled request leaves behind.                                 *)
(***************************************************************************)
EXTENDS Naturals, FiniteSets

CONSTANTS
  Requests,  \* The accounts analysed, each a request of its own.
  Names,     \* The base names a report can get: case id, second and random part.
  None       \* No request, or no name.

ASSUME ReportAssumption ==
  /\ IsFiniteSet(Requests) /\ IsFiniteSet(Names)
  /\ Cardinality(Requests) <= Cardinality(Names)
  /\ None \notin Requests \cup Names

Kinds == {"json", "html"}
TempFiles == Requests \X Kinds
ReportFiles == Names \X Kinds

VARIABLES
  process,    \* "up", "closing" (the batch workers are cancelled) or "down".
  phase,      \* Where _analyse_rows() of each request is.
  name,       \* The base name each save has drawn.
  writer,     \* The thread of each save: the file it is at, and the next step of it.
  temp,       \* On disk: the temporary files.
  published,  \* On disk: the files under their names.
  linked,     \* History: requests whose links were given out, in an answer or a row of the CSV.
  troubled,   \* History: requests whose save was refused a write, or died with the process.
  powerLost   \* History: there was a power failure.

requestVars == <<phase, name, linked>>
diskVars == <<temp, published>>
vars == <<process, requestVars, writer, diskVars, troubled, powerLost>>

\* How much of its content a file has, and how much of that a power failure leaves.
Contents == {"part", "written", "synced"}
NoFile == [of |-> None, content |-> "none"]

Working == {"reading", "profile", "analysing"}
Steps == {"create", "write", "sync", "replace"}
Idle == [kind |-> "none", step |-> "none"]
Saved == [kind |-> "none", step |-> "saved"]
Raised == [kind |-> "none", step |-> "raised"]

Writes(r) == writer[r].step \in Steps

TypeOK ==
  /\ process \in {"up", "closing", "down"}
  /\ phase \in [Requests -> {"new", "saving", "answered", "failed", "cancelled"} \cup Working]
  /\ name \in [Requests -> Names \cup {None}]
  /\ writer \in [Requests -> [kind : Kinds, step : Steps] \cup {Idle, Saved, Raised}]
  /\ temp \in [TempFiles -> Contents \cup {"none"}]
  /\ published \in [ReportFiles -> [of : Requests, content : Contents] \cup {NoFile}]
  /\ linked \subseteq Requests
  /\ troubled \subseteq Requests
  /\ powerLost \in BOOLEAN

Init ==
  /\ process = "up"
  /\ phase = [r \in Requests |-> "new"]
  /\ name = [r \in Requests |-> None]
  /\ writer = [r \in Requests |-> Idle]
  /\ temp = [f \in TempFiles |-> "none"]
  /\ published = [f \in ReportFiles |-> NoFile]
  /\ linked = {}
  /\ troubled = {}
  /\ powerLost = FALSE

-----------------------------------------------------------------------------
(* _analyse_rows() *)

Goes(r, from, to) ==
  /\ phase[r] = from
  /\ phase' = [phase EXCEPT ![r] = to]
  /\ UNCHANGED <<process, diskVars, troubled, powerLost>>

Begin(r) == process = "up" /\ Goes(r, "new", "reading") /\ UNCHANGED <<name, linked, writer>>

\* The rows and then the profile have been read.
ReadOn(r) ==
  /\ Goes(r, "reading", "profile") \/ Goes(r, "profile", "analysing")
  /\ UNCHANGED <<name, linked, writer>>

\* The file, customer_info or the analysis gives an error, which becomes the
\* message of an HTTPException.
Fails(r) ==
  /\ \E from \in Working : Goes(r, from, "failed")
  /\ UNCHANGED <<name, linked, writer>>

\* Plausible slip: the name is the case id and the second only.
NameOfTheSecond(r, n) == name' = [name EXCEPT ![r] = n]

\* uuid4 never gives the same name twice.
DrawName(r, n) ==
  /\ \A other \in Requests : name[other] # n
  /\ name' = [name EXCEPT ![r] = n]

\* Plausible slip: the page is written before its data.
BeginWithPage(r) == writer' = [writer EXCEPT ![r] = [kind |-> "html", step |-> "create"]]

BeginSave(r) == writer' = [writer EXCEPT ![r] = [kind |-> "json", step |-> "create"]]

\* The account is assessed, and a thread starts to save the report.
Assessed(r) ==
  /\ Goes(r, "analysing", "saving")
  /\ \E n \in Names : DrawName(r, n)
  /\ BeginSave(r)
  /\ UNCHANGED linked

\* The thread is back and the request answers with the two links.
Answers(r) ==
  /\ writer[r] = Saved
  /\ Goes(r, "saving", "answered")
  /\ linked' = linked \cup {r}
  /\ UNCHANGED <<name, writer>>

\* An error while saving fails the request like any other.
SaveFailed(r) ==
  /\ writer[r] = Raised
  /\ Goes(r, "saving", "failed")
  /\ UNCHANGED <<name, linked, writer>>

-----------------------------------------------------------------------------
(* The thread: save() and _atomic_write() *)

\* The thread of r does this step and goes on with that one.
StepsOn(r, step, next) ==
  /\ Writes(r) /\ writer[r].step = step
  /\ writer' = [writer EXCEPT ![r].step = next]
  /\ UNCHANGED <<process, requestVars, troubled, powerLost>>

TempHas(r, content) == temp' = [temp EXCEPT ![<<r, writer[r].kind>>] = content]

Create(r) == StepsOn(r, "create", "write") /\ TempHas(r, "part") /\ UNCHANGED published
Write(r) == StepsOn(r, "write", "sync") /\ TempHas(r, "written") /\ UNCHANGED published

\* Plausible slip: flush() is taken for enough.
SyncNothing(r) == StepsOn(r, "sync", "replace") /\ UNCHANGED diskVars

Sync(r) == StepsOn(r, "sync", "replace") /\ TempHas(r, "synced") /\ UNCHANGED published

\* Which file comes after this one.
AfterReplace(r) ==
  IF writer[r].kind = "json" THEN [kind |-> "html", step |-> "create"] ELSE Saved

\* The temporary file takes the name, in place of what was there.
Replace(r) ==
  LET kind == writer[r].kind
  IN  /\ Writes(r) /\ writer[r].step = "replace"
      /\ published' = [published EXCEPT ![<<name[r], kind>>] = [of |-> r, content |-> temp[<<r, kind>>]]]
      /\ TempHas(r, "none")
      /\ writer' = [writer EXCEPT ![r] = AfterReplace(r)]
      /\ UNCHANGED <<process, requestVars, troubled, powerLost>>

Raise(r, step) ==
  /\ Writes(r) /\ writer[r].step = step
  /\ writer' = [writer EXCEPT ![r] = Raised]
  /\ UNCHANGED <<process, requestVars, published, powerLost>>

\* The disk refuses the temporary file or its content: temp_path is not set yet, so
\* what was written stays.
WriteRefused(r) ==
  /\ \E step \in {"create", "write", "sync"} : Raise(r, step)
  /\ troubled' = troubled \cup {r}
  /\ UNCHANGED temp

\* Plausible slip: nothing is tidied up.
ReplaceRefusedLeaves(r) == Raise(r, "replace") /\ UNCHANGED <<temp, troubled>>

\* The disk refuses the name: the temporary file is removed.
ReplaceRefused(r) == Raise(r, "replace") /\ TempHas(r, "none") /\ UNCHANGED troubled

-----------------------------------------------------------------------------
(* The process and the power *)

Abandoned == [r \in Requests |-> IF phase[r] \in Working \cup {"saving"} THEN "cancelled" ELSE phase[r]]

\* Shutdown cancels the requests; their threads go on.
Close ==
  /\ process = "up"
  /\ process' = "closing"
  /\ phase' = Abandoned
  /\ UNCHANGED <<name, linked, writer, diskVars, troubled, powerLost>>

Exit ==
  /\ process = "closing"
  /\ \A r \in Requests : ~Writes(r)
  /\ process' = "down"
  /\ UNCHANGED <<requestVars, writer, diskVars, troubled, powerLost>>

\* The requests and threads are gone.
Dies ==
  /\ process # "down"
  /\ process' = "down"
  /\ phase' = Abandoned
  /\ writer' = [r \in Requests |-> IF Writes(r) THEN Idle ELSE writer[r]]
  /\ troubled' = troubled \cup {r \in Requests : Writes(r)}
  /\ UNCHANGED <<name, linked>>

Crash == Dies /\ UNCHANGED <<diskVars, powerLost>>

Exists(f) == published[f] # NoFile
TempOf(f) == <<published[f].of, f[2]>>

\* The directory is never synced: a temporary file can be gone, and so can a name, with
\* its file or back to the temporary one.  Of content that was not synced a part is left.
PowerFailure ==
  /\ Dies
  /\ powerLost' = TRUE
  /\ \E gone \in SUBSET {f \in TempFiles : temp[f] # "none"},
        unnamed \in SUBSET {f \in ReportFiles : Exists(f)} :
       \E back \in SUBSET unnamed :
         /\ temp' = [f \in TempFiles |->
              IF f \in {TempOf(g) : g \in back} THEN "synced"
              ELSE IF f \in gone THEN "none"
              ELSE IF temp[f] = "written" THEN "part" ELSE temp[f]]
         /\ published' = [f \in ReportFiles |->
              IF f \in unnamed THEN NoFile
              ELSE IF published[f].content = "written" THEN [published[f] EXCEPT !.content = "part"]
              ELSE published[f]]

Restart ==
  /\ process = "down"
  /\ process' = "up"
  /\ UNCHANGED <<requestVars, writer, diskVars, troubled, powerLost>>

-----------------------------------------------------------------------------

RequestStep(r) ==
  Begin(r) \/ ReadOn(r) \/ Fails(r) \/ Assessed(r) \/ Answers(r) \/ SaveFailed(r)

WriterStep(r) ==
  Create(r) \/ Write(r) \/ Sync(r) \/ Replace(r) \/ WriteRefused(r) \/ ReplaceRefused(r)

Next ==
  \/ \E r \in Requests : RequestStep(r) \/ WriterStep(r)
  \/ Close \/ Exit \/ Crash \/ PowerFailure \/ Restart

Spec == Init /\ [][Next]_vars

-----------------------------------------------------------------------------
(* Properties *)

Has(r, kind) == name[r] # None /\ published[<<name[r], kind>>].of = r

\* A name is only ever given to a complete file, whatever was refused and whenever the
\* process died, and a power failure cannot take a part of it away.
PublishedIsWhole == \A f \in ReportFiles : published[f].content # "part"

\* The links that were given out, on the page or in the results CSV, lead to the two
\* files of that very analysis, after a crash and a restart too.
LinksLead == ~powerLost => \A r \in linked : Has(r, "json") /\ Has(r, "html")

\* A report page stands for a finished save: its data is there too, and its account is
\* not shown as failed.
PageMeansSaved ==
  ~powerLost => \A r \in Requests : Has(r, "html") => Has(r, "json") /\ phase[r] # "failed"

\* A temporary file that nobody is writing was left by a refused write or by the death
\* of the process; a refused name, a cancellation and a shutdown leave none.
LitterIsFromTrouble ==
  ~powerLost => \A f \in TempFiles : temp[f] # "none" => Writes(f[1]) \/ f[1] \in troubled
=============================================================================
