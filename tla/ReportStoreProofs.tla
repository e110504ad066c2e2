-------------------------- MODULE ReportStoreProofs --------------------------
(***************************************************************************)
(* Theorems about the saving of a report, for every finite set of requests *)
(* and at least as many names, wherever a write is refused and whenever    *)
(* the process dies or the power fails.                                    *)
(***************************************************************************)
EXTENDS ReportStore, TLAPS

USE ReportAssumption

-----------------------------------------------------------------------------
(* The inductive invariant *)

\* A request that has not come to its save has neither a name nor a thread, and no
\* two saves write under the same name.
NamesApart ==
  /\ \A r \in Requests : name[r] = None \/ phase[r] \in Working \cup {"new"} => writer[r] = Idle
  /\ \A r \in Requests : phase[r] \in Working \cup {"new"} => name[r] = None
  /\ \A r, s \in Requests : name[r] # None /\ name[r] = name[s] => r = s

\* How far the temporary file of a thread is, by its next step.
TempInStep ==
  \A r \in Requests :
    /\ writer[r].step = "sync" => temp[<<r, writer[r].kind>>] = "written"
    /\ writer[r].step = "replace" => temp[<<r, writer[r].kind>>] = "synced"

\* Only synced files have a name, and it is the name of their own save.
NamedWhenSynced ==
  \A f \in ReportFiles : Exists(f) =>
    published[f].content = "synced" /\ name[published[f].of] = f[1]

\* What is on disk, by where the thread is: the page comes last, and after it the
\* thread can only be done; its request is then not failed.
PageLast ==
  /\ \A r \in Requests : Has(r, "html") => writer[r] = Saved
  /\ \A r \in Requests : phase[r] = "failed" => writer[r] \in {Idle, Raised}
  /\ linked \subseteq {r \in Requests : writer[r] = Saved}
  /\ ~powerLost => \A r \in Requests : writer[r] = Saved => Has(r, "json") /\ Has(r, "html")
  /\ ~powerLost => \A r \in Requests : writer[r].kind = "html" => Has(r, "json")

\* A thread without trouble has one temporary file, the one it is at.
OneTemp ==
  ~powerLost => \A r \in Requests, k \in Kinds : temp[<<r, k>>] # "none" /\ r \notin troubled =>
    Writes(r) /\ writer[r].kind = k

IInv == TypeOK /\ NamesApart /\ TempInStep /\ NamedWhenSynced /\ PageLast /\ OneTemp

\* The invariant holds of an empty directory.
LEMMA IInvInit == Init => IInv
<1> SUFFICES ASSUME Init PROVE IInv
  OBVIOUS
<1> USE DEF Init, Idle, NoFile
<1>1. TypeOK
  BY DEF TypeOK, TempFiles, ReportFiles, Kinds
<1>2. NamesApart /\ TempInStep
  BY DEF NamesApart, TempInStep
<1>3. NamedWhenSynced
  BY DEF NamedWhenSynced, Exists
<1>4. PageLast
  BY DEF PageLast, Has, Saved
<1>5. OneTemp
  BY DEF OneTemp, TempFiles, Kinds
<1>6. QED
  BY <1>1, <1>2, <1>3, <1>4, <1>5 DEF IInv

-----------------------------------------------------------------------------
(* The request *)

\* A request that moves on without its thread: neither its save nor the disk is touched.
LEMMA GoesKeeps ==
  ASSUME IInv, NEW r \in Requests, NEW from, NEW to, Goes(r, from, to),
         UNCHANGED <<name, writer>>,
         \/ from \in Working \cup {"new"} /\ to \in Working \cup {"failed"}
         \/ from = "saving" /\ to = "answered"
         \/ from = "saving" /\ to = "failed" /\ writer[r] = Raised,
         linked' \subseteq linked \cup {s \in Requests : writer[s] = Saved}
  PROVE  IInv'
<1> USE DEF IInv
<1>1. TypeOK'
  BY DEF Goes, TypeOK, Working, diskVars
<1>2. /\ phase' = [phase EXCEPT ![r] = to] /\ phase[r] = from
      /\ UNCHANGED <<process, name, writer, temp, published, troubled, powerLost>>
  BY DEF Goes, diskVars
<1>3. NamesApart'
  BY <1>2 DEF NamesApart, Working, TypeOK
<1>4. TempInStep' /\ OneTemp'
  BY <1>2 DEF TempInStep, OneTemp, Writes
<1>5. NamedWhenSynced'
  BY <1>2 DEF NamedWhenSynced, Exists
<1>6. PageLast'
  BY <1>2 DEF PageLast, Has, TypeOK, NamesApart, Working
<1>7. QED
  BY <1>1, <1>3, <1>4, <1>5, <1>6

\* The save begins: a name of its own and a thread.
LEMMA AssessedKeeps ==
  ASSUME IInv, NEW r \in Requests, Assessed(r)
  PROVE  IInv'
<1> USE DEF IInv
<1>1. PICK n \in Names : DrawName(r, n)
  BY DEF Assessed
<1>2. /\ phase[r] = "analysing" /\ phase' = [phase EXCEPT ![r] = "saving"]
      /\ name[r] = None /\ name' = [name EXCEPT ![r] = n] /\ \A s \in Requests : name[s] # n
      /\ writer[r] = Idle /\ writer' = [writer EXCEPT ![r] = [kind |-> "json", step |-> "create"]]
      /\ UNCHANGED <<process, temp, published, troubled, powerLost, linked>>
  BY <1>1 DEF Assessed, Goes, DrawName, BeginSave, diskVars, NamesApart, Working
<1>3. TypeOK'
  BY <1>2 DEF TypeOK, Kinds, Steps
<1>4. NamesApart'
  BY <1>2 DEF NamesApart, Working, TypeOK
<1>5. TempInStep'
  BY <1>2 DEF TempInStep, TypeOK
<1>6. \A f \in ReportFiles : Exists(f) => name'[published[f].of] = f[1]
  BY <1>2 DEF NamedWhenSynced, TypeOK, ReportFiles, Exists, NoFile
<1>7. NamedWhenSynced'
  BY <1>2, <1>6 DEF NamedWhenSynced, Exists
<1>8. \A k \in Kinds : ~Has(r, k)'
  BY <1>2, <1>6 DEF Has, Exists, NoFile, TypeOK, ReportFiles, NamedWhenSynced
<1>9. \A s \in Requests \ {r}, k \in Kinds : Has(s, k)' = Has(s, k)
  BY <1>2 DEF Has, TypeOK
<1>10. PageLast'
  BY <1>2, <1>8, <1>9 DEF PageLast, Kinds, Saved, Idle, Raised, TypeOK
<1>11. OneTemp'
  <2>1. ~Writes(r)
    BY <1>2 DEF Writes, Idle, Steps
  <2>2. \A s \in Requests \ {r} : writer'[s] = writer[s] /\ (Writes(s)' <=> Writes(s))
    BY <1>2 DEF Writes, TypeOK
  <2>3. QED
    BY <1>2, <2>1, <2>2 DEF OneTemp
<1>12. QED
  BY <1>3, <1>4, <1>5, <1>7, <1>10, <1>11

-----------------------------------------------------------------------------
(* The thread *)

\* A step that writes to the temporary file the thread is at, and names no file.
LEMMA StepsOnKeeps ==
  ASSUME IInv, NEW r \in Requests, NEW step \in Steps, NEW next \in Steps, NEW content \in Contents,
         StepsOn(r, step, next), TempHas(r, content), UNCHANGED published,
         next = "sync" => content = "written",
         next = "replace" => content = "synced"
  PROVE  IInv'
<1> USE DEF IInv
<1> DEFINE kind == writer[r].kind
<1>1. /\ Writes(r) /\ kind \in Kinds /\ writer[r] \in [kind : Kinds, step : Steps]
      /\ writer[r] # Idle /\ writer[r] # Saved /\ writer[r] # Raised
      /\ writer' = [writer EXCEPT ![r] = [kind |-> kind, step |-> next]]
      /\ temp' = [temp EXCEPT ![<<r, kind>>] = content]
      /\ UNCHANGED <<process, phase, name, linked, published, troubled, powerLost>>
  <2>1. Writes(r) /\ kind \in Kinds /\ writer[r] \in [kind : Kinds, step : Steps]
    BY DEF StepsOn, TypeOK, Writes, Steps, Idle, Saved, Raised
  <2>2. [writer[r] EXCEPT !.step = next] = [kind |-> kind, step |-> next]
    BY <2>1
  <2>3. writer' = [writer EXCEPT ![r] = [kind |-> kind, step |-> next]]
    BY <2>1, <2>2 DEF StepsOn
  <2>4. writer[r] # Idle /\ writer[r] # Saved /\ writer[r] # Raised
    BY <2>1 DEF Kinds, Idle, Saved, Raised
  <2>5. QED
    BY <2>1, <2>3, <2>4 DEF StepsOn, TempHas, requestVars
<1>2. TypeOK'
  BY <1>1 DEF TypeOK, TempFiles
<1>3. NamesApart'
  BY <1>1 DEF NamesApart, TypeOK
<1>4. TempInStep'
  BY <1>1 DEF TempInStep, TypeOK, TempFiles
<1>5. NamedWhenSynced'
  BY <1>1 DEF NamedWhenSynced, Exists
<1>6. PageLast'
  <2>1. ~Has(r, "html") /\ r \notin linked /\ phase[r] # "failed"
    BY <1>1 DEF PageLast
  <2>2. \A s \in Requests, k \in Kinds : Has(s, k)' = Has(s, k)
    BY <1>1 DEF Has
  <2>3. /\ writer'[r] \notin {Idle, Saved, Raised} /\ writer'[r].kind = kind
        /\ \A s \in Requests \ {r} : writer'[s] = writer[s]
    BY <1>1 DEF TypeOK, Idle, Saved, Raised, Kinds
  <2>4. QED
    BY <1>1, <2>1, <2>2, <2>3 DEF PageLast, Kinds
<1>7. OneTemp'
  <2>1. Writes(r)' /\ writer'[r].kind = kind
    BY <1>1 DEF Writes, TypeOK
  <2>2. \A s \in Requests \ {r}, k \in Kinds :
          writer'[s] = writer[s] /\ (Writes(s)' <=> Writes(s)) /\ temp'[<<s, k>>] = temp[<<s, k>>]
    BY <1>1 DEF Writes, TypeOK, TempFiles
  <2>3. \A k \in Kinds : k # kind => temp'[<<r, k>>] = temp[<<r, k>>]
    BY <1>1 DEF TypeOK, TempFiles
  <2>4. QED
    BY <1>1, <2>1, <2>2, <2>3 DEF OneTemp
<1>8. QED
  BY <1>2, <1>3, <1>4, <1>5, <1>6, <1>7

\* The temporary file takes the name; the thread goes on to the page, or is done.
LEMMA ReplaceKeeps ==
  ASSUME IInv, NEW r \in Requests, Replace(r)
  PROVE  IInv'
<1> USE DEF IInv
<1>0. PICK kind \in Kinds : writer[r].kind = kind
  BY DEF Replace, Writes, TypeOK, Steps, Idle, Saved, Raised
<1> DEFINE file == <<name[r], kind>>
           next == IF kind = "json" THEN [kind |-> "html", step |-> "create"] ELSE Saved
<1>1. /\ Writes(r) /\ writer[r].kind = kind /\ writer[r].step = "replace"
      /\ writer[r] # Idle /\ writer[r] # Saved /\ writer[r] # Raised
      /\ name[r] \in Names /\ file \in ReportFiles /\ <<r, kind>> \in TempFiles
      /\ temp[<<r, kind>>] = "synced"
  BY <1>0 DEF Replace, TypeOK, Writes, Steps, Idle, Saved, Raised, NamesApart, TempInStep, ReportFiles, TempFiles
<1>2. /\ published' = [published EXCEPT ![file] = [of |-> r, content |-> "synced"]]
      /\ temp' = [temp EXCEPT ![<<r, kind>>] = "none"]
      /\ writer' = [writer EXCEPT ![r] = next]
      /\ UNCHANGED <<process, phase, name, linked, troubled, powerLost>>
  BY <1>1 DEF Replace, TempHas, AfterReplace, requestVars
<1>3. TypeOK'
  BY <1>1, <1>2 DEF TypeOK, Contents, Kinds, Steps
<1>4. NamesApart'
  BY <1>1, <1>2 DEF NamesApart, TypeOK
<1>5. TempInStep'
  BY <1>1, <1>2 DEF TempInStep, TypeOK, TempFiles, Saved
<1>6. NamedWhenSynced'
  BY <1>1, <1>2 DEF NamedWhenSynced, Exists, TypeOK, ReportFiles
<1>7. /\ Has(r, kind)'
      /\ \A s \in Requests, k \in Kinds : s # r \/ k # kind => (Has(s, k)' <=> Has(s, k))
  <2>1. ASSUME NEW s \in Requests, NEW k \in Kinds, s # r \/ k # kind, name[s] # None
        PROVE  published'[<<name[s], k>>] = published[<<name[s], k>>]
    BY <1>1, <1>2, <2>1 DEF TypeOK, ReportFiles, NamesApart
  <2>2. ASSUME NEW s \in Requests, NEW k \in Kinds, s # r \/ k # kind
        PROVE  Has(s, k)' <=> Has(s, k)
    BY <1>2, <2>1, <2>2 DEF Has
  <2>3. published'[file].of = r /\ name'[r] # None /\ name' = name
    BY <1>1, <1>2 DEF TypeOK
  <2>4. QED
    BY <2>2, <2>3 DEF Has
<1>8. PageLast'
  <2>1. ~Has(r, "html") /\ r \notin linked /\ phase[r] # "failed"
    BY <1>1 DEF PageLast
  <2>2. \A s \in Requests \ {r} : writer'[s] = writer[s]
    BY <1>2 DEF TypeOK
  <2>3. CASE kind = "json"
    BY <1>1, <1>2, <1>7, <2>1, <2>2, <2>3 DEF PageLast, Kinds, TypeOK, Saved
  <2>4. CASE kind = "html"
    <3>1. writer'[r] = Saved /\ Saved.kind # "html" /\ Has(r, "html")' /\ (Has(r, "json")' <=> Has(r, "json"))
      BY <1>1, <1>2, <1>7, <2>4 DEF Kinds, TypeOK, Saved
    <3>2. ~powerLost => Has(r, "json")
      BY <1>1, <2>4 DEF PageLast
    <3>3. \A s \in Requests \ {r} : (Has(s, "html")' <=> Has(s, "html")) /\ (Has(s, "json")' <=> Has(s, "json"))
      BY <1>7 DEF Kinds
    <3>4. QED
      BY <1>2, <2>1, <2>2, <3>1, <3>2, <3>3 DEF PageLast
  <2>5. QED
    BY <1>1, <2>3, <2>4 DEF Kinds
<1>9. OneTemp'
  <2>1. \A s \in Requests \ {r}, k \in Kinds :
          writer'[s] = writer[s] /\ (Writes(s)' <=> Writes(s)) /\ temp'[<<s, k>>] = temp[<<s, k>>]
    BY <1>1, <1>2 DEF Writes, TypeOK, TempFiles
  <2>2. ~powerLost /\ r \notin troubled => \A k \in Kinds : temp'[<<r, k>>] = "none"
    BY <1>1, <1>2 DEF TypeOK, TempFiles, OneTemp
  <2>3. QED
    BY <1>1, <1>2, <2>1, <2>2 DEF OneTemp
<1>10. QED
  BY <1>3, <1>4, <1>5, <1>6, <1>8, <1>9

\* A refused write ends the thread, and its temporary file is removed or counts as trouble.
LEMMA RaiseKeeps ==
  ASSUME IInv, NEW r \in Requests, NEW step, Raise(r, step),
         \/ troubled' = troubled \cup {r} /\ UNCHANGED temp
         \/ TempHas(r, "none") /\ UNCHANGED troubled
  PROVE  IInv'
<1> USE DEF IInv
<1> DEFINE kind == writer[r].kind
<1>1. /\ Writes(r) /\ kind \in Kinds
      /\ writer[r] # Idle /\ writer[r] # Saved /\ writer[r] # Raised
      /\ writer' = [writer EXCEPT ![r] = Raised]
      /\ UNCHANGED <<process, phase, name, linked, published, powerLost>>
  BY DEF Raise, TypeOK, Writes, Steps, Idle, Saved, Raised, requestVars
<1>2. \/ troubled' = troubled \cup {r} /\ temp' = temp
      \/ temp' = [temp EXCEPT ![<<r, kind>>] = "none"] /\ troubled' = troubled
  BY DEF TempHas
<1>3. TypeOK'
  BY <1>1, <1>2 DEF TypeOK, TempFiles
<1>4. NamesApart'
  BY <1>1 DEF NamesApart, TypeOK
<1>5. \A s \in Requests \ {r}, k \in Kinds :
          writer'[s] = writer[s] /\ (Writes(s)' <=> Writes(s)) /\ temp'[<<s, k>>] = temp[<<s, k>>]
  BY <1>1, <1>2 DEF Writes, TypeOK, TempFiles
<1>6. TempInStep'
  <2>1. \A s \in Requests : writer'[s].step \in {"sync", "replace"} => s # r /\ writer[s].kind \in Kinds
    BY <1>1 DEF TypeOK, Raised, Idle, Saved
  <2>2. QED
    BY <1>5, <2>1 DEF TempInStep
<1>7. NamedWhenSynced'
  BY <1>1 DEF NamedWhenSynced, Exists
<1>8. PageLast'
  <2>1. ~Has(r, "html") /\ r \notin linked
    BY <1>1 DEF PageLast
  <2>2. \A s \in Requests, k \in Kinds : Has(s, k)' = Has(s, k)
    BY <1>1 DEF Has
  <2>3. /\ writer'[r] = Raised /\ Raised # Saved /\ Raised.kind # "html"
        /\ \A s \in Requests \ {r} : writer'[s] = writer[s]
    BY <1>1 DEF TypeOK, Saved, Raised
  <2>4. QED
    BY <1>1, <2>1, <2>2, <2>3 DEF PageLast, Kinds
<1>9. OneTemp'
  <2> SUFFICES ASSUME ~powerLost', NEW s \in Requests, NEW k \in Kinds,
                      temp'[<<s, k>>] # "none", s \notin troubled'
               PROVE  Writes(s)' /\ writer'[s].kind = k
    BY DEF OneTemp
  <2>1. CASE s # r
    <3>1. temp[<<s, k>>] # "none" /\ s \notin troubled /\ ~powerLost
      BY <1>1, <1>2, <1>5, <2>1
    <3>2. Writes(s) /\ writer[s].kind = k
      BY <3>1 DEF OneTemp
    <3>3. QED
      BY <1>5, <2>1, <3>2
  <2>2. CASE s = r
    <3>1. troubled' = troubled /\ temp' = [temp EXCEPT ![<<r, kind>>] = "none"]
      BY <1>2, <2>2
    <3>2. <<r, kind>> \in TempFiles /\ <<r, k>> \in TempFiles /\ temp \in [TempFiles -> Contents \cup {"none"}]
      BY <1>1 DEF TypeOK, TempFiles
    <3>3. k # kind /\ temp[<<r, k>>] # "none"
      BY <2>2, <3>1, <3>2
    <3>4. k = kind
      BY <1>1, <2>2, <3>1, <3>3 DEF OneTemp
    <3>5. QED
      BY <3>3, <3>4
  <2>3. QED
    BY <2>1, <2>2
<1>10. QED
  BY <1>3, <1>4, <1>6, <1>7, <1>8, <1>9

-----------------------------------------------------------------------------
(* The process and the power *)

\* Cancelling the requests keeps every phase that the invariant speaks of.
LEMMA AbandonedFacts ==
  ASSUME TypeOK
  PROVE  /\ Abandoned \in [Requests -> {"new", "saving", "answered", "failed", "cancelled"} \cup Working]
         /\ \A r \in Requests : Abandoned[r] \in Working \cup {"new"} => Abandoned[r] = phase[r]
         /\ \A r \in Requests : Abandoned[r] = "failed" => phase[r] = "failed"
  BY DEF Abandoned, TypeOK, Working

\* Shutdown cancels the requests and leaves their threads and files alone.
LEMMA CloseKeeps == IInv /\ Close => IInv'
<1> SUFFICES ASSUME IInv, Close PROVE IInv'
  OBVIOUS
<1> USE DEF IInv
<1>1. /\ phase' = Abandoned /\ process' = "closing"
      /\ UNCHANGED <<name, linked, writer, temp, published, troubled, powerLost>>
  BY DEF Close, diskVars
<1>2. TypeOK'
  BY <1>1, AbandonedFacts DEF TypeOK
<1>3. NamesApart'
  BY <1>1, AbandonedFacts DEF NamesApart
<1>4. TempInStep' /\ OneTemp' /\ NamedWhenSynced'
  BY <1>1 DEF TempInStep, OneTemp, Writes, NamedWhenSynced, Exists
<1>5. PageLast'
  BY <1>1, AbandonedFacts DEF PageLast, Has
<1>6. QED
  BY <1>2, <1>3, <1>4, <1>5

\* What the death of the process does to the threads.
LEMMA DiesFacts ==
  ASSUME IInv, Dies
  PROVE  /\ phase' = Abandoned /\ process' = "down" /\ UNCHANGED <<name, linked>>
         /\ writer' \in [Requests -> {Idle, Saved, Raised}]
         /\ \A r \in Requests : writer[r] \in {Idle, Saved, Raised} => writer'[r] = writer[r]
         /\ \A r \in Requests : writer[r] \notin {Idle, Saved, Raised} => writer'[r] = Idle
         /\ \A r \in Requests : writer'[r] = Saved <=> writer[r] = Saved
         /\ \A r \in Requests : Writes(r) => r \in troubled'
         /\ troubled \subseteq troubled' /\ troubled' \subseteq Requests
         /\ \A r \in Requests : ~Writes(r)' /\ writer'[r].kind = "none" /\ writer'[r].step \notin Steps
  BY DEF IInv, Dies, TypeOK, Writes, Steps, Idle, Saved, Raised

\* The process dies and the disk stays as it is.
LEMMA CrashKeeps == IInv /\ Crash => IInv'
<1> SUFFICES ASSUME IInv, Crash PROVE IInv'
  OBVIOUS
<1> USE DEF IInv
<1>1. Dies /\ UNCHANGED <<temp, published, powerLost>>
  BY DEF Crash, diskVars
<1>2. TypeOK'
  BY <1>1, DiesFacts, AbandonedFacts DEF TypeOK
<1>3. NamesApart'
  BY <1>1, DiesFacts, AbandonedFacts DEF NamesApart
<1>4. TempInStep'
  BY <1>1, DiesFacts DEF TempInStep, Steps
<1>5. NamedWhenSynced'
  BY <1>1, DiesFacts DEF NamedWhenSynced, Exists
<1>6. PageLast'
  <2>1. \A r \in Requests, k \in Kinds : Has(r, k)' <=> Has(r, k)
    BY <1>1, DiesFacts DEF Has
  <2>2. QED
    BY <1>1, <2>1, DiesFacts, AbandonedFacts DEF PageLast, Kinds
<1>7. OneTemp'
  BY <1>1, DiesFacts DEF OneTemp
<1>8. QED
  BY <1>2, <1>3, <1>4, <1>5, <1>6, <1>7

\* The process dies, and a power failure takes what was never synced: no name is left
\* to a part of a file, because only synced files have names.
LEMMA PowerFailureKeeps == IInv /\ PowerFailure => IInv'
<1> SUFFICES ASSUME IInv, PowerFailure PROVE IInv'
  OBVIOUS
<1> USE DEF IInv
<1>1. Dies /\ powerLost' = TRUE
  BY DEF PowerFailure
<1>2. PICK gone \in SUBSET {f \in TempFiles : temp[f] # "none"},
           unnamed \in SUBSET {f \in ReportFiles : Exists(f)} :
      \E back \in SUBSET unnamed :
        /\ temp' = [f \in TempFiles |->
             IF f \in {TempOf(g) : g \in back} THEN "synced"
             ELSE IF f \in gone THEN "none"
             ELSE IF temp[f] = "written" THEN "part" ELSE temp[f]]
        /\ published' = [f \in ReportFiles |->
             IF f \in unnamed THEN NoFile
             ELSE IF published[f].content = "written" THEN [published[f] EXCEPT !.content = "part"]
             ELSE published[f]]
  BY DEF PowerFailure
<1>3. temp' \in [TempFiles -> Contents \cup {"none"}]
  BY <1>2 DEF TypeOK, Contents
<1>4. \A f \in ReportFiles : published'[f] = NoFile \/ published'[f] = published[f]
  BY <1>2 DEF NamedWhenSynced, Exists, NoFile
<1>5. published' \in [ReportFiles -> [of : Requests, content : Contents] \cup {NoFile}]
  <2>1. DOMAIN published' = ReportFiles /\ published' = [f \in ReportFiles |-> published'[f]]
    BY <1>2
  <2>2. QED
    BY <1>4, <2>1 DEF TypeOK
<1>6. TypeOK'
  BY <1>1, <1>3, <1>5, DiesFacts, AbandonedFacts DEF TypeOK
<1>7. NamesApart'
  BY <1>1, DiesFacts, AbandonedFacts DEF NamesApart
<1>8. TempInStep'
  BY <1>1, DiesFacts DEF TempInStep, Steps
<1>9. NamedWhenSynced'
  BY <1>1, <1>4, DiesFacts DEF NamedWhenSynced, Exists
<1>10. PageLast'
  <2>1. ASSUME NEW r \in Requests, Has(r, "html")' PROVE Has(r, "html")
    <3>1. name[r] \in Names /\ <<name[r], "html">> \in ReportFiles /\ UNCHANGED name
      BY <1>1, <2>1, DiesFacts DEF Has, TypeOK, ReportFiles, Kinds
    <3>2. QED
      BY <1>4, <2>1, <3>1 DEF Has, NoFile
  <2>2. QED
    BY <1>1, <2>1, DiesFacts, AbandonedFacts DEF PageLast
<1>11. OneTemp'
  BY <1>1 DEF OneTemp
<1>12. QED
  BY <1>6, <1>7, <1>8, <1>9, <1>10, <1>11

-----------------------------------------------------------------------------
(* The theorems *)

\* Every step, with every refusal and every crash, keeps the invariant.
LEMMA IInvStep == IInv /\ [Next]_vars => IInv'
<1> SUFFICES ASSUME IInv, [Next]_vars PROVE IInv'
  OBVIOUS
<1>1. ASSUME NEW r \in Requests, RequestStep(r) PROVE IInv'
  <2>1. CASE Assessed(r)
    BY <2>1, AssessedKeeps
  <2>2. CASE Begin(r) \/ ReadOn(r) \/ Fails(r)
    <3>1. PICK from \in Working \cup {"new"}, to \in Working \cup {"failed"} : Goes(r, from, to)
      BY <2>2 DEF Begin, ReadOn, Fails, Working
    <3>2. UNCHANGED <<name, writer, linked>>
      BY <2>2 DEF Begin, ReadOn, Fails
    <3>3. QED
      BY <3>1, <3>2, GoesKeeps
  <2>3. CASE Answers(r) \/ SaveFailed(r)
    BY <2>3, GoesKeeps DEF Answers, SaveFailed
  <2>4. QED
    BY <1>1, <2>1, <2>2, <2>3 DEF RequestStep
<1>2. ASSUME NEW r \in Requests, WriterStep(r) PROVE IInv'
  <2>1. CASE Create(r)
    BY <2>1, StepsOnKeeps DEF Create, Steps, Contents
  <2>2. CASE Write(r)
    BY <2>2, StepsOnKeeps DEF Write, Steps, Contents
  <2>3. CASE Sync(r)
    BY <2>3, StepsOnKeeps DEF Sync, Steps, Contents
  <2>4. CASE Replace(r)
    BY <2>4, ReplaceKeeps
  <2>5. CASE WriteRefused(r) \/ ReplaceRefused(r)
    BY <2>5, RaiseKeeps DEF WriteRefused, ReplaceRefused
  <2>6. QED
    BY <1>2, <2>1, <2>2, <2>3, <2>4, <2>5 DEF WriterStep
<1>3. ASSUME UNCHANGED <<phase, name, linked, writer, temp, published, troubled, powerLost>>,
             process' \in {"up", "closing", "down"}
      PROVE  IInv'
  BY <1>3 DEF IInv, TypeOK, NamesApart, TempInStep, NamedWhenSynced, Exists, PageLast, Has,
    OneTemp, Writes
<1>4. CASE Exit \/ Restart \/ UNCHANGED vars
  BY <1>3, <1>4 DEF Exit, Restart, vars, requestVars, diskVars, IInv, TypeOK
<1>5. QED
  BY <1>1, <1>2, <1>4, CloseKeeps, CrashKeeps, PowerFailureKeeps DEF Next

\* So it holds for good.
LEMMA IInvAlways == Spec => []IInv
  BY IInvInit, IInvStep, PTL DEF Spec

\* Every variable keeps its type.
THEOREM TypeCorrect == Spec => []TypeOK
  BY IInvAlways, PTL DEF IInv

\* Whatever is refused and whenever the process dies or the power fails, a file with a
\* name is complete, and on disk.
THEOREM NamedFilesAreWhole == Spec => []PublishedIsWhole
<1>1. IInv => PublishedIsWhole
  BY DEF IInv, NamedWhenSynced, PublishedIsWhole, Exists, NoFile
<1>2. QED
  BY <1>1, IInvAlways, PTL

\* The links in an answer or in a row of the results CSV lead to the two files of that
\* analysis, after a crash and a restart too.
THEOREM LinksAreGood == Spec => []LinksLead
<1>1. IInv => LinksLead
  BY DEF IInv, PageLast, LinksLead
<1>2. QED
  BY <1>1, IInvAlways, PTL

\* A page on disk has its data beside it, and its account is not shown as failed.
THEOREM PageIsOfASave == Spec => []PageMeansSaved
<1>1. IInv => PageMeansSaved
  BY DEF IInv, PageLast, PageMeansSaved, Saved, Idle, Raised
<1>2. QED
  BY <1>1, IInvAlways, PTL

\* A temporary file nobody is writing was left by a refused write or a death, and
\* never by a refused name, a cancellation or a shutdown.
THEOREM LitterExplained == Spec => []LitterIsFromTrouble
<1>1. IInv => LitterIsFromTrouble
  BY DEF IInv, OneTemp, LitterIsFromTrouble, TempFiles
<1>2. QED
  BY <1>1, IInvAlways, PTL

=============================================================================
