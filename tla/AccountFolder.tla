--------------------------- MODULE AccountFolder ---------------------------
(***************************************************************************)
(* The scan of the account folder (app/core/account_folder.py) with the    *)
(* occupation list behind it (app/core/reference_data.py), as the folder   *)
(* routes call it (app/api/routes.py).                                     *)
(*                                                                         *)
(* Every request scans in a thread of its own.  The files belong to others *)
(* and may be replaced, removed or put back between any two reads.  What a *)
(* file holds is not looked into: a content is a number that no other      *)
(* content of that file has, as its size and modification time.            *)
(***************************************************************************)
EXTENDS Integers

CONSTANTS
  Files,        \* The names of Parquet files in the folder.
  CustomerInfo, \* customer_info.
  Occupations,  \* The occupation list.
  Requests,     \* The threads that call scan_folder().
  MaxChanges,   \* Bound: the changes of files.
  None          \* No request.

ASSUME FolderAssumption ==
  /\ CustomerInfo # Occupations
  /\ {CustomerInfo, Occupations} \cap Files = {}
  /\ None \notin Requests
  /\ MaxChanges \in Nat

VARIABLES
  disk,      \* The content of each file; Gone if it is not there.
  changes,   \* History: how many changes there were.
  labels,    \* _load_occupation_map's cache: the content of the list it holds.
  lock,      \* _cache_lock: the request that scans, or None.
  cache,     \* _cache: the key and the scan of the last scan.
  at,        \* Where each request is.
  key,       \* The fingerprints each request has taken.
  scan,      \* What each request has read of each file.
  since,     \* History: what each file has held since the request began.
  scans      \* History: the scans made before the first change.

local == <<at, key, scan>>
vars == <<disk, changes, labels, lock, cache, local, since, scans>>

Sources == Files \cup {CustomerInfo, Occupations}

Gone == 0
Unread == -1
Unlisted == -2    \* In a key: the file was not in the listing at all.
Contents == Gone..(MaxChanges + 1)

Blank == [s \in Sources |-> Unread]
NoCache == [key |-> Blank, scan |-> Blank]

TypeOK ==
  /\ disk \in [Sources -> Contents]
  /\ changes \in 0..MaxChanges
  /\ labels \in Contents \cup {Unread}
  /\ lock \in Requests \cup {None}
  /\ cache \in [key : [Sources -> Unlisted..(MaxChanges + 1)], scan : [Sources -> Unread..(MaxChanges + 1)]]
  /\ at \in [Requests -> {"idle", "list", "glob", "stat", "lock", "reading", "returned", "failed"}]
  /\ key \in [Requests -> [Sources -> Unlisted..(MaxChanges + 1)]]
  /\ scan \in [Requests -> [Sources -> Unread..(MaxChanges + 1)]]
  /\ since \in [Requests -> [Sources -> SUBSET Contents]]
  /\ scans \in Nat
  /\ \A r \in Requests : at[r] = "reading" <=> lock = r

Init ==
  /\ disk \in [Sources -> {Gone, 1}]
  /\ changes = 0
  /\ labels = Unread
  /\ lock = None
  /\ cache = NoCache
  /\ at = [r \in Requests |-> "idle"]
  /\ key = [r \in Requests |-> Blank]
  /\ scan = [r \in Requests |-> Blank]
  /\ since = [r \in Requests |-> [s \in Sources |-> {}]]
  /\ scans = 0

-----------------------------------------------------------------------------
(* The files change *)

Change(s) ==
  /\ changes < MaxChanges
  /\ changes' = changes + 1
  /\ \E content \in {Gone, changes + 2} \ {disk[s]} :
       /\ disk' = [disk EXCEPT ![s] = content]
       /\ since' = [r \in Requests |->
            IF at[r] = "idle" THEN since[r] ELSE [since[r] EXCEPT ![s] = @ \cup {content}]]
  /\ UNCHANGED <<labels, lock, cache, local, scans>>

-----------------------------------------------------------------------------
(* scan_folder() up to the lock *)

Goes(r, place) == at' = [at EXCEPT ![r] = place]

Ask(r) ==
  /\ at[r] = "idle"
  /\ Goes(r, "list")
  /\ since' = [since EXCEPT ![r] = [s \in Sources |-> {disk[s]}]]
  /\ UNCHANGED <<disk, changes, labels, lock, cache, key, scan, scans>>

\* The list is read once in the life of the process, also when it is missing: then
\* it is empty for good, and every request is refused.
CheckList(r) ==
  /\ at[r] = "list"
  /\ labels' = IF labels = Unread THEN disk[Occupations] ELSE labels
  /\ Goes(r, IF labels' = Gone THEN "failed" ELSE "glob")
  /\ UNCHANGED <<disk, changes, lock, cache, key, scan, since, scans>>

Glob(r) ==
  /\ at[r] = "glob"
  /\ key' = [key EXCEPT ![r] =
       [s \in Sources |-> IF s \in Files /\ disk[s] = Gone THEN Unlisted ELSE Unread]]
  /\ Goes(r, "stat")
  /\ UNCHANGED <<disk, changes, labels, lock, cache, scan, since, scans>>

Fingerprint(r, sources) ==
  /\ at[r] = "stat"
  /\ key' = [key EXCEPT ![r] =
       [s \in Sources |-> IF key[r][s] = Unlisted \/ s \notin sources THEN key[r][s] ELSE disk[s]]]
  /\ Goes(r, "lock")
  /\ UNCHANGED <<disk, changes, labels, lock, cache, scan, since, scans>>

\* Plausible slip: the key is made of the folder alone.
StatFolderOnly(r) == Fingerprint(r, Files)

Stat(r) == Fingerprint(r, Sources)

-----------------------------------------------------------------------------
(* Under the lock *)

StartScan(r) ==
  /\ Goes(r, "reading")
  /\ lock' = r
  /\ scan' = [scan EXCEPT ![r] =
       [s \in Sources |-> IF key[r][s] = Unlisted THEN Gone ELSE Unread]]

\* Plausible slip: whoever has waited for the lock scans again.
ScanAgain(r) ==
  /\ at[r] = "lock" /\ lock = None
  /\ StartScan(r)
  /\ UNCHANGED <<disk, changes, labels, cache, key, since, scans>>

TakeLock(r) ==
  /\ at[r] = "lock" /\ lock = None
  /\ \/ /\ cache.key = key[r]
        /\ scan' = [scan EXCEPT ![r] = cache.scan]
        /\ Goes(r, "returned")
        /\ UNCHANGED lock
     \/ cache.key # key[r] /\ StartScan(r)
  /\ UNCHANGED <<disk, changes, labels, cache, key, since, scans>>

\* The listed files are read by a pool of threads, in any order; one that has gone
\* since is listed as unreadable.
ReadFile(r, f) ==
  /\ at[r] = "reading" /\ scan[r][f] = Unread
  /\ scan' = [scan EXCEPT ![r][f] = disk[f]]
  /\ UNCHANGED <<disk, changes, labels, lock, cache, at, key, since, scans>>

AllRead(r) == at[r] = "reading" /\ \A f \in Files : scan[r][f] # Unread

\* customer_info is read only if an account was found, and the scan fails without it.
NeedsProfiles(r) == \E f \in Files : scan[r][f] # Gone

\* Plausible slip: the lock is released by hand, after the scan.
JoinFailsLocked(r) ==
  /\ AllRead(r) /\ NeedsProfiles(r) /\ disk[CustomerInfo] = Gone
  /\ Goes(r, "failed")
  /\ UNCHANGED <<disk, changes, labels, lock, cache, key, scan, since, scans>>

JoinFails(r) ==
  /\ AllRead(r) /\ NeedsProfiles(r) /\ disk[CustomerInfo] = Gone
  /\ Goes(r, "failed")
  /\ lock' = None
  /\ UNCHANGED <<disk, changes, labels, cache, key, scan, since, scans>>

\* The labels are those of the list as first read, whatever it holds by now.
Join(r) ==
  /\ AllRead(r)
  /\ NeedsProfiles(r) => disk[CustomerInfo] # Gone
  /\ scan' = [scan EXCEPT ![r][Occupations] = labels,
                          ![r][CustomerInfo] = IF NeedsProfiles(r) THEN disk[CustomerInfo] ELSE Unread]
  /\ cache' = [key |-> key[r], scan |-> scan'[r]]
  /\ scans' = IF changes = 0 THEN scans + 1 ELSE scans
  /\ Goes(r, "returned")
  /\ lock' = None
  /\ UNCHANGED <<disk, changes, labels, key, since>>

Leave(r) ==
  /\ at[r] \in {"returned", "failed"}
  /\ Goes(r, "idle")
  /\ key' = [key EXCEPT ![r] = Blank]
  /\ scan' = [scan EXCEPT ![r] = Blank]
  /\ since' = [since EXCEPT ![r] = [s \in Sources |-> {}]]
  /\ UNCHANGED <<disk, changes, labels, lock, cache, scans>>

-----------------------------------------------------------------------------
Works(r) ==
  \/ CheckList(r) \/ Glob(r) \/ Stat(r) \/ TakeLock(r)
  \/ (\E f \in Files : ReadFile(r, f)) \/ JoinFails(r) \/ Join(r) \/ Leave(r)

Next == (\E s \in Sources : Change(s)) \/ (\E r \in Requests : Ask(r) \/ Works(r))

Spec == Init /\ [][Next]_vars

\* Threads go on, and one that waits for the lock is not passed over forever.
Fairness ==
  \A r \in Requests : WF_vars(Works(r)) /\ SF_vars(TakeLock(r))

FairSpec == Spec /\ Fairness

-----------------------------------------------------------------------------
(* Properties *)

\* No file was missing when the request took its fingerprints.  Missing files all
\* look alike, so a scan made when one had just been put back can answer a later
\* request that finds it missing again.
AllStated(r) == \A s \in Files \cup {CustomerInfo} : key[r][s] # Gone

\* A request gets nothing older than itself: each file of the scan is as it was at
\* some moment between the request and its answer, whoever made the scan and
\* whatever changed while it was made.
FreshScan ==
  \A r \in Requests : at[r] = "returned" /\ AllStated(r) =>
    \A s \in Files \cup {CustomerInfo} : scan[r][s] \in since[r][s] \cup {Unread}

\* While nothing has changed the folder is scanned once, however many ask at once.
UnchangedScannedOnce == scans <= 1

\* Every request is answered or refused, also when the scan of another has failed.
EveryRequestEnds ==
  \A r \in Requests : at[r] = "list" ~> at[r] \in {"returned", "failed"}
=============================================================================
