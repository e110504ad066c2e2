------------------------ MODULE AccountFolderProofs ------------------------
(***************************************************************************)
(* What holds of the scan of the account folder for any number of files,   *)
(* of requests and of changes.                                             *)
(*                                                                         *)
(* A request that finds its own fingerprints in the cache is handed a scan *)
(* it did not make.  That this scan is not older than the request needs    *)
(* what IInv says of every key and of what was read under it: as long as   *)
(* the file is as in the key the reading is of just that content, and a    *)
(* content that has gone never comes back.                                 *)
(***************************************************************************)
EXTENDS AccountFolder, TLAPS

\* The sources whose content makes the answer; the occupation list is read once.
Read == Files \cup {CustomerInfo}

\* A content is new: none on the disk or in a key has a number still to come.
Past ==
  \A s \in Sources :
    /\ disk[s] <= changes + 1
    /\ cache.key[s] <= changes + 1
    /\ \A r \in Requests : key[r][s] <= changes + 1

KeysTaken ==
  \A r \in Requests, s \in Sources :
    /\ at[r] \in {"idle", "list", "glob"} => key[r][s] = Unread
    /\ at[r] = "stat" => key[r][s] \in {Unread, Unlisted}
    /\ at[r] \in {"lock", "reading", "returned"} => key[r][s] # Unread
    /\ key[r][s] = Unlisted => s \in Files

Watched ==
  \A r \in Requests, s \in Sources :
    at[r] # "idle" =>
      /\ disk[s] \in since[r][s]
      /\ key[r][s] = Unlisted => Gone \in since[r][s]

\* What was read of s under a key that says k: a file that was not listed counts as
\* gone, and of one that was there every request with that key may be told.
Agrees(k, x, s) ==
  x # Unread =>
    /\ k = Unlisted => x = Gone
    /\ k > 0 =>
         /\ disk[s] = k => x = k
         /\ \A r \in Requests : key[r][s] = k => x \in since[r][s]

ReadsAgree ==
  \A r \in Requests, s \in Read :
    at[r] = "reading" =>
      /\ Agrees(key[r][s], scan[r][s], s)
      /\ key[r][s] = Unlisted => scan[r][s] = Gone

CacheAgrees == \A s \in Read : Agrees(cache.key[s], cache.scan[s], s)

\* Until the first change all requests take one key, and once there is a scan it
\* is the one of that key.
Listing == [s \in Sources |-> IF s \in Files /\ disk[s] = Gone THEN Unlisted ELSE Unread]
Settled == [s \in Sources |-> IF s \in Files /\ disk[s] = Gone THEN Unlisted ELSE disk[s]]

OneKey ==
  /\ scans \in {0, 1}
  /\ changes = 0 =>
       /\ \A r \in Requests :
            /\ at[r] = "stat" => key[r] = Listing
            /\ at[r] \in {"lock", "reading"} => key[r] = Settled
       /\ scans = 1 => cache.key = Settled /\ \A r \in Requests : at[r] # "reading"

IInv == TypeOK /\ Past /\ KeysTaken /\ Watched /\ ReadsAgree /\ CacheAgrees /\ FreshScan /\ OneKey

-----------------------------------------------------------------------------
(* Beginning *)

\* The invariant holds before the first request.
LEMMA IInvInit == Init => IInv
<1> SUFFICES ASSUME Init
             PROVE  IInv
  OBVIOUS
<1> USE FolderAssumption
<1>1. TypeOK
  BY DEF Init, TypeOK, Sources, Contents, Gone, Unread, Unlisted, NoCache, Blank
<1>2. Past /\ KeysTaken /\ Watched
  BY DEF Init, Past, KeysTaken, Watched, NoCache, Blank, Gone, Unread, Unlisted
<1>3. ReadsAgree /\ CacheAgrees
  BY DEF Init, ReadsAgree, CacheAgrees, Agrees, NoCache, Blank, Read, Sources, Unread
<1>4. FreshScan /\ OneKey
  BY DEF Init, FreshScan, OneKey
<1>5. QED
  BY <1>1, <1>2, <1>3, <1>4 DEF IInv

\* What was read under the key of a request that found every file is what the
\* request may be told.
LEMMA MayBeTold ==
  ASSUME IInv, NEW r \in Requests, NEW s \in Read, NEW x,
         at[r] \in {"lock", "reading"}, key[r][s] # Gone, Agrees(key[r][s], x, s)
  PROVE  x \in since[r][s] \cup {Unread}
<1>1. s \in Sources
  BY DEF Read, Sources
<1>2. key[r][s] \in Unlisted..(MaxChanges + 1)
  BY <1>1 DEF IInv, TypeOK
<1>3. key[r][s] # Unread
  BY <1>1 DEF IInv, KeysTaken
<1>4. CASE key[r][s] = Unlisted
  <2>1. Gone \in since[r][s]
    BY <1>1, <1>4 DEF IInv, Watched
  <2>2. QED
    BY <1>4, <2>1 DEF Agrees
<1>5. CASE key[r][s] > 0
  BY <1>5 DEF Agrees
<1>6. QED
  BY <1>2, <1>3, <1>4, <1>5, FolderAssumption DEF Unlisted, Unread, Gone

\* Agrees(k, x, s) of the next state.
StillAgrees(k, x, s) ==
  x # Unread =>
    /\ k = Unlisted => x = Gone
    /\ k > 0 =>
         /\ disk'[s] = k => x = k
         /\ \A r \in Requests : key'[r][s] = k => x \in since'[r][s]

\* A step that neither reads nor answers leaves the readings as they agree if it does
\* so under any one key.
LEMMA ReadingsStay ==
  ASSUME IInv, UNCHANGED cache,
         \A r \in Requests :
           at'[r] = "reading" => at[r] = "reading" /\ key'[r] = key[r] /\ scan'[r] = scan[r],
         \A k \in Int, s \in Read : \A x :
           k <= changes + 1 /\ Agrees(k, x, s) => StillAgrees(k, x, s)
  PROVE  ReadsAgree' /\ CacheAgrees'
<1>1. \A s \in Read : s \in Sources
  BY DEF Read, Sources
<1>2. ASSUME NEW s \in Read
      PROVE  StillAgrees(cache.key[s], cache.scan[s], s)
  <2>1. cache.key[s] \in Int /\ cache.key[s] <= changes + 1
    BY <1>1 DEF IInv, TypeOK, Past
  <2>2. Agrees(cache.key[s], cache.scan[s], s)
    BY DEF IInv, CacheAgrees
  <2>3. QED
    BY <2>1, <2>2
<1>3. ASSUME NEW r \in Requests, NEW s \in Read, at[r] = "reading"
      PROVE  StillAgrees(key[r][s], scan[r][s], s)
  <2>1. key[r][s] \in Int /\ key[r][s] <= changes + 1
    BY <1>1 DEF IInv, TypeOK, Past
  <2>2. Agrees(key[r][s], scan[r][s], s)
    BY <1>3 DEF IInv, ReadsAgree
  <2>3. QED
    BY <2>1, <2>2
<1>4. CacheAgrees'
  BY <1>2 DEF CacheAgrees, Agrees, StillAgrees
<1>5. ReadsAgree'
  <2> SUFFICES ASSUME NEW r \in Requests, NEW s \in Read, at'[r] = "reading"
               PROVE  /\ Agrees(key[r][s], scan[r][s], s)'
                      /\ key'[r][s] = Unlisted => scan'[r][s] = Gone
    BY DEF ReadsAgree
  <2>1. StillAgrees(key[r][s], scan[r][s], s) /\ key'[r] = key[r] /\ scan'[r] = scan[r]
    BY <1>3
  <2>2. key[r][s] = Unlisted => scan[r][s] = Gone
    BY DEF IInv, ReadsAgree
  <2>3. QED
    BY <2>1, <2>2 DEF Agrees, StillAgrees
<1>6. QED
  BY <1>4, <1>5

-----------------------------------------------------------------------------
(* The files change *)

\* A content that comes is not in any key; one that goes takes away the only reason
\* for a reading to be of just that content.
LEMMA ChangeKeeps ==
  ASSUME IInv, NEW s \in Sources, Change(s)
  PROVE  IInv'
<1> USE FolderAssumption
<1>1. PICK content \in {Gone, changes + 2} \ {disk[s]} :
        /\ disk' = [disk EXCEPT ![s] = content]
        /\ since' = [r \in Requests |->
             IF at[r] = "idle" THEN since[r] ELSE [since[r] EXCEPT ![s] = @ \cup {content}]]
  BY DEF Change
<1>2. changes < MaxChanges /\ changes' = changes + 1
  BY DEF Change
<1>3. UNCHANGED <<labels, lock, cache, at, key, scan, scans>>
  BY DEF Change, local
<1>4. changes \in Nat /\ content \in Contents
  BY <1>1, <1>2 DEF IInv, TypeOK, Contents, Gone
<1>5. TypeOK'
  <2>1. disk' \in [Sources -> Contents] /\ since' \in [Requests -> [Sources -> SUBSET Contents]]
    BY <1>1, <1>4 DEF IInv, TypeOK
  <2>2. changes' \in 0..MaxChanges
    BY <1>2, <1>4
  <2>3. QED
    BY <1>3, <2>1, <2>2 DEF IInv, TypeOK
<1>6. Past'
  <2> SUFFICES ASSUME NEW q \in Sources
               PROVE  /\ disk'[q] <= changes + 2
                      /\ cache.key[q] <= changes + 2
                      /\ \A r \in Requests : key[r][q] <= changes + 2
    BY <1>2, <1>3, <1>4 DEF Past
  <2>1. disk[q] \in Int /\ cache.key[q] \in Int /\ \A r \in Requests : key[r][q] \in Int
    BY DEF IInv, TypeOK, Contents
  <2>2. disk[q] <= changes + 1 /\ cache.key[q] <= changes + 1 /\ \A r \in Requests : key[r][q] <= changes + 1
    BY DEF IInv, Past
  <2>3. disk'[q] = disk[q] \/ disk'[q] = Gone \/ disk'[q] = changes + 2
    BY <1>1 DEF IInv, TypeOK
  <2>4. QED
    BY <2>1, <2>2, <2>3, <1>4 DEF Gone
<1>7. KeysTaken'
  BY <1>3 DEF IInv, KeysTaken
<1>8. \A r \in Requests, q \in Sources : since[r][q] \subseteq since'[r][q]
  BY <1>1 DEF IInv, TypeOK
<1>9. Watched'
  <2> SUFFICES ASSUME NEW r \in Requests, NEW q \in Sources, at[r] # "idle"
               PROVE  /\ disk'[q] \in since'[r][q]
                      /\ key[r][q] = Unlisted => Gone \in since'[r][q]
    BY <1>3 DEF Watched
  <2>1. disk[q] \in since[r][q] /\ (key[r][q] = Unlisted => Gone \in since[r][q])
    BY DEF IInv, Watched
  <2>2. disk'[q] = disk[q] \/ (q = s /\ disk'[q] = content)
    BY <1>1 DEF IInv, TypeOK
  <2>3. content \in since'[r][s]
    BY <1>1 DEF IInv, TypeOK
  <2>4. QED
    BY <2>1, <2>2, <2>3, <1>8
<1>10. ASSUME NEW k \in Int, NEW x, NEW q \in Read, k <= changes + 1, Agrees(k, x, q)
       PROVE  StillAgrees(k, x, q)
  <2>1. q \in Sources
    BY DEF Read, Sources
  <2>2. disk'[q] = disk[q] \/ disk'[q] = Gone \/ disk'[q] = changes + 2
    BY <1>1, <2>1 DEF IInv, TypeOK
  <2>3. k > 0 /\ disk'[q] = k => disk[q] = k
    BY <1>4, <1>10, <2>2 DEF Gone
  <2>4. QED
    BY <1>3, <1>8, <1>10, <2>1, <2>3 DEF Agrees, StillAgrees
<1>11. ReadsAgree' /\ CacheAgrees'
  BY <1>3, <1>10, ReadingsStay
<1>12. FreshScan'
  <2>1. \A q \in Read : q \in Sources
    BY DEF Read, Sources
  <2>2. QED
    BY <1>3, <1>8, <2>1 DEF IInv, FreshScan, AllStated, Read
<1>13. OneKey'
  BY <1>2, <1>3, <1>4 DEF IInv, OneKey
<1>14. QED
  BY <1>5, <1>6, <1>7, <1>9, <1>11, <1>12, <1>13 DEF IInv

-----------------------------------------------------------------------------
(* Before the lock *)

\* A request that comes in has seen nothing yet.
LEMMA AskKeeps ==
  ASSUME IInv, NEW r \in Requests, Ask(r)
  PROVE  IInv'
<1> USE FolderAssumption
<1>1. /\ at[r] = "idle"
      /\ at' = [at EXCEPT ![r] = "list"]
      /\ since' = [since EXCEPT ![r] = [s \in Sources |-> {disk[s]}]]
      /\ UNCHANGED <<disk, changes, labels, lock, cache, key, scan, scans>>
  BY DEF Ask, Goes
<1>t. TypeOK
  BY DEF IInv
<1>2. TypeOK'
  BY <1>1, <1>t DEF TypeOK
<1>3. Past' /\ KeysTaken'
  BY <1>1, <1>t DEF IInv, Past, KeysTaken, TypeOK
<1>4. Watched'
  <2>1. \A s \in Sources : key[r][s] = Unread
    BY <1>1 DEF IInv, KeysTaken
  <2>2. QED
    BY <1>1, <1>t, <2>1 DEF IInv, Watched, TypeOK, Unread, Unlisted
<1>5. \A s \in Read : s \in Sources
  BY DEF Read, Sources
<1>6. \A s \in Read : key[r][s] = Unread
  BY <1>1, <1>5 DEF IInv, KeysTaken
<1>7. \A q \in Requests, s \in Read : since'[q][s] = since[q][s] \/ key[q][s] = Unread
  BY <1>1, <1>t, <1>6 DEF TypeOK
<1>8. ReadsAgree' /\ CacheAgrees'
  <2>1. ASSUME NEW k \in Int, NEW x, NEW s \in Read, Agrees(k, x, s)
        PROVE  StillAgrees(k, x, s)
    <3>1. k > 0 => \A q \in Requests : key[q][s] = k => since'[q][s] = since[q][s]
      BY <1>7 DEF Unread
    <3>2. QED
      BY <1>1, <2>1, <3>1 DEF Agrees, StillAgrees
  <2>2. \A q \in Requests : at'[q] = "reading" => at[q] = "reading"
    BY <1>1, <1>t DEF TypeOK
  <2>3. QED
    BY <1>1, <2>1, <2>2, ReadingsStay
<1>9. FreshScan'
  BY <1>1, <1>t DEF IInv, FreshScan, AllStated, TypeOK
<1>10. OneKey'
  <2>1. \A q \in Requests, place \in {"stat", "lock", "reading"} : at'[q] = place => at[q] = place
    BY <1>1, <1>t DEF TypeOK
  <2>2. Listing' = Listing /\ Settled' = Settled
    BY <1>1 DEF Listing, Settled
  <2>3. QED
    BY <1>1, <2>1, <2>2 DEF IInv, OneKey
<1>11. QED
  BY <1>2, <1>3, <1>4, <1>8, <1>9, <1>10 DEF IInv

\* The occupation list is not in what is told of the files.
LEMMA CheckListKeeps ==
  ASSUME IInv, NEW r \in Requests, CheckList(r)
  PROVE  IInv'
<1> USE FolderAssumption
<1>1. /\ at[r] = "list"
      /\ at' = [at EXCEPT ![r] = "failed"] \/ at' = [at EXCEPT ![r] = "glob"]
      /\ labels' \in {labels, disk[Occupations]}
      /\ UNCHANGED <<disk, changes, lock, cache, key, scan, since, scans>>
  BY DEF CheckList, Goes
<1>t. TypeOK
  BY DEF IInv
<1>a. \A q \in Requests : at'[q] = "reading" => at[q] = "reading"
  BY <1>1, <1>t DEF TypeOK
<1>b. \A k, x, s : Agrees(k, x, s)' = Agrees(k, x, s)
  BY <1>1 DEF Agrees
<1>2. TypeOK'
  <2>1. labels' \in Contents \cup {Unread}
    BY <1>1, <1>t DEF TypeOK, Sources
  <2>2. at' \in [Requests -> {"idle", "list", "glob", "stat", "lock", "reading", "returned", "failed"}]
    BY <1>1, <1>t DEF TypeOK
  <2>3. \A q \in Requests : at'[q] = "reading" <=> lock = q
    BY <1>1, <1>t DEF TypeOK
  <2>4. QED
    BY <1>1, <1>t, <2>1, <2>2, <2>3 DEF TypeOK
<1>3. Past' /\ KeysTaken' /\ Watched'
  BY <1>1, <1>t DEF IInv, Past, KeysTaken, Watched, TypeOK
<1>4. ReadsAgree'
  BY <1>1, <1>a, <1>b DEF IInv, ReadsAgree
<1>5. CacheAgrees'
  BY <1>1, <1>b DEF IInv, CacheAgrees
<1>6. FreshScan' /\ OneKey'
  BY <1>1, <1>t DEF IInv, FreshScan, AllStated, OneKey, Settled, Listing, TypeOK
<1>7. QED
  BY <1>2, <1>3, <1>4, <1>5, <1>6 DEF IInv

\* Listing the files fixes which of them the key leaves out.
LEMMA GlobKeeps ==
  ASSUME IInv, NEW r \in Requests, Glob(r)
  PROVE  IInv'
<1> USE FolderAssumption
<1>1. /\ at[r] = "glob"
      /\ at' = [at EXCEPT ![r] = "stat"]
      /\ key' = [key EXCEPT ![r] = Listing]
      /\ UNCHANGED <<disk, changes, labels, lock, cache, scan, since, scans>>
  BY DEF Glob, Goes, Listing
<1>t. TypeOK
  BY DEF IInv
<1>2. Listing \in [Sources -> {Unread, Unlisted}]
  BY DEF Listing
<1>3. TypeOK'
  <2>1. key' \in [Requests -> [Sources -> Unlisted..(MaxChanges + 1)]]
    <3>1. Unread \in Unlisted..(MaxChanges + 1) /\ Unlisted \in Unlisted..(MaxChanges + 1)
      BY DEF Unread, Unlisted
    <3>2. Listing \in [Sources -> Unlisted..(MaxChanges + 1)]
      BY <1>2, <3>1
    <3>3. QED
      BY <1>1, <1>t, <3>2 DEF TypeOK
  <2>2. QED
    BY <1>1, <1>t, <2>1 DEF TypeOK
<1>4. Past'
  <2> SUFFICES ASSUME NEW s \in Sources, NEW q \in Requests
               PROVE  key'[q][s] <= changes + 1
    BY <1>1 DEF IInv, Past
  <2>1. key'[q][s] \in {key[q][s], Unread, Unlisted}
    BY <1>1, <1>2, <1>t DEF TypeOK
  <2>2. changes \in Nat /\ key[q][s] <= changes + 1
    BY <1>t DEF IInv, Past, TypeOK
  <2>3. QED
    BY <2>1, <2>2 DEF Unread, Unlisted
<1>5. KeysTaken'
  BY <1>1, <1>2, <1>t DEF IInv, KeysTaken, TypeOK, Listing, Unread, Unlisted
<1>6. Watched'
  BY <1>1, <1>t DEF IInv, Watched, TypeOK, Listing, Unread, Unlisted
<1>7. \A s \in Read : s \in Sources
  BY DEF Read, Sources
<1>8. \A q \in Requests, s \in Read : key'[q][s] = key[q][s] \/ key'[q][s] \in {Unread, Unlisted}
  BY <1>1, <1>2, <1>7, <1>t DEF TypeOK
<1>9. ReadsAgree' /\ CacheAgrees'
  <2>1. ASSUME NEW k \in Int, NEW x, NEW s \in Read, Agrees(k, x, s)
        PROVE  StillAgrees(k, x, s)
    <3>1. k > 0 => \A q \in Requests : key'[q][s] = k => key[q][s] = k
      BY <1>8 DEF Unread, Unlisted
    <3>2. QED
      BY <1>1, <2>1, <3>1 DEF Agrees, StillAgrees
  <2>2. \A q \in Requests : at'[q] = "reading" => at[q] = "reading" /\ key'[q] = key[q]
    BY <1>1, <1>t DEF TypeOK
  <2>3. QED
    BY <1>1, <2>1, <2>2, ReadingsStay
<1>10. FreshScan'
  BY <1>1, <1>t DEF IInv, FreshScan, AllStated, TypeOK
<1>11. OneKey'
  BY <1>1, <1>t DEF IInv, OneKey, Settled, Listing, TypeOK
<1>12. QED
  BY <1>3, <1>4, <1>5, <1>6, <1>9, <1>10, <1>11 DEF IInv

\* The fingerprint of a file that is still as a reading found it lets the request
\* be told that reading.
LEMMA StatKeeps ==
  ASSUME IInv, NEW r \in Requests, Stat(r)
  PROVE  IInv'
<1> USE FolderAssumption
<1> DEFINE taken == [s \in Sources |-> IF key[r][s] = Unlisted THEN Unlisted ELSE disk[s]]
<1>1. /\ at[r] = "stat"
      /\ at' = [at EXCEPT ![r] = "lock"]
      /\ key' = [key EXCEPT ![r] = taken]
      /\ UNCHANGED <<disk, changes, labels, lock, cache, scan, since, scans>>
  BY DEF Stat, Fingerprint, Goes
<1>t. TypeOK
  BY DEF IInv
<1>2. taken \in [Sources -> Unlisted..(MaxChanges + 1)]
  BY <1>t DEF TypeOK, Contents, Unlisted, Gone
<1>3. \A s \in Sources : taken[s] # Unread
  BY <1>t DEF TypeOK, Contents, Unlisted, Unread, Gone
<1>4. \A s \in Sources : taken[s] = disk[s] \/ (taken[s] = Unlisted /\ key[r][s] = Unlisted)
  OBVIOUS
<1>5. changes = 0 => taken = Settled
  <2>1. ASSUME changes = 0, NEW s \in Sources
        PROVE  taken[s] = IF s \in Files /\ disk[s] = Gone THEN Unlisted ELSE disk[s]
    <3>1. key[r] = Listing
      BY <1>1, <2>1 DEF IInv, OneKey
    <3>2. key[r][s] = IF s \in Files /\ disk[s] = Gone THEN Unlisted ELSE Unread
      BY <3>1 DEF Listing
    <3>3. QED
      BY <3>2 DEF Unlisted, Unread
  <2>2. QED
    BY <2>1 DEF Settled
<1> HIDE DEF taken
<1>6. TypeOK'
  BY <1>1, <1>2, <1>t DEF TypeOK
<1>7. \A s \in Sources : disk[s] \in Contents /\ disk[s] # Unlisted
  BY <1>t DEF TypeOK, Contents, Gone, Unlisted
<1>8. Past'
  <2>1. \A s \in Sources : taken[s] <= changes + 1
    BY <1>4, <1>7, <1>t DEF IInv, Past, TypeOK, Unlisted, Contents
  <2>2. QED
    BY <1>1, <1>t, <2>1 DEF IInv, Past, TypeOK
<1>9. KeysTaken'
  BY <1>1, <1>3, <1>4, <1>7, <1>t DEF IInv, KeysTaken, TypeOK
<1>10. Watched'
  BY <1>1, <1>4, <1>7, <1>t DEF IInv, Watched, TypeOK
<1>11. \A s \in Read : s \in Sources
  BY DEF Read, Sources
<1>12. ASSUME NEW k \in Int, NEW x, NEW s \in Read, Agrees(k, x, s)
       PROVE  StillAgrees(k, x, s)
  <2>1. disk[s] \in since[r][s]
    BY <1>1, <1>11 DEF IInv, Watched
  <2>2. SUFFICES ASSUME x # Unread, k > 0, NEW q \in Requests, key'[q][s] = k
                 PROVE  x \in since[q][s]
    BY <1>1, <1>12 DEF Agrees, StillAgrees
  <2>3. CASE q # r
    BY <1>1, <1>12, <1>t, <2>2, <2>3 DEF Agrees, TypeOK
  <2>4. CASE q = r
    <3>1. taken[s] = k
      BY <1>1, <1>t, <2>2, <2>4 DEF TypeOK
    <3>2. disk[s] = k
      BY <1>4, <1>11, <2>2, <3>1 DEF Unlisted
    <3>3. QED
      BY <1>12, <2>1, <2>2, <2>4, <3>2 DEF Agrees
  <2>5. QED
    BY <2>3, <2>4
<1>13. ReadsAgree' /\ CacheAgrees'
  <2>1. \A q \in Requests : at'[q] = "reading" => at[q] = "reading" /\ key'[q] = key[q]
    BY <1>1, <1>t DEF TypeOK
  <2>2. QED
    BY <1>1, <1>12, <2>1, ReadingsStay
<1>15. FreshScan'
  BY <1>1, <1>t DEF IInv, FreshScan, AllStated, TypeOK
<1>16. OneKey'
  BY <1>1, <1>5, <1>t DEF IInv, OneKey, Settled, Listing, TypeOK
<1>17. QED
  BY <1>6, <1>8, <1>9, <1>10, <1>13, <1>15, <1>16 DEF IInv

-----------------------------------------------------------------------------
(* Under the lock *)

\* Whoever finds its own key in the cache may be told what is there.
LEMMA HitKeeps ==
  ASSUME IInv, NEW r \in Requests, TakeLock(r), cache.key = key[r]
  PROVE  IInv'
<1> USE FolderAssumption
<1>1. /\ at[r] = "lock"
      /\ at' = [at EXCEPT ![r] = "returned"]
      /\ scan' = [scan EXCEPT ![r] = cache.scan]
      /\ UNCHANGED <<disk, changes, labels, lock, cache, key, since, scans>>
  BY DEF TakeLock, Goes
<1>t. TypeOK
  BY DEF IInv
<1>2. TypeOK'
  <2>1. cache.scan \in [Sources -> Unread..(MaxChanges + 1)]
    BY <1>t DEF TypeOK
  <2>2. QED
    BY <1>1, <1>t, <2>1 DEF TypeOK
<1>3. \A q \in Requests : q # r => at'[q] = at[q] /\ scan'[q] = scan[q]
  BY <1>1, <1>t DEF TypeOK
<1>4. at'[r] = "returned" /\ scan'[r] = cache.scan
  BY <1>1, <1>t DEF TypeOK
<1>5. Past' /\ KeysTaken' /\ Watched'
  BY <1>1, <1>3, <1>4 DEF IInv, Past, KeysTaken, Watched
<1>6. ReadsAgree' /\ CacheAgrees'
  <2>1. \A k \in Int, s \in Read : \A x : Agrees(k, x, s) => StillAgrees(k, x, s)
    BY <1>1 DEF Agrees, StillAgrees
  <2>2. QED
    BY <1>1, <1>3, <1>4, <2>1, ReadingsStay
<1>7. FreshScan'
  <2> SUFFICES ASSUME NEW q \in Requests, at'[q] = "returned", AllStated(q)', NEW s \in Read
               PROVE  scan'[q][s] \in since[q][s] \cup {Unread}
    BY <1>1 DEF FreshScan, Read
  <2>1. AllStated(q)
    BY <1>1 DEF AllStated
  <2>2. CASE q # r
    BY <1>3, <2>1, <2>2 DEF IInv, FreshScan, Read
  <2>3. CASE q = r
    <3>1. Agrees(key[r][s], cache.scan[s], s)
      BY DEF IInv, CacheAgrees
    <3>2. key[r][s] # Gone
      BY <2>1, <2>3 DEF AllStated, Read
    <3>3. cache.scan[s] \in since[r][s] \cup {Unread}
      BY <1>1, <3>1, <3>2, MayBeTold
    <3>4. QED
      BY <1>4, <2>3, <3>3
  <2>4. QED
    BY <2>2, <2>3
<1>8. OneKey'
  <2>1. Listing' = Listing /\ Settled' = Settled
    BY <1>1 DEF Listing, Settled
  <2>2. QED
    BY <1>1, <1>3, <1>4, <2>1 DEF IInv, OneKey
<1>9. QED
  BY <1>2, <1>5, <1>6, <1>7, <1>8 DEF IInv

\* A scan begins with nothing read, only when none is made and, before the first
\* change, none has been made.
LEMMA StartKeeps ==
  ASSUME IInv, NEW r \in Requests, TakeLock(r), cache.key # key[r]
  PROVE  IInv'
<1> USE FolderAssumption
<1> DEFINE blank == [s \in Sources |-> IF key[r][s] = Unlisted THEN Gone ELSE Unread]
<1>1. /\ at[r] = "lock" /\ lock = None
      /\ at' = [at EXCEPT ![r] = "reading"]
      /\ lock' = r
      /\ scan' = [scan EXCEPT ![r] = blank]
      /\ UNCHANGED <<disk, changes, labels, cache, key, since, scans>>
  BY DEF TakeLock, StartScan, Goes
<1>t. TypeOK
  BY DEF IInv
<1>2. blank \in [Sources -> Unread..(MaxChanges + 1)]
  BY <1>t DEF TypeOK, Unread, Gone
<1>3. \A s \in Read : blank[s] \in {Gone, Unread} /\ (blank[s] = Gone <=> key[r][s] = Unlisted)
  BY DEF Read, Sources, Gone, Unread
<1> HIDE DEF blank
<1>4. \A q \in Requests : at[q] # "reading"
  BY <1>1, <1>t DEF TypeOK
<1>5. \A q \in Requests : q # r => at'[q] = at[q] /\ scan'[q] = scan[q]
  BY <1>1, <1>t DEF TypeOK
<1>6. at'[r] = "reading" /\ scan'[r] = blank
  BY <1>1, <1>t DEF TypeOK
<1>7. TypeOK'
  <2>1. \A q \in Requests : at'[q] = "reading" <=> lock' = q
    BY <1>1, <1>4, <1>5, <1>6
  <2>2. QED
    BY <1>1, <1>2, <1>t, <2>1 DEF TypeOK
<1>8. Past' /\ KeysTaken' /\ Watched'
  BY <1>1, <1>5, <1>6 DEF IInv, Past, KeysTaken, Watched
<1>9. CacheAgrees'
  BY <1>1 DEF IInv, CacheAgrees, Agrees
<1>10. ReadsAgree'
  <2> SUFFICES ASSUME NEW s \in Read
               PROVE  /\ Agrees(key[r][s], scan[r][s], s)'
                      /\ key'[r][s] = Unlisted => scan'[r][s] = Gone
    BY <1>4, <1>5 DEF ReadsAgree
  <2>1. scan'[r][s] # Unread => key[r][s] = Unlisted /\ scan'[r][s] = Gone
    BY <1>3, <1>6
  <2>2. QED
    BY <1>1, <1>3, <1>6, <2>1 DEF Agrees, Unlisted
<1>11. FreshScan'
  BY <1>1, <1>5, <1>6 DEF IInv, FreshScan, AllStated
<1>12. OneKey'
  <2>1. Listing' = Listing /\ Settled' = Settled
    BY <1>1 DEF Listing, Settled
  <2>2. changes = 0 => key[r] = Settled /\ scans # 1
    BY <1>1 DEF IInv, OneKey
  <2>3. QED
    BY <1>1, <1>5, <1>6, <2>1, <2>2 DEF IInv, OneKey
<1>13. QED
  BY <1>7, <1>8, <1>9, <1>10, <1>11, <1>12 DEF IInv

\* What a file holds at the moment it is read is what everybody may be told who has
\* asked by then.
LEMMA ReadFileKeeps ==
  ASSUME IInv, NEW r \in Requests, NEW f \in Files, ReadFile(r, f)
  PROVE  IInv'
<1> USE FolderAssumption
<1>1. /\ at[r] = "reading" /\ scan[r][f] = Unread
      /\ scan' = [scan EXCEPT ![r][f] = disk[f]]
      /\ UNCHANGED <<disk, changes, labels, lock, cache, at, key, since, scans>>
  BY DEF ReadFile
<1>t. TypeOK
  BY DEF IInv
<1>2. f \in Sources /\ f \in Read
  BY DEF Sources, Read
<1>3. TypeOK'
  <2>1. disk[f] \in Unread..(MaxChanges + 1)
    BY <1>2, <1>t DEF TypeOK, Contents, Gone, Unread
  <2>2. scan' \in [Requests -> [Sources -> Unread..(MaxChanges + 1)]]
    BY <1>1, <1>t, <2>1 DEF TypeOK
  <2>3. QED
    BY <1>1, <1>t, <2>2 DEF TypeOK
<1>4. Past' /\ KeysTaken' /\ Watched' /\ CacheAgrees'
  BY <1>1 DEF IInv, Past, KeysTaken, Watched, CacheAgrees, Agrees
<1>5. \A q \in Requests : q # r => scan'[q] = scan[q]
  BY <1>1, <1>t DEF TypeOK
<1>6. \A s \in Read : s # f => scan'[r][s] = scan[r][s]
  BY <1>1, <1>t DEF TypeOK, Read, Sources
<1>7. scan'[r][f] = disk[f]
  BY <1>1, <1>2, <1>t DEF TypeOK
<1>8. ReadsAgree'
  <2> SUFFICES ASSUME NEW q \in Requests, NEW s \in Read, at[q] = "reading"
               PROVE  /\ Agrees(key[q][s], scan[q][s], s)'
                      /\ key[q][s] = Unlisted => scan'[q][s] = Gone
    BY <1>1 DEF ReadsAgree
  <2>1. Agrees(key[q][s], scan[q][s], s) /\ (key[q][s] = Unlisted => scan[q][s] = Gone)
    BY DEF IInv, ReadsAgree
  <2>2. CASE q # r \/ s # f
    BY <1>1, <1>5, <1>6, <2>1, <2>2 DEF Agrees
  <2>3. CASE q = r /\ s = f
    <3>1. key[r][f] # Unlisted
      BY <1>1, <2>1, <2>3 DEF Gone, Unread
    <3>2. \A o \in Requests : key[o][f] = key[r][f] => at[o] # "idle"
      BY <1>1, <1>2 DEF IInv, KeysTaken
    <3>3. \A o \in Requests : key[o][f] = key[r][f] => disk[f] \in since[o][f]
      BY <1>2, <3>2 DEF IInv, Watched
    <3>4. QED
      BY <1>1, <1>7, <2>3, <3>1, <3>3 DEF Agrees
  <2>4. QED
    BY <2>2, <2>3
<1>9. FreshScan'
  BY <1>1, <1>5 DEF IInv, FreshScan, AllStated
<1>10. OneKey'
  BY <1>1 DEF IInv, OneKey, Listing, Settled
<1>11. QED
  BY <1>3, <1>4, <1>8, <1>9, <1>10 DEF IInv

\* A scan that customer_info breaks off leaves the cache as it was.
LEMMA JoinFailsKeeps ==
  ASSUME IInv, NEW r \in Requests, JoinFails(r)
  PROVE  IInv'
<1> USE FolderAssumption
<1>1. /\ at[r] = "reading"
      /\ at' = [at EXCEPT ![r] = "failed"]
      /\ lock' = None
      /\ UNCHANGED <<disk, changes, labels, cache, key, scan, since, scans>>
  BY DEF JoinFails, AllRead, Goes
<1>t. TypeOK
  BY DEF IInv
<1>2. \A q \in Requests : q # r => at'[q] = at[q] /\ at[q] # "reading"
  BY <1>1, <1>t DEF TypeOK
<1>3. at'[r] = "failed"
  BY <1>1, <1>t DEF TypeOK
<1>4. TypeOK'
  <2>1. \A q \in Requests : at'[q] = "reading" <=> lock' = q
    BY <1>1, <1>2, <1>3
  <2>2. QED
    BY <1>1, <1>t, <2>1 DEF TypeOK
<1>5. Past' /\ KeysTaken' /\ Watched'
  BY <1>1, <1>2, <1>3 DEF IInv, Past, KeysTaken, Watched
<1>6. ReadsAgree' /\ CacheAgrees'
  BY <1>1, <1>2, <1>3 DEF IInv, ReadsAgree, CacheAgrees, Agrees
<1>7. FreshScan'
  BY <1>1, <1>2, <1>3 DEF IInv, FreshScan, AllStated
<1>8. OneKey'
  <2>1. Listing' = Listing /\ Settled' = Settled
    BY <1>1 DEF Listing, Settled
  <2>2. QED
    BY <1>1, <1>2, <1>3, <2>1 DEF IInv, OneKey
<1>9. QED
  BY <1>4, <1>5, <1>6, <1>7, <1>8 DEF IInv

\* The scan that is kept is one its own key agrees with, and the first.
LEMMA JoinKeeps ==
  ASSUME IInv, NEW r \in Requests, Join(r)
  PROVE  IInv'
<1> USE FolderAssumption
<1> DEFINE profiles == IF NeedsProfiles(r) THEN disk[CustomerInfo] ELSE Unread
<1>1. /\ at[r] = "reading"
      /\ scan' = [scan EXCEPT ![r][Occupations] = labels, ![r][CustomerInfo] = profiles]
      /\ cache' = [key |-> key[r], scan |-> scan'[r]]
      /\ scans' = IF changes = 0 THEN scans + 1 ELSE scans
      /\ at' = [at EXCEPT ![r] = "returned"]
      /\ lock' = None
      /\ UNCHANGED <<disk, changes, labels, key, since>>
  BY DEF Join, AllRead, Goes
<1>t. TypeOK
  BY DEF IInv
<1>2. CustomerInfo \in Sources /\ Occupations \in Sources /\ CustomerInfo \in Read
  BY DEF Sources, Read
<1>3. profiles \in {disk[CustomerInfo], Unread}
  OBVIOUS
<1>4. disk[CustomerInfo] \in Unread..(MaxChanges + 1) /\ labels \in Unread..(MaxChanges + 1)
  BY <1>2, <1>t DEF TypeOK, Contents, Gone, Unread
<1> HIDE DEF profiles
<1>5. profiles \in Unread..(MaxChanges + 1)
  BY <1>3, <1>4 DEF Unread
<1>6. \A q \in Requests : q # r => at'[q] = at[q] /\ scan'[q] = scan[q] /\ at[q] # "reading"
  BY <1>1, <1>t DEF TypeOK
<1>7. at'[r] = "returned"
  BY <1>1, <1>t DEF TypeOK
<1>8. scan' \in [Requests -> [Sources -> Unread..(MaxChanges + 1)]]
  BY <1>1, <1>4, <1>5, <1>t DEF TypeOK
<1>9. \A s \in Read : s # CustomerInfo => scan'[r][s] = scan[r][s]
  BY <1>1, <1>t DEF TypeOK, Read, Sources
<1>10. scan'[r][CustomerInfo] = profiles
  BY <1>1, <1>2, <1>t DEF TypeOK
<1>11. key[r] \in [Sources -> Unlisted..(MaxChanges + 1)]
  BY <1>t DEF TypeOK
<1>12. cache'.key = key[r] /\ cache'.scan = scan'[r]
  BY <1>1
<1>13. TypeOK'
  <2>1. cache' \in [key : [Sources -> Unlisted..(MaxChanges + 1)], scan : [Sources -> Unread..(MaxChanges + 1)]]
    BY <1>1, <1>8, <1>11
  <2>2. \A q \in Requests : at'[q] = "reading" <=> lock' = q
    BY <1>1, <1>6, <1>7
  <2>3. scans' \in Nat /\ at' \in [Requests -> {"idle", "list", "glob", "stat", "lock", "reading", "returned", "failed"}]
    BY <1>1, <1>t DEF TypeOK
  <2>4. QED
    BY <1>1, <1>8, <1>t, <2>1, <2>2, <2>3 DEF TypeOK
<1>14. Past'
  BY <1>1, <1>12 DEF IInv, Past
<1>15. KeysTaken' /\ Watched'
  BY <1>1, <1>6, <1>7 DEF IInv, KeysTaken, Watched
<1>16. ASSUME NEW s \in Read
       PROVE  Agrees(key[r][s], scan'[r][s], s)
  <2>1. CASE s # CustomerInfo
    BY <1>1, <1>9, <2>1 DEF IInv, ReadsAgree
  <2>2. CASE s = CustomerInfo
    <3>1. key[r][s] # Unlisted
      BY <1>2, <2>2 DEF IInv, KeysTaken
    <3>2. \A o \in Requests : key[o][s] = key[r][s] => at[o] # "idle"
      BY <1>1, <1>2, <2>2 DEF IInv, KeysTaken
    <3>3. \A o \in Requests : key[o][s] = key[r][s] => disk[s] \in since[o][s]
      BY <1>2, <2>2, <3>2 DEF IInv, Watched
    <3>4. QED
      BY <1>3, <1>10, <2>2, <3>1, <3>3 DEF Agrees
  <2>3. QED
    BY <2>1, <2>2
<1>17. CacheAgrees'
  <2> SUFFICES ASSUME NEW s \in Read
               PROVE  Agrees(cache.key[s], cache.scan[s], s)'
    BY DEF CacheAgrees
  <2>1. Agrees(key[r][s], scan'[r][s], s)
    BY <1>16
  <2>2. QED
    BY <1>1, <1>12, <2>1 DEF Agrees
<1>18. ReadsAgree'
  BY <1>6, <1>7 DEF ReadsAgree
<1>19. FreshScan'
  <2> SUFFICES ASSUME NEW q \in Requests, at'[q] = "returned", AllStated(q)', NEW s \in Read
               PROVE  scan'[q][s] \in since[q][s] \cup {Unread}
    BY <1>1 DEF FreshScan, Read
  <2>1. AllStated(q)
    BY <1>1 DEF AllStated
  <2>2. CASE q # r
    BY <1>6, <2>1, <2>2 DEF IInv, FreshScan, Read
  <2>3. CASE q = r
    <3>1. Agrees(key[r][s], scan'[r][s], s)
      BY <1>16
    <3>2. key[r][s] # Gone
      BY <2>1, <2>3 DEF AllStated, Read
    <3>3. QED
      BY <1>1, <2>3, <3>1, <3>2, MayBeTold
  <2>4. QED
    BY <2>2, <2>3
<1>20. OneKey'
  <2>1. Listing' = Listing /\ Settled' = Settled
    BY <1>1 DEF Listing, Settled
  <2>2. changes = 0 => key[r] = Settled /\ scans = 0
    BY <1>1 DEF IInv, OneKey
  <2>3. \A q \in Requests : at'[q] # "reading"
    BY <1>6, <1>7
  <2>4. QED
    BY <1>1, <1>6, <1>7, <1>12, <2>1, <2>2, <2>3 DEF IInv, OneKey
<1>21. QED
  BY <1>13, <1>14, <1>15, <1>17, <1>18, <1>19, <1>20 DEF IInv

\* A request that leaves keeps nothing.
LEMMA LeaveKeeps ==
  ASSUME IInv, NEW r \in Requests, Leave(r)
  PROVE  IInv'
<1> USE FolderAssumption
<1>1. /\ at[r] \in {"returned", "failed"}
      /\ at' = [at EXCEPT ![r] = "idle"]
      /\ key' = [key EXCEPT ![r] = Blank]
      /\ scan' = [scan EXCEPT ![r] = Blank]
      /\ since' = [since EXCEPT ![r] = [s \in Sources |-> {}]]
      /\ UNCHANGED <<disk, changes, labels, lock, cache, scans>>
  BY DEF Leave, Goes
<1>t. TypeOK
  BY DEF IInv
<1>2. \A q \in Requests : q # r =>
        at'[q] = at[q] /\ key'[q] = key[q] /\ scan'[q] = scan[q] /\ since'[q] = since[q]
  BY <1>1, <1>t DEF TypeOK
<1>3. at'[r] = "idle" /\ key'[r] = Blank /\ at[r] # "reading"
  BY <1>1, <1>t DEF TypeOK
<1>4. \A s \in Sources : Blank[s] = Unread
  BY DEF Blank
<1>5. Blank \in [Sources -> Unlisted..(MaxChanges + 1)] /\ Blank \in [Sources -> Unread..(MaxChanges + 1)]
  BY DEF Blank, Unread, Unlisted
<1>6. TypeOK'
  <2>1. \A q \in Requests : at'[q] = "reading" <=> lock' = q
    BY <1>1, <1>2, <1>3, <1>t DEF TypeOK
  <2>2. QED
    BY <1>1, <1>5, <1>t, <2>1 DEF TypeOK
<1>7. Past'
  <2> SUFFICES ASSUME NEW s \in Sources, NEW q \in Requests
               PROVE  key'[q][s] <= changes + 1
    BY <1>1 DEF IInv, Past
  <2>1. key'[q][s] \in {key[q][s], Unread}
    BY <1>2, <1>3, <1>4
  <2>2. changes \in Nat /\ key[q][s] <= changes + 1
    BY <1>t DEF IInv, Past, TypeOK
  <2>3. QED
    BY <2>1, <2>2 DEF Unread
<1>8. KeysTaken' /\ Watched'
  BY <1>1, <1>2, <1>3, <1>4 DEF IInv, KeysTaken, Watched, Unread, Unlisted
<1>9. ReadsAgree' /\ CacheAgrees'
  <2>1. ASSUME NEW k \in Int, NEW x, NEW s \in Read, Agrees(k, x, s)
        PROVE  StillAgrees(k, x, s)
    <3>1. key'[r][s] = Unread
      BY <1>3, <1>4 DEF Read, Sources
    <3>2. k > 0 => \A q \in Requests : key'[q][s] = k => q # r
      BY <3>1 DEF Unread
    <3>3. QED
      BY <1>1, <1>2, <2>1, <3>2 DEF Agrees, StillAgrees
  <2>2. QED
    BY <1>1, <1>2, <1>3, <2>1, ReadingsStay
<1>10. FreshScan'
  BY <1>1, <1>2, <1>3 DEF IInv, FreshScan, AllStated
<1>11. OneKey'
  <2>1. Listing' = Listing /\ Settled' = Settled
    BY <1>1 DEF Listing, Settled
  <2>2. QED
    BY <1>1, <1>2, <1>3, <2>1 DEF IInv, OneKey
<1>12. QED
  BY <1>6, <1>7, <1>8, <1>9, <1>10, <1>11 DEF IInv

-----------------------------------------------------------------------------
(* The whole *)

\* Every step of a request, and every change, keeps the invariant.
LEMMA IInvStep == IInv /\ [Next]_vars => IInv'
<1> SUFFICES ASSUME IInv, [Next]_vars
             PROVE  IInv'
  OBVIOUS
<1>1. CASE UNCHANGED vars
  <2>1. UNCHANGED <<disk, changes, labels, lock, cache, at, key, scan, since, scans>>
    BY <1>1 DEF vars, local
  <2>2. TypeOK' /\ Past' /\ KeysTaken' /\ Watched'
    BY <2>1 DEF IInv, TypeOK, Past, KeysTaken, Watched
  <2>3. ReadsAgree' /\ CacheAgrees' /\ FreshScan'
    BY <2>1 DEF IInv, ReadsAgree, CacheAgrees, Agrees, FreshScan, AllStated
  <2>4. OneKey'
    BY <2>1 DEF IInv, OneKey, Listing, Settled
  <2>5. QED
    BY <2>2, <2>3, <2>4 DEF IInv
<1>2. CASE \E s \in Sources : Change(s)
  BY <1>2, ChangeKeeps
<1>3. ASSUME NEW r \in Requests, Ask(r) \/ Works(r)
      PROVE  IInv'
  <2>1. CASE Ask(r)
    BY <2>1, AskKeeps
  <2>2. CASE CheckList(r)
    BY <2>2, CheckListKeeps
  <2>3. CASE Glob(r)
    BY <2>3, GlobKeeps
  <2>4. CASE Stat(r)
    BY <2>4, StatKeeps
  <2>5. CASE TakeLock(r)
    BY <2>5, HitKeeps, StartKeeps
  <2>6. CASE \E f \in Files : ReadFile(r, f)
    BY <2>6, ReadFileKeeps
  <2>7. CASE JoinFails(r)
    BY <2>7, JoinFailsKeeps
  <2>8. CASE Join(r)
    BY <2>8, JoinKeeps
  <2>9. CASE Leave(r)
    BY <2>9, LeaveKeeps
  <2>10. QED
    BY <1>3, <2>1, <2>2, <2>3, <2>4, <2>5, <2>6, <2>7, <2>8, <2>9 DEF Works
<1>4. QED
  BY <1>1, <1>2, <1>3 DEF Next

\* So it holds for good.
LEMMA IInvAlways == Spec => []IInv
  BY IInvInit, IInvStep, PTL DEF Spec

\* Contents, keys and readings stay in their ranges, and exactly the request that
\* holds the lock is reading.
THEOREM TypeCorrect == Spec => []TypeOK
<1>1. IInv => TypeOK
  BY DEF IInv
<1>2. QED
  BY <1>1, IInvAlways, PTL

\* A request is handed nothing older than itself, be it its own scan or one it finds
\* in the cache.
THEOREM ScanIsFresh == Spec => []FreshScan
<1>1. IInv => FreshScan
  BY DEF IInv
<1>2. QED
  BY <1>1, IInvAlways, PTL

\* While nothing has changed the folder is scanned once, however many ask.
THEOREM ScannedOnce == Spec => []UnchangedScannedOnce
<1>1. IInv => UnchangedScannedOnce
  BY DEF IInv, OneKey, UnchangedScannedOnce
<1>2. QED
  BY <1>1, IInvAlways, PTL
=============================================================================
