--------------------------- MODULE DiscoveryProofs ---------------------------
(***************************************************************************)
(* Theorems about the discovery worker and the service that runs it, for   *)
(* every set of devices, of threads and of subscribers and any number of   *)
(* requests, changes, scans and notifications.                             *)
(***************************************************************************)
EXTENDS DeviceService, FiniteSetTheorems, TLAPS

Scanning == wpc \in {"enumerate", "visit", "publish"}

-----------------------------------------------------------------------------
(* Type correctness.                                                       *)
LEMMA TypeStep == ASSUME TypeOK, [Next]_discoveryVars PROVE TypeOK'
<1> USE ThreadAssumption DEF worldVars, lockedVars, tokenVars, workerVars, discoveryVars
<1>1. CASE Take
  BY <1>1 DEF Take, NoScan, TokensNow, TypeOK
<1>2. CASE Enumerate
  BY <1>2 DEF Enumerate, TypeOK
<1>3. CASE Fail
  BY ZenonT(60), <1>3 DEF Fail, TypeOK
<1>4. ASSUME NEW k \in Keys, Read(k) PROVE TypeOK'
  BY <1>4 DEF Read, TypeOK
<1>5. ASSUME NEW k \in Keys, NEW i \in 0..changes, Record(k, i) PROVE TypeOK'
  <2> DEFINE found == [key |-> k, token |-> TokenOf(k), generation |-> scan.mount,
                       revision |-> scan.epoch, instance |-> IF mount[k] = 0 THEN 0 ELSE i]
  <2>1. nextToken' \in Nat /\ tokens' \in [Keys -> Nat] /\ tokens'[k] \in Nat \ {0}
    BY <1>5 DEF Record, TypeOK
  <2>2. found \in Snapshots
    BY <1>5, <2>1 DEF TokenOf, Snapshots, TypeOK
  <2>3. scan' = [scan EXCEPT !.open = {}, !.todo = @ \ {k}, !.devices = @ \cup {found}]
    BY <1>5 DEF Record
  <2> HIDE DEF found
  <2>4. scan'.devices \subseteq Snapshots /\ scan'.todo \subseteq Keys
    BY <2>2, <2>3 DEF TypeOK
  <2>5. scan' \in [epoch : Nat, mount : Nat, failed : BOOLEAN, todo : SUBSET Keys,
                   open : SUBSET (Keys \X Nat), devices : SUBSET Snapshots]
    BY <2>3, <2>4 DEF TypeOK
  <2>. QED
    BY <1>5, <2>1, <2>5 DEF Record, TypeOK
<1>6. CASE Visited
  BY <1>6 DEF Visited, TypeOK
<1>7. CASE Publish
  BY <1>7 DEF Publish, NoScan, TypeOK
<1>8. CASE Discard
  BY <1>8 DEF Discard, NoScan, TypeOK
<1>9. CASE WorkerCallback
  BY <1>9 DEF WorkerCallback, TypeOK
<1>10. CASE End
  BY <1>10 DEF End, TypeOK
<1>11. CASE Start
  BY <1>11 DEF Start, TypeOK
<1>12. CASE Watch
  BY <1>12 DEF Watch, TypeOK
<1>13. CASE Spawn
  BY <1>13 DEF Spawn, TypeOK
<1>14. CASE FirstRequest
  BY <1>14 DEF FirstRequest, Request, TypeOK, Threads
<1>15. CASE Stop
  BY <1>15 DEF Stop, TypeOK
<1>16. CASE Unwatch
  BY <1>16 DEF Unwatch, TypeOK
<1>17. CASE Join
  BY <1>17 DEF Join, TypeOK
<1>18. ASSUME NEW k \in Keys, Plug(k) PROVE TypeOK'
  BY <1>18 DEF Plug, TypeOK
<1>19. ASSUME NEW k \in Keys, Unplug(k) PROVE TypeOK'
  BY <1>19 DEF Unplug, TypeOK
<1>20. CASE Notified
  BY <1>20 DEF Notified, Request, TypeOK, Threads
<1>21. ASSUME NEW t \in Users, Refresh(t) PROVE TypeOK'
  BY <1>21 DEF Refresh, Request, TypeOK, Threads
<1>22. ASSUME NEW t \in Threads, Callback(t) PROVE TypeOK'
  BY <1>22 DEF Callback, TypeOK, Threads
<1>23. CASE UNCHANGED discoveryVars
  BY <1>23 DEF TypeOK
<1>. QED
  BY <1>1, <1>2, <1>3, <1>4, <1>5, <1>6, <1>7, <1>8, <1>9, <1>10, <1>11, <1>12,
    <1>13, <1>14, <1>15, <1>16, <1>17, <1>18, <1>19, <1>20, <1>21, <1>22, <1>23 DEF Next, Scan, Lifecycle, World

-----------------------------------------------------------------------------
(* Revisions.  A catalog belongs to the newest request, and what was       *)
(* published under its revision is in it; a scan of the newest request has *)
(* not been published yet.                                                 *)
NewestRequest ==
  /\ catalog.revision = epoch
  /\ scan.epoch \in 0..epoch
  /\ \A s \in scan.devices : s.revision = scan.epoch

RequestPending ==
  /\ pending /\ ~catalog.stopped => catalog.scanning
  /\ pending \/ catalog.stopped => scanStop
  /\ Scanning /\ scan.epoch = epoch /\ ~catalog.stopped => catalog.scanning

PublishedOnce ==
  \A s \in issued :
    /\ s.revision <= epoch
    /\ s.revision = epoch /\ ~catalog.stopped => ~catalog.scanning /\ s \in catalog.devices

RevisionInv == NewestRequest /\ RequestPending /\ PublishedOnce

LEMMA RevisionStep ==
  ASSUME TypeOK, RevisionInv, [Next]_discoveryVars
  PROVE  RevisionInv'
<1> USE DEF worldVars, lockedVars, tokenVars, workerVars, discoveryVars, Scanning, NoScan
<1>1. CASE \/ Start \/ Watch \/ Unwatch \/ Join
           \/ \E k \in Keys : Plug(k)
           \/ \E k \in Keys : Unplug(k)
           \/ \E t \in Threads : Callback(t)
           \/ UNCHANGED discoveryVars
  BY <1>1 DEF Start, Watch, Unwatch, Join, Plug, Unplug, Callback, TypeOK, RevisionInv,
    NewestRequest, RequestPending, PublishedOnce
<1>2. ASSUME NEW t \in Threads, NEW b \in BOOLEAN, Request(t, b) PROVE RevisionInv'
  <2>1. /\ epoch' = epoch + 1 /\ scan' = scan /\ wpc' = wpc /\ issued' = issued
        /\ catalog'.revision = epoch' /\ catalog'.scanning /\ ~catalog'.stopped /\ scanStop'
    BY <1>2 DEF Request
  <2>2. NewestRequest' /\ RequestPending'
    BY <2>1 DEF TypeOK, RevisionInv, NewestRequest, RequestPending
  <2>3. ASSUME NEW s \in issued PROVE s.revision < epoch'
    BY <2>1, <2>3 DEF TypeOK, Snapshots, RevisionInv, PublishedOnce
  <2>. QED
    BY <2>1, <2>2, <2>3 DEF TypeOK, Snapshots, RevisionInv, PublishedOnce
<1>3. CASE Take
  BY <1>3 DEF Take, TypeOK, RevisionInv, NewestRequest, RequestPending, PublishedOnce
<1>4. CASE Enumerate
  BY <1>4 DEF Enumerate, TypeOK, RevisionInv, NewestRequest, RequestPending,
    PublishedOnce
<1>5. CASE Fail
  BY <1>5 DEF Fail, TypeOK, RevisionInv, NewestRequest, RequestPending, PublishedOnce
<1>6. ASSUME NEW k \in Keys, Read(k) PROVE RevisionInv'
  BY <1>6 DEF Read, TypeOK, RevisionInv, NewestRequest, RequestPending, PublishedOnce
<1>7. ASSUME NEW k \in Keys, NEW i \in 0..changes, Record(k, i) PROVE RevisionInv'
  BY <1>7 DEF Record, TypeOK, RevisionInv, NewestRequest, RequestPending, PublishedOnce
<1>8. CASE Visited
  BY <1>8 DEF Visited, TypeOK, RevisionInv, NewestRequest, RequestPending, PublishedOnce
<1>9. CASE Publish
  BY <1>9 DEF Publish, Publishable, TypeOK, RevisionInv, NewestRequest, RequestPending,
    PublishedOnce
<1>10. CASE Discard
  BY <1>10 DEF Discard, Publishable, TypeOK, RevisionInv, NewestRequest, RequestPending,
    PublishedOnce
<1>11. CASE WorkerCallback
  BY <1>11 DEF WorkerCallback, TypeOK, RevisionInv, NewestRequest, RequestPending,
    PublishedOnce
<1>12. CASE End
  BY <1>12 DEF End, Woken, TypeOK, RevisionInv, NewestRequest, RequestPending,
    PublishedOnce
<1>13. CASE Spawn
  BY <1>13 DEF Spawn, TypeOK, RevisionInv, NewestRequest, RequestPending, PublishedOnce
<1>14. CASE Stop
  BY <1>14 DEF Stop, TypeOK, RevisionInv, NewestRequest, RequestPending, PublishedOnce
<1>. QED
  BY <1>1, <1>2, <1>3, <1>4, <1>5, <1>6, <1>7, <1>8, <1>9, <1>10, <1>11, <1>12, <1>13,
    <1>14 DEF Next, Scan, Lifecycle, World, Notified, Refresh, FirstRequest, Threads

-----------------------------------------------------------------------------
(* Threads.  Before there is a worker nothing was scanned; a worker that   *)
(* is not stopped is told of every change.                                 *)
NoWorkYet ==
  wpc = "none" => /\ scan = NoScan /\ issued = {} /\ catalog.devices = {}
                  /\ catalog.revision = 0 \/ catalog.scanning \/ catalog.stopped

Watched ==
  /\ ~watching => catalog.stopped \/ wpc = "none"
  /\ mpc = "spawn" => watching
  /\ mpc \in {"unwatch", "join", "stopped"} => catalog.stopped
  /\ mpc \in {"join", "stopped"} => rpc[Watcher] = "idle"
  /\ mpc = "stopped" => wpc \in {"none", "ended"}

ThreadInv == NoWorkYet /\ Watched

LEMMA ThreadStep ==
  ASSUME TypeOK, RevisionInv, ThreadInv, [Next]_discoveryVars
  PROVE  ThreadInv'
<1> USE DEF worldVars, lockedVars, tokenVars, workerVars, discoveryVars, Scanning, NoScan
<1>1. CASE \/ Start
           \/ \E k \in Keys : Plug(k)
           \/ \E k \in Keys : Unplug(k)
           \/ UNCHANGED discoveryVars
  BY <1>1 DEF Start, Plug, Unplug, TypeOK, ThreadInv, NoWorkYet, Watched
<1>2. CASE Take
  BY <1>2 DEF Take, TypeOK, ThreadInv, NoWorkYet, Watched
<1>3. CASE Enumerate
  BY <1>3 DEF Enumerate, TypeOK, ThreadInv, NoWorkYet, Watched
<1>4. CASE Fail
  BY <1>4 DEF Fail, TypeOK, ThreadInv, NoWorkYet, Watched
<1>5. ASSUME NEW k \in Keys, Read(k) PROVE ThreadInv'
  BY <1>5 DEF Read, TypeOK, ThreadInv, NoWorkYet, Watched
<1>6. ASSUME NEW k \in Keys, NEW i \in 0..changes, Record(k, i) PROVE ThreadInv'
  BY <1>6 DEF Record, TypeOK, ThreadInv, NoWorkYet, Watched
<1>7. CASE Visited
  BY <1>7 DEF Visited, TypeOK, ThreadInv, NoWorkYet, Watched
<1>8. CASE Publish
  BY <1>8 DEF Publish, Publishable, TypeOK, ThreadInv, NoWorkYet, Watched
<1>9. CASE Discard
  BY <1>9 DEF Discard, TypeOK, ThreadInv, NoWorkYet, Watched
<1>10. CASE WorkerCallback
  BY <1>10 DEF WorkerCallback, TypeOK, ThreadInv, NoWorkYet, Watched
<1>11. CASE End
  BY <1>11 DEF End, Woken, TypeOK, ThreadInv, NoWorkYet, Watched
<1>12. CASE Watch
  BY <1>12 DEF Watch, TypeOK, ThreadInv, NoWorkYet, Watched
<1>13. CASE Spawn
  BY <1>13 DEF Spawn, TypeOK, ThreadInv, NoWorkYet, Watched
<1>14. CASE FirstRequest
  BY <1>14 DEF FirstRequest, Request, TypeOK, ThreadInv, NoWorkYet, Watched
<1>15. CASE Stop
  BY <1>15 DEF Stop, TypeOK, ThreadInv, NoWorkYet, Watched
<1>16. CASE Unwatch
  BY <1>16 DEF Unwatch, TypeOK, ThreadInv, NoWorkYet, Watched
<1>17. CASE Join
  BY <1>17 DEF Join, Joinable, TypeOK, ThreadInv, NoWorkYet, Watched
<1>18. CASE Notified
  BY <1>18 DEF Notified, Request, TypeOK, ThreadInv, NoWorkYet, Watched
<1>19. ASSUME NEW t \in Users, Refresh(t) PROVE ThreadInv'
  BY <1>19 DEF Refresh, Request, Threads, TypeOK, ThreadInv, NoWorkYet, Watched
<1>20. ASSUME NEW t \in Threads, Callback(t) PROVE ThreadInv'
  BY <1>20 DEF Callback, Threads, TypeOK, ThreadInv, NoWorkYet, Watched
<1>. QED
  BY <1>1, <1>2, <1>3, <1>4, <1>5, <1>6, <1>7, <1>8, <1>9, <1>10, <1>11, <1>12, <1>13,
    <1>14, <1>15, <1>16, <1>17, <1>18, <1>19, <1>20 DEF Next, Scan, Lifecycle, World

-----------------------------------------------------------------------------
(* Presence.  As long as a scan has not been told to stop, what it found   *)
(* and what it has still to look at is what is mounted.                    *)
Mounted(k, i) == i # 0 => mount[k] = i \/ events > 0

Present ==
  /\ ~catalog.stopped => \A s \in catalog.devices : Mounted(s.key, s.instance)
  /\ ~scanStop => /\ \A s \in scan.devices : Mounted(s.key, s.instance)
                  /\ \A k \in Keys, i \in Nat : <<k, i>> \in scan.open => Mounted(k, i)

Covered(k) == k \in scan.todo \/ \E s \in scan.devices : s.key = k

Complete ==
  /\ ~scanStop /\ ~scan.failed /\ wpc \in {"visit", "publish"} =>
       \A k \in Keys : mount[k] # 0 => Covered(k) \/ events > 0
  /\ ~scanStop /\ wpc = "publish" => scan.todo = {}

PresenceInv == Present /\ Complete /\ CatalogComplete

LEMMA PresenceStep ==
  ASSUME TypeOK, RevisionInv, ThreadInv, PresenceInv, [Next]_discoveryVars
  PROVE  PresenceInv'
<1> USE DEF worldVars, lockedVars, tokenVars, workerVars, discoveryVars, Scanning, NoScan
<1>1. CASE \/ Start \/ Watch \/ Unwatch \/ Join
           \/ \E t \in Threads : Callback(t)
           \/ UNCHANGED discoveryVars
  BY <1>1 DEF Start, Watch, Unwatch, Join, Callback, TypeOK, PresenceInv, Present,
    Mounted, Complete, Covered, CatalogComplete
<1>2. ASSUME NEW t \in Threads, NEW b \in BOOLEAN, Request(t, b) PROVE PresenceInv'
  BY <1>2 DEF Request, TypeOK, PresenceInv, Present, Mounted, Complete, Covered,
    CatalogComplete
<1>3. CASE Take
  BY <1>3 DEF Take, TypeOK, PresenceInv, Present, Mounted, Complete, Covered,
    CatalogComplete
<1>4. CASE Enumerate
  BY <1>4 DEF Enumerate, TypeOK, PresenceInv, Present, Mounted, Complete, Covered,
    CatalogComplete
<1>5. CASE Fail
  BY <1>5 DEF Fail, TypeOK, PresenceInv, Present, Mounted, Complete, Covered,
    CatalogComplete
<1>6. ASSUME NEW k \in Keys, Read(k) PROVE PresenceInv'
  BY <1>6 DEF Read, TypeOK, PresenceInv, Present, Mounted, Complete, Covered,
    CatalogComplete
<1>7. ASSUME NEW k \in Keys, NEW i \in 0..changes, Record(k, i) PROVE PresenceInv'
  <2> DEFINE found == [key |-> k, token |-> TokenOf(k), generation |-> scan.mount,
                       revision |-> scan.epoch, instance |-> IF mount[k] = 0 THEN 0 ELSE i]
  <2>1. /\ scan'.devices = scan.devices \cup {found} /\ scan'.todo = scan.todo \ {k}
        /\ scan'.open = {} /\ scan'.failed = scan.failed
        /\ UNCHANGED <<mount, events, catalog, scanStop, wpc>>
    BY <1>7 DEF Record, TypeOK
  <2>2. ~scanStop /\ wpc = "visit" /\ Mounted(k, i) /\ i \in Nat
    BY <1>7 DEF Record, PresenceInv, Present, TypeOK
  <2>3. found.key = k /\ Mounted(found.key, found.instance)
    BY <2>2 DEF Mounted
  <2> HIDE DEF found
  <2>4. Present'
    BY <2>1, <2>3 DEF PresenceInv, Present, Mounted
  <2>5. Complete'
    BY <2>1, <2>2, <2>3 DEF PresenceInv, Complete, Covered
  <2>. QED
    BY <2>1, <2>4, <2>5 DEF PresenceInv, CatalogComplete
<1>8. CASE Visited
  BY <1>8 DEF Visited, TypeOK, PresenceInv, Present, Mounted, Complete, Covered,
    CatalogComplete
<1>9. CASE Publish
  BY <1>9 DEF Publish, Publishable, TypeOK, PresenceInv, Present, Mounted, Complete,
    Covered, CatalogComplete
<1>10. CASE Discard
  BY <1>10 DEF Discard, Publishable, TypeOK, PresenceInv, Present, Mounted, Complete,
    Covered, CatalogComplete
<1>11. CASE WorkerCallback
  BY <1>11 DEF WorkerCallback, TypeOK, PresenceInv, Present, Mounted, Complete, Covered,
    CatalogComplete
<1>12. CASE End
  BY <1>12 DEF End, TypeOK, PresenceInv, Present, Mounted, Complete, Covered,
    CatalogComplete
<1>13. CASE Spawn
  BY <1>13 DEF Spawn, TypeOK, PresenceInv, Present, Mounted, Complete, Covered,
    CatalogComplete
<1>14. CASE Stop
  BY <1>14 DEF Stop, TypeOK, PresenceInv, Present, Mounted, Complete, Covered,
    CatalogComplete
<1>15. ASSUME NEW k \in Keys, Plug(k) PROVE PresenceInv'
  <2>1. CASE watching
    BY <1>15, <2>1 DEF Plug, TypeOK, PresenceInv, Present, Mounted, Complete, CatalogComplete
  <2>2. CASE ~watching /\ catalog.stopped
    BY <1>15, <2>2 DEF Plug, RevisionInv, RequestPending, PresenceInv, Present, Complete,
      CatalogComplete
  <2>3. CASE ~watching /\ wpc = "none"
    BY <1>15, <2>3 DEF Plug, ThreadInv, NoWorkYet, TypeOK, PresenceInv, Present, Complete,
      CatalogComplete
  <2>. QED
    BY <2>1, <2>2, <2>3 DEF ThreadInv, Watched, TypeOK
<1>16. ASSUME NEW k \in Keys, Unplug(k) PROVE PresenceInv'
  <2>1. CASE watching
    BY <1>16, <2>1 DEF Unplug, TypeOK, PresenceInv, Present, Mounted, Complete, CatalogComplete
  <2>2. CASE ~watching /\ catalog.stopped
    BY <1>16, <2>2 DEF Unplug, RevisionInv, RequestPending, PresenceInv, Present, Complete,
      CatalogComplete
  <2>3. CASE ~watching /\ wpc = "none"
    BY <1>16, <2>3 DEF Unplug, ThreadInv, NoWorkYet, TypeOK, PresenceInv, Present, Complete,
      CatalogComplete
  <2>. QED
    BY <2>1, <2>2, <2>3 DEF ThreadInv, Watched, TypeOK
<1>. QED
  BY <1>1, <1>2, <1>3, <1>4, <1>5, <1>6, <1>7, <1>8, <1>9, <1>10, <1>11, <1>12, <1>13,
    <1>14, <1>15, <1>16 DEF Next, Scan, Lifecycle, World, Notified, Refresh, FirstRequest, Threads

-----------------------------------------------------------------------------
(* Tokens.  The table holds each token once, and a snapshot that carries   *)
(* one of its tokens is of that device and of the table's mount epoch.     *)
TokensDistinct ==
  \A k \in Keys : /\ tokens[k] <= nextToken
                  /\ \A l \in Keys : tokens[k] = tokens[l] /\ tokens[k] # 0 => k = l

Handed == issued \cup scan.devices

TokenInv ==
  /\ TokensDistinct
  /\ Scanning => scan.mount = tokenMount
  /\ \A s \in Handed :
       /\ s.token <= nextToken
       /\ \A k \in Keys : tokens[k] = s.token => s.key = k /\ s.generation = tokenMount
       /\ \A r \in Handed : r.token = s.token => r.key = s.key /\ r.generation = s.generation

LEMMA TokenStep ==
  ASSUME TypeOK, ThreadInv, TokenInv, [Next]_discoveryVars
  PROVE  TokenInv'
<1> USE DEF worldVars, lockedVars, tokenVars, workerVars, discoveryVars, Scanning, NoScan
<1>1. CASE \/ Start \/ Watch \/ Unwatch \/ Join \/ Stop
           \/ \E t \in Threads : Callback(t)
           \/ \E k \in Keys : Plug(k)
           \/ \E k \in Keys : Unplug(k)
           \/ UNCHANGED discoveryVars
  BY <1>1 DEF Start, Watch, Unwatch, Join, Callback, Plug, Unplug, Stop, TypeOK,
    TokenInv, TokensDistinct, Handed
<1>2. ASSUME NEW t \in Threads, NEW b \in BOOLEAN, Request(t, b) PROVE TokenInv'
  BY <1>2 DEF Request, TypeOK, TokenInv, TokensDistinct, Handed
<1>3. CASE Take
  BY <1>3 DEF Take, TokensNow, Snapshots, TypeOK, TokenInv, TokensDistinct, Handed
<1>4. CASE Enumerate
  BY <1>4 DEF Enumerate, TypeOK, TokenInv, TokensDistinct, Handed
<1>5. CASE Fail
  BY <1>5 DEF Fail, TypeOK, TokenInv, TokensDistinct, Handed
<1>6. ASSUME NEW k \in Keys, Read(k) PROVE TokenInv'
  BY <1>6 DEF Read, TypeOK, TokenInv, TokensDistinct, Handed
<1>7. ASSUME NEW k \in Keys, NEW i \in 0..changes, Record(k, i) PROVE TokenInv'
  <2> DEFINE found == [key |-> k, token |-> TokenOf(k), generation |-> scan.mount,
                       revision |-> scan.epoch, instance |-> IF mount[k] = 0 THEN 0 ELSE i]
  <2>1. Handed' = Handed \cup {found} /\ scan'.mount = scan.mount /\ scan.mount = tokenMount
    BY <1>7 DEF Record, TypeOK, Handed, TokenInv
  <2>2. /\ found.key = k /\ found.token = tokens'[k] /\ found.generation = tokenMount
        /\ UNCHANGED <<tokenMount, wpc>>
    BY <1>7, <2>1 DEF Record, TokenOf
  <2> HIDE DEF found
  <2>3. /\ nextToken' \in Nat /\ nextToken <= nextToken' /\ tokens'[k] \in 1..nextToken'
        /\ \A l \in Keys : l # k => tokens'[l] = tokens[l] /\ tokens[l] # tokens'[k]
        /\ tokens'[k] = tokens[k] \/ nextToken < tokens'[k]
    BY <1>7 DEF Record, TypeOK, TokenInv, TokensDistinct
  <2>4. TokensDistinct'
    BY <2>3 DEF TypeOK, TokenInv, TokensDistinct
  <2>5. ASSUME NEW s \in Handed
        PROVE  /\ s.token <= nextToken'
               /\ \A l \in Keys : tokens'[l] = s.token => s.key = l /\ s.generation = tokenMount
    <3>1. s.token \in Nat /\ s.token <= nextToken
      BY DEF Handed, TypeOK, Snapshots, TokenInv
    <3>. QED
      BY <2>3, <3>1 DEF TypeOK, TokenInv
  <2>. QED
    BY <2>1, <2>2, <2>3, <2>4, <2>5 DEF TypeOK, TokenInv
<1>8. CASE Visited
  BY <1>8 DEF Visited, TypeOK, TokenInv, TokensDistinct, Handed
<1>9. CASE Publish
  BY <1>9 DEF Publish, Publishable, TypeOK, TokenInv, TokensDistinct, Handed
<1>10. CASE Discard
  BY <1>10 DEF Discard, TypeOK, TokenInv, TokensDistinct, Handed
<1>11. CASE WorkerCallback
  BY <1>11 DEF WorkerCallback, TypeOK, TokenInv, TokensDistinct, Handed
<1>12. CASE End
  BY <1>12 DEF End, TypeOK, TokenInv, TokensDistinct, Handed
<1>13. CASE Spawn
  BY <1>13 DEF Spawn, TypeOK, TokenInv, TokensDistinct, Handed
<1>. QED
  BY <1>1, <1>2, <1>3, <1>4, <1>5, <1>6, <1>7, <1>8, <1>9, <1>10, <1>11, <1>12, <1>13
    DEF Next, Scan, Lifecycle, World, Notified, Refresh, FirstRequest, Threads

-----------------------------------------------------------------------------
LEMMA Initially == Init => TypeOK /\ RevisionInv /\ ThreadInv /\ PresenceInv /\ TokenInv
<1> SUFFICES ASSUME Init PROVE TypeOK /\ RevisionInv /\ ThreadInv /\ PresenceInv /\ TokenInv
  OBVIOUS
<1> USE DEF Init, NoScan
<1>1. TypeOK
  <2>1. mount \in [Keys -> Nat]
    OBVIOUS
  <2>. QED
    BY <2>1, ThreadAssumption DEF TypeOK, Threads, Snapshots
<1>2. RevisionInv /\ ThreadInv
  BY DEF RevisionInv, NewestRequest, RequestPending, PublishedOnce, ThreadInv, NoWorkYet,
    Watched, Scanning
<1>3. PresenceInv
  BY DEF PresenceInv, Present, Complete, CatalogComplete
<1>4. TokenInv
  BY DEF TokenInv, TokensDistinct, Handed, Scanning
<1>. QED
  BY <1>1, <1>2, <1>3, <1>4

LEMMA Invariants == Spec => [](TypeOK /\ RevisionInv /\ ThreadInv /\ PresenceInv /\ TokenInv)
<1>1. TypeOK /\ RevisionInv /\ ThreadInv /\ PresenceInv /\ TokenInv /\ [Next]_discoveryVars
        => (TypeOK /\ RevisionInv /\ ThreadInv /\ PresenceInv /\ TokenInv)'
  BY TypeStep, RevisionStep, ThreadStep, PresenceStep, TokenStep
<1>. QED
  BY <1>1, Initially, PTL DEF Spec

(***************************************************************************)
(* The state of the discovery, its worker and every snapshot handed out    *)
(* keep their types.                                                       *)
(***************************************************************************)
THEOREM ScanTypes == Spec => []TypeOK
  BY Invariants, PTL

(***************************************************************************)
(* A handle that is_current accepts names the mount it was read from,      *)
(* unless a notification is on its way.                                    *)
(***************************************************************************)
THEOREM HandlesPresent == Spec => []CurrentIsPresent
<1>1. TypeOK /\ RevisionInv /\ PresenceInv => CurrentIsPresent
  BY DEF CurrentIsPresent, IsCurrent, TypeOK, RevisionInv, NewestRequest, PublishedOnce,
    PresenceInv, Present, Mounted
<1>. QED
  BY <1>1, Invariants, PTL

(***************************************************************************)
(* A finished catalog shows every mounted device, unless a notification is *)
(* on its way.                                                             *)
(***************************************************************************)
THEOREM CatalogsComplete == Spec => []CatalogComplete
<1>1. PresenceInv => CatalogComplete
  BY DEF PresenceInv
<1>. QED
  BY <1>1, Invariants, PTL

(***************************************************************************)
(* A token names one device under one generation for ever.                 *)
(***************************************************************************)
THEOREM TokensUnique == Spec => []TokenNamesOneMount
<1>1. TokenInv => TokenNamesOneMount
  BY DEF TokenInv, Handed, TokenNamesOneMount
<1>. QED
  BY <1>1, Invariants, PTL

(***************************************************************************)
(* No scan replaces the state of a newer request, nor its own result.      *)
(***************************************************************************)
THEOREM OldScansDropped == Spec => NoOldResult
<1> DEFINE Kept == \/ catalog'.revision > catalog.revision
                   \/ /\ catalog'.revision = catalog.revision
                      /\ catalog.scanning \/ catalog' = catalog \/ catalog'.stopped
<1>1. ASSUME TypeOK, RevisionInv, [Next]_discoveryVars PROVE Kept
  <2> USE DEF worldVars, lockedVars, tokenVars, workerVars, discoveryVars
  <2>1. ASSUME NEW t \in Threads, NEW b \in BOOLEAN, Request(t, b) PROVE Kept
    <3>1. catalog'.revision = epoch + 1
      BY <2>1 DEF Request
    <3>2. catalog.revision = epoch /\ epoch \in Nat
      BY <1>1 DEF TypeOK, RevisionInv, NewestRequest
    <3>. QED
      BY <3>1, <3>2
  <2>2. CASE Publish
    <3>1. catalog'.revision = epoch
      BY <2>2 DEF Publish, Publishable
    <3>2. catalog.revision = epoch /\ catalog.scanning
      BY <1>1, <2>2 DEF Publish, Publishable, Scanning, RevisionInv, NewestRequest, RequestPending
    <3>. QED
      BY <3>1, <3>2
  <2>3. CASE Stop
    BY <2>3 DEF Stop, TypeOK
  <2>4. CASE UNCHANGED catalog
    BY <2>4
  <2>. QED
    BY <1>1, <2>1, <2>2, <2>3, <2>4 DEF Next, Scan, Lifecycle, World, Threads, Notified, Refresh,
      FirstRequest, Take, Enumerate, Fail, Read, Record, Visited, Discard, WorkerCallback, End,
      Start, Watch, Spawn, Unwatch, Join, Plug, Unplug, Callback
<1>. QED
  BY <1>1, Invariants, PTL DEF Spec, NoOldResult

(***************************************************************************)
(* Once stop has returned nothing is published and the watcher calls       *)
(* nobody.                                                                 *)
(***************************************************************************)
THEOREM StopSilences == Spec => SilentAfterStop
<1> DEFINE Silent == mpc = "stopped" => UNCHANGED <<catalog, wpc, rpc[Watcher]>>
<1>1. ASSUME TypeOK, ThreadInv, [Next]_discoveryVars PROVE Silent
  <2> SUFFICES ASSUME mpc = "stopped" PROVE UNCHANGED <<catalog, wpc, rpc[Watcher]>>
    OBVIOUS
  <2> USE DEF worldVars, lockedVars, tokenVars, workerVars, discoveryVars
  <2>1. catalog.stopped /\ wpc \in {"none", "ended"} /\ rpc[Watcher] = "idle"
    BY <1>1 DEF ThreadInv, Watched
  <2>2. ~(Scan \/ Publish \/ WorkerCallback \/ Lifecycle)
    BY <2>1 DEF Scan, Take, Enumerate, Fail, Read, Record, Visited, Discard, End, Woken, Publish,
      WorkerCallback, Lifecycle, Start, Watch, Spawn, FirstRequest, Stop, Unwatch, Join
  <2>3. ~Notified /\ \A t \in Users : ~Refresh(t)
    BY <2>1 DEF Notified, Refresh, Request
  <2>4. ASSUME NEW t \in Threads, Callback(t) PROVE UNCHANGED <<catalog, wpc, rpc[Watcher]>>
    BY <1>1, <2>1, <2>4 DEF Callback, TypeOK
  <2>5. CASE World
    BY <2>5 DEF World, Plug, Unplug
  <2>. QED
    BY <1>1, <2>2, <2>3, <2>4, <2>5 DEF Next
<1>. QED
  BY <1>1, Invariants, PTL DEF Spec, SilentAfterStop

-----------------------------------------------------------------------------
(* The device service: nobody is called after quit, at most one task waits *)
(* on the main thread, and the discovery keeps its promises under it.      *)

\* on_quit has begun, and tells the subscribers at most that it has.
Quitting == spc = "quit" \/ (spc = "call" /\ word = "unavailable")

\* Without an engine the component has not begun or is down: whatever the main
\* thread still runs is a task that finds the flag cleared.
QuitInv ==
  /\ ~engine => ~running /\ spc \in {"new", "task", "gone"}
  /\ Quitting => ~running

\* The flag is set for as long as the task is on the queue.
TaskInv == queue = IF posted THEN 1 ELSE 0

ServiceInv == QuitInv /\ TaskInv

-----------------------------------------------------------------------------
LEMMA BackgroundStep == ASSUME ServiceInv, Background PROVE ServiceInv'
<1> USE DEF Background, Changes, Posts, Post, Quietly, taskVars, listenVars, serviceVars,
            ServiceInv, QuitInv, Quitting, TaskInv
<1>1. UNCHANGED <<engine, running, spc, word>>
  OBVIOUS
<1>2. QuitInv'
  BY <1>1
<1>3. TaskInv'
  OBVIOUS
<1> QED
  BY <1>2, <1>3

LEMMA MainThreadStep == ASSUME ServiceInv, MainThread PROVE ServiceInv'
<1> USE DEF taskVars, listenVars, historyVars, serviceVars, Home, ServiceInv, QuitInv, Quitting, TaskInv
<1>1. CASE Starting
  <2>1. UNCHANGED <<engine, running, spc, word>>
    BY <1>1 DEF Starting, Changes, Posts, Quietly
  <2>2. TaskInv'
    BY <1>1 DEF Starting, Changes, Posts, Post, Quietly
  <2> QED
    BY <2>1, <2>2
<1>2. CASE Started
  BY <1>2 DEF Started
<1>3. CASE RunTask
  BY <1>3 DEF RunTask
<1>4. CASE DeliverTask \/ DropTask
  BY <1>4 DEF DeliverTask, DropTask, Collect
<1>5. ASSUME NEW l \in Listeners, Call(l) PROVE ServiceInv'
  BY <1>5 DEF Call
<1>6. CASE Delivered \/ Quitted
  BY <1>6 DEF Delivered, Quitted
<1>7. CASE Stopping
  BY <1>7 DEF Stopping, Quietly, Collect
<1> QED
  BY <1>1, <1>2, <1>3, <1>4, <1>5, <1>6, <1>7 DEF MainThread

LEMMA ServiceStep == ASSUME ServiceInv, [ServiceNext]_vars PROVE ServiceInv'
<1> USE DEF taskVars, listenVars, historyVars, serviceVars
<1>1. CASE OnInit
  BY <1>1 DEF OnInit, ServiceInv, QuitInv, Quitting, TaskInv
<1>2. CASE OnQuit
  BY <1>2 DEF OnQuit, ServiceInv, QuitInv, Quitting, TaskInv
<1>3. CASE UNCHANGED vars \/ Quietly(World) \/ \E l \in Listeners : Subscribe(l) \/ Cancel(l)
  <2>1. UNCHANGED <<engine, running, spc, word, queue, posted>>
    BY <1>3 DEF vars, Quietly, Subscribe, Cancel
  <2> QED
    BY <2>1 DEF ServiceInv, QuitInv, Quitting, TaskInv
<1> QED
  BY <1>1, <1>2, <1>3, BackgroundStep, MainThreadStep DEF ServiceNext

LEMMA ServiceInvariant == ServiceSpec => []ServiceInv
<1>1. ServiceInit => ServiceInv
  BY DEF ServiceInit, ServiceInv, QuitInv, Quitting, TaskInv
<1> QED
  BY <1>1, ServiceStep, PTL DEF ServiceSpec

-----------------------------------------------------------------------------
(***************************************************************************)
(* on_quit silences the service for good: whatever tasks are on the main   *)
(* thread's queue, and whoever subscribes afterwards, nobody is called.    *)
(***************************************************************************)
THEOREM QuitSilences == ServiceSpec => QuietAfterQuit
<1>1. ServiceInv /\ [ServiceNext]_vars => [~engine /\ spc # "new" => told' = told]_vars
  <2> SUFFICES ASSUME ServiceInv, ServiceNext, ~engine PROVE told' = told
    BY DEF vars
  <2>1. spc \in {"new", "task", "gone"}
    BY DEF ServiceInv, QuitInv
  <2> USE DEF historyVars, serviceVars
  <2>2. CASE Background
    BY <2>2 DEF Background, Changes, Posts, Quietly
  <2>3. CASE MainThread
    BY <2>1, <2>3 DEF MainThread, Starting, Started, RunTask, DeliverTask, DropTask, Collect,
       Call, Delivered, Stopping, Quitted
  <2>4. CASE OnInit \/ OnQuit \/ Quietly(World) \/ \E l \in Listeners : Subscribe(l) \/ Cancel(l)
    BY <2>4 DEF OnInit, OnQuit, Quietly, Subscribe, Cancel
  <2> QED
    BY <2>2, <2>3, <2>4 DEF ServiceNext
<1> QED
  BY <1>1, ServiceInvariant, PTL DEF ServiceSpec, QuietAfterQuit

(***************************************************************************)
(* However many scans, refreshes and notifications overlap, the service    *)
(* never has more than one task on the main thread's queue, and the flag   *)
(* that prevents a second one says whether it is there.                    *)
(***************************************************************************)
THEOREM OneTaskWaits == ServiceSpec => []TaskInv
  BY ServiceInvariant, PTL DEF ServiceInv

(***************************************************************************)
(* The service uses the discovery as it is meant to be used: each of its   *)
(* steps is a step of the discovery or leaves it alone, so every theorem   *)
(* about the discovery holds under the service.                            *)
(***************************************************************************)
THEOREM ServiceKeepsDiscovery == ServiceSpec => Spec
<1>1. ServiceInit => Init
  BY DEF ServiceInit
<1>2. [ServiceNext]_vars => [Next]_discoveryVars
  <2> SUFFICES ASSUME [ServiceNext]_vars PROVE Next \/ UNCHANGED discoveryVars
    OBVIOUS
  <2>1. CASE Background
    BY <2>1 DEF Background, Changes, Posts, Quietly, Next, Threads
  <2>2. CASE MainThread
    BY <2>2 DEF MainThread, Starting, Started, RunTask, DeliverTask, DropTask, Collect, Call,
       Delivered, Stopping, Quitted, Changes, Posts, Quietly, Next, Lifecycle, Threads
  <2>3. CASE OnInit \/ OnQuit \/ Quietly(World) \/ \E l \in Listeners : Subscribe(l) \/ Cancel(l)
    BY <2>3 DEF OnInit, OnQuit, Quietly, Subscribe, Cancel, Next
  <2>4. CASE UNCHANGED vars
    BY <2>4 DEF vars
  <2> QED
    BY <2>1, <2>2, <2>3, <2>4 DEF ServiceNext
<1> QED
  BY <1>1, <1>2, PTL DEF ServiceSpec, Spec

-----------------------------------------------------------------------------
(* Quiescence.  What the threads still have to do, counted so that every   *)
(* step but an input makes it less: a scan visits each device once, a      *)
(* request costs one scan and one callback, a notification one request.    *)
Finite == IsFiniteSet(Keys) /\ IsFiniteSet(Threads)

ScanCost == 2 * Cardinality(Keys) + 6
InputCost == ScanCost + 2

WorkerLeft ==
  IF wpc = "enumerate" THEN ScanCost
  ELSE IF wpc = "visit" THEN 2 * Cardinality(scan.todo) + (IF scan.open = {} THEN 5 ELSE 4)
  ELSE IF wpc = "publish" THEN 3
  ELSE IF wpc = "notify" THEN 2
  ELSE IF wpc = "wait" THEN 1 ELSE 0

Calling == {t \in Threads : rpc[t] = "call"}

Rung == [new |-> 7, watch |-> 6, spawn |-> 5, request |-> 4, running |-> 3, unwatch |-> 2,
         join |-> 1, stopped |-> 0]

Work == Rung[mpc] * InputCost + events * InputCost + (IF pending THEN ScanCost ELSE 0)
          + WorkerLeft + Cardinality(Calling)

Input == World \/ \E t \in Users : Refresh(t)

\* What a scan has open is still on its list.
OpenListed ==
  /\ wpc = "enumerate" => scan.open = {}
  /\ \A p \in scan.open : p[1] \in scan.todo

LEMMA OpenListedStep == ASSUME TypeOK, OpenListed, [Next]_discoveryVars PROVE OpenListed'
<1> USE DEF worldVars, lockedVars, tokenVars, workerVars, discoveryVars, NoScan, OpenListed, TypeOK
<1>1. CASE Scan
  <2>1. CASE Take \/ Enumerate \/ Fail
    BY <2>1 DEF Take, Enumerate, Fail
  <2>2. CASE Visited \/ Discard \/ End
    BY <2>2 DEF Visited, Discard, End
  <2>3. ASSUME NEW k \in Keys, Read(k) PROVE OpenListed'
    BY <2>3 DEF Read
  <2>4. ASSUME NEW k \in Keys, NEW i \in 0 .. changes, Record(k, i) PROVE OpenListed'
    BY <2>4 DEF Record
  <2> QED
    BY <1>1, <2>1, <2>2, <2>3, <2>4 DEF Scan
<1>2. CASE Publish \/ (UNCHANGED scan /\ wpc' # "enumerate") \/ UNCHANGED <<scan, wpc>>
  BY <1>2 DEF Publish
<1>3. CASE WorkerCallback \/ Lifecycle \/ World \/ Notified \/ (\E t \in Users : Refresh(t))
             \/ (\E t \in Threads : Callback(t)) \/ UNCHANGED discoveryVars
  BY <1>3, <1>2 DEF WorkerCallback, Lifecycle, Start, Watch, Spawn, FirstRequest, Stop, Unwatch, Join,
     World, Plug, Unplug, Notified, Refresh, Request, Callback
<1> QED
  BY <1>1, <1>2, <1>3 DEF Next

LEMMA Rungs ==
  /\ Rung["new"] = 7 /\ Rung["watch"] = 6 /\ Rung["spawn"] = 5 /\ Rung["request"] = 4
  /\ Rung["running"] = 3 /\ Rung["unwatch"] = 2 /\ Rung["join"] = 1 /\ Rung["stopped"] = 0
  BY DEF Rung

\* The parts of Work are numbers; a scan never has more left than it costs.
LEMMA WorkFacts ==
  ASSUME TypeOK, Finite
  PROVE  /\ Cardinality(Keys) \in Nat /\ ScanCost \in Nat /\ InputCost = ScanCost + 2 /\ ScanCost >= 6
         /\ Rung[mpc] \in 0 .. 7 /\ events \in Nat /\ Rung[mpc] * InputCost \in Nat /\ events * InputCost \in Nat
         /\ IsFiniteSet(scan.todo) /\ Cardinality(scan.todo) \in Nat
         /\ WorkerLeft \in Nat /\ WorkerLeft <= ScanCost
         /\ IsFiniteSet(Calling) /\ Cardinality(Calling) \in Nat
<1>1. Cardinality(Keys) \in Nat
  BY FS_CardinalityType DEF Finite
<1>2. scan.todo \in SUBSET Keys
  BY DEF TypeOK
<1>3. IsFiniteSet(scan.todo) /\ Cardinality(scan.todo) <= Cardinality(Keys)
  BY <1>2, FS_Subset DEF Finite
<1>4. Cardinality(scan.todo) \in Nat
  BY <1>3, FS_CardinalityType
<1>5. Calling \in SUBSET Threads
  BY DEF Calling
<1>6. IsFiniteSet(Calling) /\ Cardinality(Calling) \in Nat
  BY <1>5, FS_Subset, FS_CardinalityType DEF Finite
<1>7. Rung[mpc] \in 0 .. 7 /\ events \in Nat
  BY Rungs DEF TypeOK
<1>8. ScanCost \in Nat /\ InputCost = ScanCost + 2 /\ ScanCost >= 6 /\ InputCost \in Nat
  BY <1>1 DEF ScanCost, InputCost
<1>9. WorkerLeft \in Nat /\ WorkerLeft <= ScanCost
  BY <1>1, <1>3, <1>4 DEF WorkerLeft, ScanCost
<1>10. Rung[mpc] * InputCost \in Nat /\ events * InputCost \in Nat
  BY <1>7, <1>8
<1> QED
  BY <1>1, <1>3, <1>4, <1>6, <1>7, <1>8, <1>9, <1>10

LEMMA WorkType == ASSUME TypeOK, Finite PROVE Work \in Nat
<1> DEFINE r == Rung[mpc] * InputCost
           e == events * InputCost
           c == Cardinality(Calling)
<1>1. r \in Nat /\ e \in Nat /\ ScanCost \in Nat /\ WorkerLeft \in Nat /\ c \in Nat
  BY WorkFacts
<1> HIDE DEF r, e, c, ScanCost, WorkerLeft
<1>2. r + e + (IF pending THEN ScanCost ELSE 0) + WorkerLeft + c \in Nat
  BY <1>1
<1> QED
  BY <1>2 DEF Work, r, e, c

\* A step of the worker alone.
LEMMA WorkerDescends ==
  ASSUME TypeOK, TypeOK', Finite, UNCHANGED <<mpc, events, rpc>>,
         \/ UNCHANGED pending /\ WorkerLeft' < WorkerLeft
         \/ pending /\ ~pending' /\ WorkerLeft = 1 /\ WorkerLeft' = ScanCost
  PROVE  Work' < Work
<1> DEFINE r == Rung[mpc] * InputCost
           e == events * InputCost
           c == Cardinality(Calling)
           w == WorkerLeft
           v == WorkerLeft'
<1>1. r \in Nat /\ e \in Nat /\ ScanCost \in Nat /\ w \in Nat /\ c \in Nat
  BY WorkFacts
<1>2. (WorkerLeft \in Nat)'
  BY WorkFacts, PTL
<1>3. v \in Nat
  BY <1>2
<1>4. Work' = r + e + (IF pending' THEN ScanCost ELSE 0) + v + c
  BY DEF Work, Calling, InputCost, ScanCost, Rung
<1>5. Work = r + e + (IF pending THEN ScanCost ELSE 0) + w + c
  BY DEF Work
<1>6. \/ pending' = pending /\ v < w
      \/ pending /\ ~pending' /\ w = 1 /\ v = ScanCost
  OBVIOUS
<1> HIDE DEF r, e, c, w, v, ScanCost
<1> QED
  BY <1>1, <1>3, <1>4, <1>5, <1>6

LEMMA ScanDescends ==
  ASSUME TypeOK, TypeOK', OpenListed, Finite, Scan \/ Publish \/ WorkerCallback
  PROVE  Work' < Work
<1> USE DEF worldVars, lockedVars, tokenVars, workerVars
<1>a. ASSUME UNCHANGED <<mpc, events, rpc, pending>>, WorkerLeft' < WorkerLeft PROVE Work' < Work
  BY <1>a, WorkerDescends
<1>1. CASE Take
  <2>1. /\ UNCHANGED <<mpc, events, rpc>> /\ pending /\ ~pending'
        /\ wpc = "wait" /\ wpc' = "enumerate"
    BY <1>1 DEF Take
  <2>2. WorkerLeft = 1 /\ WorkerLeft' = ScanCost
    BY <2>1 DEF WorkerLeft, ScanCost
  <2> QED
    BY <2>1, <2>2, WorkerDescends
<1>2. CASE Enumerate
  <2>1. /\ UNCHANGED <<mpc, events, rpc, pending>>
        /\ wpc = "enumerate" /\ wpc' = "visit"
    BY <1>2 DEF Enumerate
  <2>2. (Cardinality(scan.todo) \in Nat /\ Cardinality(scan.todo) <= Cardinality(Keys))'
    <3>1. scan'.todo \in SUBSET Keys
      BY DEF TypeOK
    <3>2. IsFiniteSet(scan'.todo) /\ Cardinality(scan'.todo) <= Cardinality(Keys)
      BY <3>1, FS_Subset DEF Finite
    <3> QED
      BY <3>2, FS_CardinalityType
  <2>3. WorkerLeft' < WorkerLeft
    BY <2>1, <2>2, WorkFacts DEF WorkerLeft, ScanCost
  <2> QED
    BY <2>1, <2>3, <1>a
<1>3. CASE Fail \/ Visited
  <2>1. /\ UNCHANGED <<mpc, events, rpc, pending>>
        /\ wpc \in {"enumerate", "visit"} /\ wpc' = "publish"
    BY <1>3 DEF Fail, Visited
  <2>2. WorkerLeft' = 3 /\ WorkerLeft >= 4
    BY <2>1, WorkFacts DEF WorkerLeft
  <2> QED
    BY <2>1, <2>2, <1>a, WorkFacts
<1>4. CASE Publish \/ Discard \/ WorkerCallback \/ End
  <2>1. /\ UNCHANGED <<mpc, events, rpc, pending>>
        /\ \/ wpc = "publish" /\ (wpc' = "notify" \/ wpc' = "wait")
           \/ wpc = "notify" /\ wpc' = "wait"
           \/ wpc = "wait" /\ wpc' = "ended"
    BY <1>4 DEF Publish, Discard, WorkerCallback, End, Woken
  <2>2. WorkerLeft' < WorkerLeft
    BY <2>1 DEF WorkerLeft
  <2> QED
    BY <2>1, <2>2, <1>a
<1>5. ASSUME NEW k \in Keys, Read(k) PROVE Work' < Work
  <2>1. /\ UNCHANGED <<mpc, events, rpc, pending, wpc>> /\ wpc = "visit"
        /\ scan.open = {} /\ scan'.open # {} /\ scan'.todo = scan.todo
    <3>1. PICK i \in {0, mount[k]} : scan' = [scan EXCEPT !.open = {<<k, i>>}]
      BY <1>5 DEF Read
    <3>2. scan'.open = {<<k, i>>} /\ scan'.todo = scan.todo
      BY <3>1 DEF TypeOK
    <3> QED
      BY <1>5, <3>2 DEF Read
  <2>2. WorkerLeft' < WorkerLeft
    BY <2>1, WorkFacts DEF WorkerLeft
  <2> QED
    BY <2>1, <2>2, <1>a
<1>6. ASSUME NEW k \in Keys, NEW i \in 0 .. changes, Record(k, i) PROVE Work' < Work
  <2>1. /\ UNCHANGED <<mpc, events, rpc, pending, wpc>> /\ wpc = "visit"
        /\ scan.open # {} /\ scan'.open = {} /\ scan'.todo = scan.todo \ {k}
        /\ <<k, i>> \in scan.open
    BY <1>6 DEF Record, TypeOK
  <2>2. k \in scan.todo
    BY <2>1 DEF OpenListed
  <2>3. Cardinality(scan'.todo) = Cardinality(scan.todo) - 1
    <3>1. IsFiniteSet(scan.todo)
      BY WorkFacts
    <3>2. Cardinality(scan.todo \ {k}) = Cardinality(scan.todo) - 1
      BY <2>2, <3>1, FS_RemoveElement
    <3> QED
      BY <2>1, <3>2
  <2>4. WorkerLeft' < WorkerLeft
    <3>1. Cardinality(scan.todo) \in Nat
      BY WorkFacts
    <3>2. /\ WorkerLeft = 2 * Cardinality(scan.todo) + 4
          /\ WorkerLeft' = 2 * Cardinality(scan'.todo) + 5
      BY <2>1 DEF WorkerLeft
    <3> QED
      BY <2>3, <3>1, <3>2
  <2> QED
    BY <2>1, <2>4, <1>a
<1> QED
  BY <1>1, <1>2, <1>3, <1>4, <1>5, <1>6 DEF Scan

LEMMA OneRung ==
  ASSUME NEW i \in Nat, NEW a \in 0 .. 7, NEW b \in 0 .. 7, b + 1 <= a
  PROVE  b * i + i <= a * i
<1>1. PICK k \in 0 .. 7 : a = b + 1 + k
  <2>1. a - b - 1 \in 0 .. 7 /\ a = b + 1 + (a - b - 1)
    OBVIOUS
  <2> QED
    BY <2>1
<1>2. a * i = b * i + i + k * i /\ k * i \in Nat /\ b * i \in Nat
  BY <1>1
<1> QED
  BY <1>2

\* A request asks for a scan at most and lets one thread more call back.
LEMMA RequestCosts ==
  ASSUME TypeOK, TypeOK', Finite, NEW t \in Threads, NEW topology \in BOOLEAN, Request(t, topology)
  PROVE  /\ UNCHANGED WorkerLeft /\ pending'
         /\ Cardinality(Calling') <= Cardinality(Calling) + 1
<1>1. UNCHANGED <<wpc, scan>> /\ pending'
  BY DEF Request, workerVars
<1>2. \/ Calling' = Calling \/ Calling' = Calling \cup {t}
  <2>1. \A u \in Threads : rpc'[u] = IF u = t THEN rpc'[t] ELSE rpc[u]
    BY DEF Request, TypeOK
  <2>2. rpc[t] = "idle" /\ rpc'[t] \in {"idle", "call"}
    BY DEF Request, TypeOK
  <2> QED
    BY <2>1, <2>2 DEF Calling
<1>3. Cardinality(Calling \cup {t}) <= Cardinality(Calling) + 1
  <2>1. IsFiniteSet(Calling) /\ Cardinality(Calling) \in Nat
    BY WorkFacts
  <2> HIDE DEF Calling
  <2>2. Cardinality(Calling \cup {t}) = IF t \in Calling THEN Cardinality(Calling) ELSE Cardinality(Calling) + 1
    BY <2>1, FS_AddElement
  <2> QED
    BY <2>1, <2>2
<1>4. Cardinality(Calling') <= Cardinality(Calling) + 1
  <2>1. Cardinality(Calling) \in Nat
    BY WorkFacts
  <2>2. CASE Calling' = Calling
    <3>1. Cardinality(Calling') = Cardinality(Calling)
      BY <2>2
    <3> QED
      BY <2>1, <3>1
  <2>3. CASE Calling' = Calling \cup {t}
    <3>1. Cardinality(Calling') = Cardinality(Calling \cup {t})
      BY <2>3
    <3> QED
      BY <1>3, <3>1
  <2> QED
    BY <1>2, <2>2, <2>3
<1>5. WorkerLeft' = WorkerLeft
  BY <1>1 DEF WorkerLeft, ScanCost
<1> QED
  BY <1>1, <1>4, <1>5

LEMMA ThreadsDescend ==
  ASSUME TypeOK, TypeOK', Finite, Notified \/ Lifecycle \/ \E t \in Threads : Callback(t)
  PROVE  Work' < Work
<1> USE DEF worldVars, lockedVars, tokenVars, workerVars
<1> DEFINE c == Cardinality(Calling)
           d == Cardinality(Calling')
           w == WorkerLeft
           v == WorkerLeft'
           a == Rung[mpc]
           b == Rung[mpc']
           ai == a * InputCost
           bi == b * InputCost
           ei == events * InputCost
           fi == events' * InputCost
           p == IF pending THEN ScanCost ELSE 0
           q == IF pending' THEN ScanCost ELSE 0
<1>1. /\ c \in Nat /\ w \in Nat /\ ai \in Nat /\ ei \in Nat /\ ScanCost \in Nat
      /\ InputCost = ScanCost + 2 /\ p \in Nat /\ p <= ScanCost /\ a \in 0 .. 7
  BY WorkFacts
<1>2. d \in Nat /\ v \in Nat /\ bi \in Nat /\ fi \in Nat /\ q \in Nat /\ q <= ScanCost
  <2>1. (/\ Cardinality(Calling) \in Nat /\ WorkerLeft \in Nat /\ Rung[mpc] * InputCost \in Nat
         /\ events * InputCost \in Nat)'
    BY WorkFacts, PTL
  <2> QED
    BY <1>1, <2>1 DEF InputCost, ScanCost, Rung
<1>3. Work = ai + ei + p + w + c
  BY DEF Work
<1>4. Work' = bi + fi + q + v + d
  BY DEF Work, InputCost, ScanCost, Rung
<1>5. b + 1 <= a /\ b \in 0 .. 7 => bi + InputCost <= ai
  <2> SUFFICES ASSUME b + 1 <= a, b \in 0 .. 7 PROVE bi + InputCost <= ai
    OBVIOUS
  <2>1. InputCost \in Nat /\ a \in 0 .. 7
    BY <1>1
  <2> HIDE DEF InputCost, a, b
  <2>2. b * InputCost + InputCost <= a * InputCost
    BY <2>1, OneRung
  <2> QED
    BY <2>2
<1>6. CASE Notified
  <2>1. events' = events - 1 /\ UNCHANGED mpc /\ Request(Watcher, TRUE)
    BY <1>6 DEF Notified
  <2>2. fi = ei - InputCost
    <3>1. events \in Nat /\ InputCost \in Nat
      BY WorkFacts
    <3>2. (events - 1) * InputCost = events * InputCost - InputCost
      BY <3>1
    <3> QED
      BY <2>1, <3>2
  <2>3. v = w /\ d <= c + 1
    BY <2>1, RequestCosts DEF Threads
  <2>4. bi = ai
    BY <2>1
  <2> HIDE DEF c, d, w, v, a, b, ai, bi, ei, fi, p, q, InputCost, ScanCost
  <2> QED
    BY <1>1, <1>2, <1>3, <1>4, <2>2, <2>3, <2>4
<1>7. ASSUME NEW t \in Threads, Callback(t) PROVE Work' < Work
  <2>1. UNCHANGED <<mpc, events, pending, wpc, scan>> /\ rpc[t] = "call" /\ rpc' = [rpc EXCEPT ![t] = "idle"]
    BY <1>7 DEF Callback
  <2>2. Calling' = Calling \ {t} /\ t \in Calling
    BY <2>1 DEF Calling, TypeOK
  <2>3. Cardinality(Calling \ {t}) = Cardinality(Calling) - 1
    BY <2>2, WorkFacts, FS_RemoveElement
  <2>4. d = c - 1
    BY <2>2, <2>3
  <2>5. bi = ai /\ fi = ei /\ p = q /\ v = w
    BY <2>1 DEF WorkerLeft, ScanCost
  <2> HIDE DEF c, d, w, v, a, b, ai, bi, ei, fi, p, q, InputCost, ScanCost
  <2> QED
    BY <1>1, <1>2, <1>3, <1>4, <2>4, <2>5
<1>8. CASE Lifecycle
  <2>1. b + 1 <= a /\ b \in 0 .. 7
    <3>1. \/ <<mpc, mpc'>> \in {<<"new", "watch">>, <<"watch", "spawn">>, <<"spawn", "request">>,
                                <<"request", "running">>, <<"unwatch", "join">>, <<"join", "stopped">>}
          \/ mpc \in {"watch", "spawn", "running"} /\ mpc' = "unwatch"
      BY <1>8 DEF Lifecycle, Start, Watch, Spawn, FirstRequest, Stop, Unwatch, Join
    <3> QED
      BY <3>1, Rungs
  <2>2. fi = ei
    BY <1>8 DEF Lifecycle, Start, Watch, Spawn, FirstRequest, Stop, Unwatch, Join
  <2>3. v <= w + 1 /\ d <= c + 1
    <3>1. CASE FirstRequest
      <4>1. v = w /\ d <= c + 1
        BY <3>1, RequestCosts DEF FirstRequest, Threads
      <4> HIDE DEF c, d, w, v
      <4> QED
        BY <1>1, <1>2, <4>1
    <3>2. CASE Spawn
      <4>1. UNCHANGED rpc /\ wpc' = "wait"
        BY <3>2 DEF Spawn
      <4>2. v = 1 /\ d = c
        BY <4>1 DEF WorkerLeft, Calling
      <4> QED
        BY <1>1, <4>2
    <3>3. CASE Start \/ Watch \/ Stop \/ Unwatch \/ Join
      <4>1. UNCHANGED <<rpc, wpc, scan>>
        BY <3>3 DEF Start, Watch, Stop, Unwatch, Join
      <4>2. v = w /\ d = c
        BY <4>1 DEF WorkerLeft, Calling, ScanCost
      <4> QED
        BY <1>1, <4>2
    <3> QED
      BY <1>8, <3>1, <3>2, <3>3 DEF Lifecycle
  <2>5. v + d + q < w + c + p + InputCost
    <3>1. CASE FirstRequest
      <4>1. v = w
        BY <3>1, RequestCosts DEF FirstRequest, Threads
      <4> HIDE DEF c, d, w, v, p, q, InputCost, ScanCost
      <4> QED
        BY <1>1, <1>2, <2>3, <4>1
    <3>2. CASE ~FirstRequest
      <4>1. q = p
        BY <1>8, <3>2 DEF Lifecycle, Start, Watch, Spawn, Stop, Unwatch, Join
      <4> HIDE DEF c, d, w, v, p, q, InputCost, ScanCost
      <4> QED
        BY <1>1, <1>2, <2>3, <4>1, WorkFacts
    <3> QED
      BY <3>1, <3>2
  <2>6. bi + InputCost <= ai
    BY <1>5, <2>1
  <2> HIDE DEF c, d, w, v, a, b, ai, bi, ei, fi, p, q, InputCost, ScanCost
  <2> QED
    BY <1>1, <1>2, <1>3, <1>4, <2>2, <2>5, <2>6
<1> QED
  BY <1>6, <1>7, <1>8

LEMMA InputCosts ==
  ASSUME TypeOK, TypeOK', Finite, Input
  PROVE  Work' <= Work + InputCost
<1> DEFINE c == Cardinality(Calling)
           d == Cardinality(Calling')
           w == WorkerLeft
           v == WorkerLeft'
           ai == Rung[mpc] * InputCost
           ei == events * InputCost
           fi == events' * InputCost
           p == IF pending THEN ScanCost ELSE 0
           q == IF pending' THEN ScanCost ELSE 0
<1>1. /\ c \in Nat /\ w \in Nat /\ ai \in Nat /\ ei \in Nat /\ ScanCost \in Nat
      /\ InputCost = ScanCost + 2 /\ p \in Nat /\ p <= ScanCost
  BY WorkFacts
<1>2. d \in Nat /\ q \in Nat /\ q <= ScanCost
  <2>1. (Cardinality(Calling) \in Nat)'
    BY WorkFacts, PTL
  <2> QED
    BY <1>1, <2>1
<1>3. UNCHANGED mpc
  BY DEF Input, World, Plug, Unplug, Refresh
<1>4. Work = ai + ei + p + w + c
  BY DEF Work
<1>5. Work' = ai + fi + q + v + d
  BY <1>3 DEF Work, InputCost, ScanCost, Rung
<1>6. ASSUME NEW t \in Users, Refresh(t) PROVE Work' <= Work + InputCost
  <2>1. v = w /\ d <= c + 1
    BY <1>6, RequestCosts DEF Refresh, Threads
  <2>2. fi = ei
    BY <1>6 DEF Refresh
  <2> HIDE DEF c, d, w, v, ai, ei, fi, p, q, InputCost, ScanCost
  <2> QED
    BY <1>1, <1>2, <1>4, <1>5, <2>1, <2>2
<1>7. CASE World
  <2>1. UNCHANGED <<pending, wpc, scan, rpc>> /\ (events' = events + 1 \/ events' = events)
    BY <1>7 DEF World, Plug, Unplug, lockedVars, workerVars
  <2>2. v = w /\ d = c /\ q = p
    BY <2>1 DEF WorkerLeft, Calling, ScanCost
  <2>3. fi = ei \/ fi = ei + InputCost
    <3>1. events \in Nat /\ InputCost \in Nat
      BY WorkFacts
    <3>2. (events + 1) * InputCost = events * InputCost + InputCost
      BY <3>1
    <3> QED
      BY <2>1, <3>2
  <2> HIDE DEF c, d, w, v, ai, ei, fi, p, q, InputCost, ScanCost
  <2> QED
    BY <1>1, <1>2, <1>4, <1>5, <2>2, <2>3
<1> QED
  BY <1>6, <1>7 DEF Input

(***************************************************************************)
(* Scans do not feed themselves.  Between two inputs, a refresh or a       *)
(* change of what is mounted, the threads take a bounded number of steps,  *)
(* and an input adds no more than one scan, one notification and one       *)
(* callback to what is left, however inputs and scans overlap: no step of  *)
(* the worker asks for another scan.                                       *)
(***************************************************************************)
THEOREM ScansDoNotFeedThemselves ==
  ASSUME Finite
  PROVE  /\ Spec => [](Work \in Nat)
         /\ Spec => [][Work' < Work \/ (Input /\ Work' <= Work + InputCost)]_discoveryVars
<1>1. Spec => []OpenListed
  <2>1. Init => OpenListed
    BY DEF Init, OpenListed, NoScan
  <2>2. TypeOK /\ OpenListed /\ [Next]_discoveryVars => OpenListed'
    BY OpenListedStep
  <2> QED
    BY <2>1, <2>2, ScanTypes, PTL DEF Spec
<1>2. TypeOK => Work \in Nat
  BY WorkType
<1>3. TypeOK /\ TypeOK' /\ OpenListed /\ [Next]_discoveryVars =>
        [Work' < Work \/ (Input /\ Work' <= Work + InputCost)]_discoveryVars
  <2> SUFFICES ASSUME TypeOK, TypeOK', OpenListed, Next
               PROVE  Work' < Work \/ (Input /\ Work' <= Work + InputCost)
    OBVIOUS
  <2>1. CASE Scan \/ Publish \/ WorkerCallback
    BY <2>1, ScanDescends
  <2>2. CASE Notified \/ Lifecycle \/ \E t \in Threads : Callback(t)
    BY <2>2, ThreadsDescend
  <2>3. CASE Input
    BY <2>3, InputCosts
  <2> QED
    BY <2>1, <2>2, <2>3 DEF Next, Input
<1> QED
  BY <1>1, <1>2, <1>3, ScanTypes, PTL DEF Spec

=============================================================================
