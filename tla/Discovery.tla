----------------------------- MODULE Discovery -----------------------------
(***************************************************************************)
(* The discovery worker of src/src/core/device/device.cpp.  Requests come  *)
(* from the thread of the device notifications, from callers of refresh    *)
(* and from start; one worker scans; stop ends it.  A critical section of  *)
(* the mutex is one step, what happens outside it is other steps.          *)
(*                                                                         *)
(* A device is its key, the physical and the volume identity together.     *)
(* Each time it is mounted it becomes a new instance; what a scan reads    *)
(* from it is abstracted to the instance it was read from.                 *)
(***************************************************************************)
EXTENDS Naturals

CONSTANTS
  Keys,        \* devices
  Users,       \* threads that call refresh
  Watcher,     \* the thread that delivers device notifications
  Main,        \* the thread that calls start and stop
  MaxInputs    \* bound on calls of refresh and changes of what is mounted, together

Threads == Users \cup {Watcher, Main}

ASSUME ThreadAssumption ==
  /\ Watcher \notin Users /\ Main \notin Users /\ Watcher # Main
  /\ MaxInputs \in Nat

VARIABLES
  \* the world
  mount,      \* mount[k]: the instance of k mounted now, 0 if none
  changes,    \* mounts and removals so far; the number of the newest mount
  events,     \* notifications the watcher has not delivered
  refreshes,  \* calls of refresh so far
  \* guarded by the mutex
  catalog, pending, epoch, mountEpoch, scanStop, changed,
  watching,   \* the backend's notification is registered
  \* the worker
  wpc, scan, tokens, nextToken, tokenMount,
  \* other threads
  rpc,        \* rpc[t] = "call": t is to call the callback it copied
  mpc,        \* where start or stop is
  \* history
  issued      \* every snapshot ever published

worldVars == <<mount, changes, events, refreshes>>
lockedVars == <<catalog, pending, epoch, mountEpoch, scanStop, changed>>
tokenVars == <<tokens, nextToken, tokenMount>>
workerVars == <<wpc, scan, tokenVars>>
discoveryVars == <<worldVars, lockedVars, watching, workerVars, rpc, mpc, issued>>

Snapshots == [key : Keys, token : Nat \ {0}, generation : Nat, revision : Nat, instance : Nat]

TypeOK ==
  /\ mount \in [Keys -> Nat]
  /\ changes \in Nat /\ events \in Nat /\ refreshes \in Nat
  /\ catalog \in [revision : Nat, scanning : BOOLEAN, stopped : BOOLEAN,
                  failed : BOOLEAN, devices : SUBSET Snapshots]
  /\ pending \in BOOLEAN /\ scanStop \in BOOLEAN /\ changed \in BOOLEAN
  /\ epoch \in Nat /\ mountEpoch \in Nat
  /\ watching \in BOOLEAN
  /\ wpc \in {"none", "wait", "enumerate", "visit", "publish", "notify", "ended"}
  /\ scan \in [epoch : Nat, mount : Nat, failed : BOOLEAN, todo : SUBSET Keys,
               open : SUBSET (Keys \X Nat), devices : SUBSET Snapshots]
  /\ tokens \in [Keys -> Nat] /\ nextToken \in Nat /\ tokenMount \in Nat
  /\ rpc \in [Threads -> {"idle", "call"}]
  /\ mpc \in {"new", "watch", "spawn", "request", "running", "unwatch", "join", "stopped"}
  /\ issued \subseteq Snapshots

NoScan == [epoch |-> 0, mount |-> 0, failed |-> FALSE, todo |-> {}, open |-> {}, devices |-> {}]

-----------------------------------------------------------------------------
(* request, refresh, is_current.                                           *)

\* The critical section of request; the callback is called after it.
Request(t, topology) ==
  /\ rpc[t] = "idle" /\ ~catalog.stopped
  /\ epoch' = epoch + 1
  /\ mountEpoch' = IF topology THEN mountEpoch + 1 ELSE mountEpoch
  /\ catalog' = [revision |-> epoch', scanning |-> TRUE, stopped |-> FALSE,
                 failed |-> FALSE, devices |-> {}]
  /\ pending' = TRUE /\ scanStop' = TRUE
  /\ rpc' = [rpc EXCEPT ![t] = IF changed THEN "call" ELSE "idle"]
  /\ UNCHANGED <<changed, watching, workerVars, issued>>

Refresh(t) ==
  /\ changes + refreshes <= MaxInputs
  /\ Request(t, FALSE)
  /\ refreshes' = refreshes + 1
  /\ UNCHANGED <<mount, changes, events, mpc>>

\* A notification of arrival or removal reaches the watcher.
Notified ==
  /\ watching /\ events > 0
  /\ Request(Watcher, TRUE)
  /\ events' = events - 1
  /\ UNCHANGED <<mount, changes, refreshes, mpc>>

\* The thread calls the callback it copied under the mutex.
Callback(t) ==
  /\ rpc[t] = "call"
  /\ rpc' = [rpc EXCEPT ![t] = "idle"]
  /\ UNCHANGED <<worldVars, lockedVars, watching, workerVars, mpc, issued>>

IsCurrent(token, generation, revision) ==
  /\ ~catalog.scanning /\ ~catalog.stopped /\ catalog.revision = revision
  /\ \E s \in catalog.devices :
       s.token = token /\ s.generation = generation /\ s.revision = revision

-----------------------------------------------------------------------------
(* run: one scan.                                                          *)

TokensKept == tokens  \* mutant: the tokens outlive the mounts they were made for
TokensNow == IF tokenMount = mountEpoch THEN tokens ELSE [k \in Keys |-> 0]

Take ==
  /\ wpc = "wait" /\ pending /\ ~catalog.stopped
  /\ pending' = FALSE /\ scanStop' = FALSE
  /\ scan' = [NoScan EXCEPT !.epoch = epoch, !.mount = mountEpoch]
  /\ tokens' = TokensNow
  /\ tokenMount' = mountEpoch
  /\ wpc' = "enumerate"
  /\ UNCHANGED <<worldVars, catalog, epoch, mountEpoch, changed, watching, nextToken, rpc, mpc, issued>>

Enumerate ==
  /\ wpc = "enumerate"
  /\ scan' = [scan EXCEPT !.todo = {k \in Keys : mount[k] # 0}]
  /\ wpc' = "visit"
  /\ UNCHANGED <<worldVars, lockedVars, watching, tokenVars, rpc, mpc, issued>>

\* An exception discards what the scan has found.
Fail ==
  /\ wpc \in {"enumerate", "visit"}
  /\ scan' = [scan EXCEPT !.failed = TRUE, !.todo = {}, !.open = {}, !.devices = {}]
  /\ wpc' = "publish"
  /\ UNCHANGED <<worldVars, lockedVars, watching, tokenVars, rpc, mpc, issued>>

\* The database of k is read; 0 stands for whatever kept it from being read.
Read(k) ==
  /\ wpc = "visit" /\ ~scanStop /\ k \in scan.todo /\ scan.open = {}
  /\ \E i \in {0, mount[k]} : scan' = [scan EXCEPT !.open = {<<k, i>>}]
  /\ UNCHANGED <<worldVars, lockedVars, watching, wpc, tokenVars, rpc, mpc, issued>>

TokenOf(k) == tokens'[k]

\* still_present is asked for the last time, the stop is looked at again, and the
\* snapshot gets its token: one step, a change between them is as one behind them.
Record(k, i) ==
  /\ wpc = "visit" /\ ~scanStop /\ <<k, i>> \in scan.open
  /\ nextToken' = IF tokens[k] = 0 THEN nextToken + 1 ELSE nextToken
  /\ tokens' = [tokens EXCEPT ![k] = IF @ = 0 THEN nextToken' ELSE @]
  /\ scan' = [scan EXCEPT !.open = {}, !.todo = @ \ {k},
       !.devices = @ \cup {[key |-> k, token |-> TokenOf(k), generation |-> scan.mount,
                            revision |-> scan.epoch,
                            instance |-> IF mount[k] = 0 THEN 0 ELSE i]}]
  /\ UNCHANGED <<worldVars, lockedVars, watching, wpc, tokenMount, rpc, mpc, issued>>

\* All candidates are done, or the scan was told to stop.
Visited ==
  /\ wpc = "visit" /\ (scanStop \/ scan.todo = {})
  /\ wpc' = "publish"
  /\ UNCHANGED <<worldVars, lockedVars, watching, scan, tokenVars, rpc, mpc, issued>>

AnyResult == TRUE  \* mutant: whatever a scan found is published
Publishable == ~catalog.stopped /\ scan.epoch = epoch /\ ~scanStop

Publish ==
  /\ wpc = "publish"
  /\ Publishable
  /\ catalog' = [revision |-> scan.epoch, scanning |-> FALSE, stopped |-> FALSE,
                 failed |-> scan.failed, devices |-> scan.devices]
  /\ issued' = issued \cup scan.devices
  /\ wpc' = IF changed THEN "notify" ELSE "wait"
  /\ scan' = NoScan
  /\ UNCHANGED <<worldVars, pending, epoch, mountEpoch, scanStop, changed, watching,
                 tokenVars, rpc, mpc>>

\* Mutant: a discarded scan takes the requests that came meanwhile with it.
DiscardRequests ==
  /\ wpc = "publish" /\ ~Publishable
  /\ wpc' = "wait" /\ scan' = NoScan /\ pending' = FALSE
  /\ UNCHANGED <<worldVars, catalog, epoch, mountEpoch, scanStop, changed, watching, tokenVars,
                 rpc, mpc, issued>>

Discard ==
  /\ wpc = "publish" /\ ~Publishable
  /\ wpc' = "wait" /\ scan' = NoScan
  /\ UNCHANGED <<worldVars, lockedVars, watching, tokenVars, rpc, mpc, issued>>

WorkerCallback ==
  /\ wpc = "notify"
  /\ wpc' = "wait"
  /\ UNCHANGED <<worldVars, lockedVars, watching, scan, tokenVars, rpc, mpc, issued>>

WokenByRequest == wpc = "wait" /\ pending  \* mutant: stop does not wake the worker
Woken == wpc = "wait"

End ==
  /\ Woken /\ catalog.stopped
  /\ wpc' = "ended"
  /\ UNCHANGED <<worldVars, lockedVars, watching, scan, tokenVars, rpc, mpc, issued>>

-----------------------------------------------------------------------------
(* start and stop.                                                         *)

Start ==
  /\ mpc = "new"
  /\ changed' = TRUE /\ mpc' = "watch"
  /\ UNCHANGED <<worldVars, catalog, pending, epoch, mountEpoch, scanStop, watching,
                 workerVars, rpc, issued>>

Watch ==
  /\ mpc = "watch"
  /\ watching' = TRUE /\ mpc' = "spawn"
  /\ UNCHANGED <<worldVars, lockedVars, workerVars, rpc, issued>>

Spawn ==
  /\ mpc = "spawn"
  /\ wpc' = "wait" /\ mpc' = "request"
  /\ UNCHANGED <<worldVars, lockedVars, watching, scan, tokenVars, rpc, issued>>

FirstRequest ==
  /\ mpc = "request" /\ Request(Main, TRUE)
  /\ mpc' = "running"
  /\ UNCHANGED worldVars

\* The critical section of stop.  It also ends a start that threw.
Stop ==
  /\ mpc \in {"watch", "spawn", "running"} /\ rpc[Main] = "idle" /\ ~catalog.stopped
  /\ catalog' = [catalog EXCEPT !.stopped = TRUE, !.scanning = FALSE, !.devices = {}]
  /\ scanStop' = TRUE /\ changed' = FALSE
  /\ mpc' = "unwatch"
  /\ UNCHANGED <<worldVars, pending, epoch, mountEpoch, watching, workerVars, rpc, issued>>

\* Unregistering waits for a notification that is being delivered.
Unwatch ==
  /\ mpc = "unwatch" /\ rpc[Watcher] = "idle"
  /\ watching' = FALSE /\ mpc' = "join"
  /\ UNCHANGED <<worldVars, lockedVars, workerVars, rpc, issued>>

Detached == TRUE  \* mutant: the worker is not joined
Joinable == wpc \in {"none", "ended"}

Join ==
  /\ mpc = "join" /\ Joinable
  /\ mpc' = "stopped"
  /\ UNCHANGED <<worldVars, lockedVars, watching, workerVars, rpc, issued>>

-----------------------------------------------------------------------------
(* The world.                                                              *)

Plug(k) ==
  /\ changes + refreshes <= MaxInputs /\ mount[k] = 0
  /\ changes' = changes + 1
  /\ mount' = [mount EXCEPT ![k] = changes']
  /\ events' = IF watching THEN events + 1 ELSE events
  /\ UNCHANGED <<refreshes, lockedVars, watching, workerVars, rpc, mpc, issued>>

Unplug(k) ==
  /\ changes + refreshes <= MaxInputs /\ mount[k] # 0
  /\ changes' = changes + 1
  /\ mount' = [mount EXCEPT ![k] = 0]
  /\ events' = IF watching THEN events + 1 ELSE events
  /\ UNCHANGED <<refreshes, lockedVars, watching, workerVars, rpc, mpc, issued>>

-----------------------------------------------------------------------------
Init ==
  /\ mount \in [Keys -> {0, 1}] /\ changes = 1 /\ events = 0 /\ refreshes = 0
  /\ catalog = [revision |-> 0, scanning |-> FALSE, stopped |-> FALSE,
                failed |-> FALSE, devices |-> {}]
  /\ pending = FALSE /\ scanStop = FALSE /\ changed = FALSE
  /\ epoch = 0 /\ mountEpoch = 0 /\ watching = FALSE
  /\ wpc = "none" /\ scan = NoScan
  /\ tokens = [k \in Keys |-> 0] /\ nextToken = 0 /\ tokenMount = 0
  /\ rpc = [t \in Threads |-> "idle"] /\ mpc = "new"
  /\ issued = {}

Scan ==
  \/ Take \/ Enumerate \/ Fail \/ Visited \/ Discard \/ End
  \/ \E k \in Keys : Read(k) \/ \E i \in 0..changes : Record(k, i)
Lifecycle == Start \/ Watch \/ Spawn \/ FirstRequest \/ Stop \/ Unwatch \/ Join
World == \E k \in Keys : Plug(k) \/ Unplug(k)

Next ==
  \/ Scan \/ Publish \/ WorkerCallback \/ Lifecycle \/ World \/ Notified
  \/ \E t \in Users : Refresh(t)
  \/ \E t \in Threads : Callback(t)

Spec == Init /\ [][Next]_discoveryVars

\* Threads run on; the system delivers its notifications.
Threading ==
  /\ WF_discoveryVars(Scan \/ Publish) /\ WF_discoveryVars(WorkerCallback)
  /\ WF_discoveryVars(Notified)
  /\ \A t \in Threads : WF_discoveryVars(Callback(t))
  /\ WF_discoveryVars(Start \/ Watch \/ Spawn \/ FirstRequest \/ Unwatch \/ Join)

FairSpec == Spec /\ Threading

-----------------------------------------------------------------------------
(***************************************************************************)
(* A handle that is_current accepts, whenever it was given out, names a    *)
(* device as it is mounted now, unless a notification is on its way: no    *)
(* scan that began before a change survives it.                            *)
(***************************************************************************)
CurrentIsPresent ==
  \A s \in issued : s.instance # 0 /\ IsCurrent(s.token, s.generation, s.revision) =>
    mount[s.key] = s.instance \/ events > 0

(***************************************************************************)
(* A token is never used again for another device or another generation.   *)
(***************************************************************************)
TokenNamesOneMount ==
  \A r, s \in issued : r.token = s.token => r.key = s.key /\ r.generation = s.generation

(***************************************************************************)
(* A finished catalog that is not a failure shows every device that is     *)
(* mounted, unless a notification is on its way.                           *)
(***************************************************************************)
CatalogComplete ==
  catalog.revision > 0 /\ ~catalog.scanning /\ ~catalog.stopped /\ ~catalog.failed /\ events = 0 =>
    \A k \in Keys : mount[k] # 0 => \E s \in catalog.devices : s.key = k

(***************************************************************************)
(* An old scan never replaces a newer state: revisions only grow, and what *)
(* was published under one is changed by the next request or stop alone.   *)
(***************************************************************************)
NoOldResult ==
  [][\/ catalog'.revision > catalog.revision
     \/ /\ catalog'.revision = catalog.revision
        /\ catalog.scanning \/ catalog' = catalog \/ catalog'.stopped]_discoveryVars

(***************************************************************************)
(* When stop has returned neither the worker nor the watcher publishes or  *)
(* calls back any more.                                                    *)
(***************************************************************************)
SilentAfterStop ==
  [][mpc = "stopped" => UNCHANGED <<catalog, wpc, rpc[Watcher]>>]_discoveryVars

(***************************************************************************)
(* Every request is answered: scanning ends, whatever requests and changes *)
(* arrive during a scan, once they cease.                                  *)
(***************************************************************************)
ScanEnds == catalog.scanning ~> ~catalog.scanning

=============================================================================
