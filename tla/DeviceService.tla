--------------------------- MODULE DeviceService ---------------------------
(***************************************************************************)
(* The device service of src/src/foobar/device_service.cpp over the        *)
(* discovery: the changed callback posts a task to foobar2000's main       *)
(* thread, at most one at a time, and the task tells the subscribers.      *)
(***************************************************************************)
EXTENDS Discovery

CONSTANT Listeners  \* subscriptions, each of them made once

VARIABLES
  running, posted,  \* the atomic flags; posted is notification_pending
  queue,            \* tasks on the main thread's queue
  engine,           \* the engine pointer is set
  listeners,        \* the listeners on the list
  active,           \* the listeners whose flag is set
  spc,              \* what the main thread is doing
  calls, word,      \* listeners it has still to call, and what it tells them
  \* history
  joined,           \* subscriptions made
  told,             \* told[l]: the last call l got
  stale             \* the catalog changed since l was told

taskVars == <<running, posted, queue>>
listenVars == <<engine, listeners, active, calls, word>>
historyVars == <<joined, told, stale>>
serviceVars == <<taskVars, listenVars, spc, historyVars>>
vars == <<discoveryVars, serviceVars>>

\* Where the main thread returns to.
Home == IF engine THEN "idle" ELSE "gone"

-----------------------------------------------------------------------------
(* Discovery under the service.                                            *)

\* Every subscriber is to hear of a change of the catalog.
Changes(step) ==
  /\ step
  /\ stale' = stale \cup (listeners \cap active)
  /\ UNCHANGED <<taskVars, listenVars, spc, joined, told>>

Quietly(step) == step /\ UNCHANGED serviceVars

\* post_notification
Post ==
  IF running /\ ~posted THEN queue' = queue + 1 /\ posted' = TRUE
                        ELSE UNCHANGED <<posted, queue>>

Posts(step) ==
  /\ step /\ Post
  /\ UNCHANGED <<running, listenVars, spc, historyVars>>

\* The worker, the watcher and callers of refresh run beside the main thread.
Background ==
  \/ Changes(Publish \/ Notified \/ (spc # "new" /\ \E t \in Users : Refresh(t)))
  \/ Posts(WorkerCallback \/ \E t \in Users \cup {Watcher} : Callback(t))
  \/ Quietly(Scan)

-----------------------------------------------------------------------------
(* The main thread: on_init, tasks, on_quit.                               *)

OnInit ==
  /\ spc = "new"
  /\ engine' = TRUE /\ running' = TRUE /\ spc' = "init"
  /\ UNCHANGED <<discoveryVars, posted, queue, listeners, active, calls, word, historyVars>>

Starting ==
  /\ spc = "init"
  /\ \/ Quietly(Start \/ Watch \/ Spawn \/ Unwatch \/ Join)
     \/ Quietly(mpc \in {"watch", "spawn"} /\ Stop)  \* watching or starting the thread failed
     \/ Changes(FirstRequest)
     \/ Posts(Callback(Main))

Started ==
  /\ spc = "init" /\ rpc[Main] = "idle"
  /\ mpc \in {"running", "stopped"}
  /\ running' = (mpc = "running")
  /\ spc' = "idle"
  /\ UNCHANGED <<discoveryVars, posted, queue, listenVars, historyVars>>

\* Mutant: the flag is not cleared.
RunTaskStill ==
  /\ spc \in {"idle", "gone"} /\ queue > 0
  /\ queue' = queue - 1
  /\ spc' = "task"
  /\ UNCHANGED <<discoveryVars, posted, running, listenVars, historyVars>>

RunTask ==
  /\ spc \in {"idle", "gone"} /\ queue > 0
  /\ queue' = queue - 1 /\ posted' = FALSE
  /\ spc' = "task"
  /\ UNCHANGED <<discoveryVars, running, listenVars, historyVars>>

\* deliver collects the listeners under the mutex, and drops inactive ones.
Collect(unavailable) ==
  /\ word' = IF unavailable THEN "unavailable" ELSE "changed"
  /\ calls' = listeners \cap active
  /\ listeners' = listeners \cap active
  /\ spc' = "call"
  /\ UNCHANGED <<discoveryVars, taskVars, engine, active, historyVars>>

DeliverTaskAnyway == spc = "task" /\ Collect(FALSE)  \* mutant: the task does not look at running
DeliverTask == spc = "task" /\ running /\ Collect(FALSE)

DropTask ==
  /\ spc = "task" /\ ~running
  /\ spc' = Home
  /\ UNCHANGED <<discoveryVars, taskVars, listenVars, historyVars>>

\* A listener that was cancelled meanwhile is passed over; one that is called
\* looks at the catalog.
Call(l) ==
  /\ spc = "call" /\ l \in calls
  /\ calls' = calls \ {l}
  /\ IF l \in active
       THEN /\ told' = [told EXCEPT ![l] = word]
            /\ stale' = stale \ {l}
       ELSE UNCHANGED <<told, stale>>
  /\ UNCHANGED <<discoveryVars, taskVars, engine, listeners, active, word, spc, joined>>

Delivered ==
  /\ spc = "call" /\ calls = {} /\ word = "changed"
  /\ spc' = Home
  /\ UNCHANGED <<discoveryVars, taskVars, listenVars, historyVars>>

OnQuit ==
  /\ spc = "idle"
  /\ running' = FALSE /\ spc' = "quit"
  /\ UNCHANGED <<discoveryVars, posted, queue, listenVars, historyVars>>

Stopping ==
  /\ spc = "quit"
  /\ \/ Quietly(Stop \/ Unwatch \/ Join)
     \/ mpc = "stopped" /\ Collect(TRUE)

Quitted ==
  /\ spc = "call" /\ calls = {} /\ word = "unavailable"
  /\ engine' = FALSE /\ listeners' = {}
  /\ spc' = "gone"
  /\ UNCHANGED <<discoveryVars, taskVars, active, calls, word, historyVars>>

-----------------------------------------------------------------------------
(* Subscribers.                                                            *)

Subscribe(l) ==
  /\ l \notin joined
  /\ joined' = joined \cup {l}
  /\ listeners' = listeners \cup {l} /\ active' = active \cup {l}
  /\ UNCHANGED <<discoveryVars, taskVars, engine, calls, word, spc, told, stale>>

Cancel(l) ==
  /\ l \in active
  /\ active' = active \ {l}
  /\ UNCHANGED <<discoveryVars, taskVars, engine, listeners, calls, word, spc, historyVars>>

-----------------------------------------------------------------------------
ServiceInit ==
  /\ Init
  /\ running = FALSE /\ posted = FALSE /\ queue = 0 /\ engine = FALSE
  /\ listeners = {} /\ active = {} /\ calls = {} /\ word = "changed" /\ spc = "new"
  /\ joined = {} /\ told = [l \in Listeners |-> "nothing"] /\ stale = {}

MainThread ==
  \/ Starting \/ Started \/ RunTask \/ DeliverTask \/ DropTask
  \/ (\E l \in Listeners : Call(l)) \/ Delivered \/ Stopping \/ Quitted

ServiceNext ==
  \/ Background \/ MainThread \/ OnInit \/ OnQuit
  \/ \E l \in Listeners : Subscribe(l) \/ Cancel(l)
  \/ Quietly(World)

ServiceSpec == ServiceInit /\ [][ServiceNext]_vars

\* The main thread works off its queue, and the other threads run on.
FairService ==
  /\ ServiceSpec
  /\ WF_vars(MainThread)
  /\ WF_vars(Changes(Publish)) /\ WF_vars(Changes(Notified))
  /\ WF_vars(Posts(WorkerCallback))
  /\ \A t \in Users \cup {Watcher} : WF_vars(Posts(Callback(t)))
  /\ WF_vars(Quietly(Scan))

-----------------------------------------------------------------------------
(***************************************************************************)
(* No notification is lost: after a change of the catalog each subscriber  *)
(* is called, whatever posts and deliveries overlap, unless it cancels or  *)
(* the component quits.                                                    *)
(***************************************************************************)
NotificationArrives ==
  \A l \in Listeners : l \in stale ~> l \notin stale \/ l \notin active \/ ~running

(***************************************************************************)
(* Once on_quit has returned no subscriber is called again, not even by a  *)
(* task that was posted before, nor one that subscribed since.             *)
(***************************************************************************)
QuietAfterQuit == [][~engine /\ spc # "new" => told' = told]_vars

(***************************************************************************)
(* Quitting ends: stopping the discovery does not wait for anything that   *)
(* waits for the main thread.                                              *)
(***************************************************************************)
QuitEnds == spc = "quit" ~> spc = "gone"

=============================================================================
