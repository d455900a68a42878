---------------------------- MODULE ServerProcess ----------------------------
(***************************************************************************)
(* The server process (cmd/api/main.go): start-up in either environment,   *)
(* the reconciler beside the HTTP server, and the shutdown that has to     *)
(* drain the requests, stop the reconciler and release the stores in that  *)
(* order.  A development process owns the blob store of LocalBlobs, a      *)
(* production process a database pool.                                     *)
(***************************************************************************)
EXTENDS LocalBlobs

VARIABLES
  mode,      \* settings.Environment
  main,      \* where run() stands
  db,        \* the pool that buildProductionDependencies opened
  rec,       \* the goroutine of startPublishReconciler
  cancelled, \* ctx of signal.NotifyContext
  how        \* how runServer returned

procVars == <<mode, main, db, rec, cancelled, how>>
vars == <<blobVars, procVars>>

Starting == {"open", "setup", "handler", "start"}
Closing == {"close", "wait", "remove"}
Idle == \A p \in Procs : pc[p] = "idle"

ProcessInit ==
  /\ BlobInit
  /\ main = (IF mode = "production" THEN "open" ELSE "handler")
  /\ db = "none" /\ rec = "off" /\ cancelled = FALSE /\ how = "none"

Init == mode \in {"production", "development"} /\ ProcessInit

(***************************************************************************)
(* Start-up: run 105-128, buildProductionDependencies, buildHandler.       *)
(***************************************************************************)
OpenDatabase ==
  /\ main = "open"
  /\ \/ db' = "open" /\ main' = "setup"
     \/ db' = db /\ main' = "exited"
  /\ UNCHANGED <<blobVars, mode, rec, cancelled, how>>

\* Object storage, migration, Pages, generator, management pages, Health and
\* the build worker, in turn: the first that fails closes the database.
SetUp ==
  /\ main = "setup"
  /\ \/ main' = "handler" /\ UNCHANGED db
     \/ main' = "exited" /\ db' = "closed"
  /\ UNCHANGED <<blobVars, mode, rec, cancelled, how>>

\* From here on the deferred closeResources runs whatever happens.
BuildHandler ==
  /\ main = "handler"
  /\ main' \in {"start", "close"}
  /\ UNCHANGED <<blobVars, mode, db, rec, cancelled, how>>

StartReconciler ==
  /\ main = "start"
  /\ rec' = "run" /\ main' = "serving"
  /\ UNCHANGED <<blobVars, mode, db, cancelled, how>>

(***************************************************************************)
(* Requests and the reconciler.                                            *)
(***************************************************************************)
\* LocalUploads is set in development only.
Arrive(p, request, k) ==
  /\ main = "serving" /\ pc[p] = "idle"
  /\ request \in (IF mode = "production" THEN {"api"} ELSE Requests)
  /\ pc' = [pc EXCEPT ![p] = request] /\ key' = [key EXCEPT ![p] = k]
  /\ UNCHANGED <<reservations, objects, files, root, closed, gone, fate, procVars>>

\* An API handler of production runs its statements and answers.
Api(p) ==
  /\ At(p, "api") /\ Ends(p) /\ SameStore /\ UNCHANGED procVars

HandlerRuns(p) == HandlerStep(p) /\ UNCHANGED procVars
TransferRuns(p) == TransferEnds(p) /\ UNCHANGED procVars
TimePasses(k) == Expire(k) /\ UNCHANGED procVars

Reconciled ==
  /\ rec = "run" /\ rec' = "sleep"
  /\ UNCHANGED <<blobVars, mode, main, db, cancelled, how>>

\* select picks either ready channel: a cancelled loop may run once more.
TimerFires ==
  /\ rec = "sleep" /\ rec' = "run"
  /\ UNCHANGED <<blobVars, mode, main, db, cancelled, how>>

LoopReturns ==
  /\ rec = "sleep" /\ (cancelled \/ main = "stopping")
  /\ rec' = "done"
  /\ UNCHANGED <<blobVars, mode, main, db, cancelled, how>>

(***************************************************************************)
(* Shutdown: runServer 466-482, then the deferred calls of run.            *)
(***************************************************************************)
Signal ==
  /\ main # "exited" /\ ~cancelled /\ cancelled' = TRUE
  /\ UNCHANGED <<blobVars, mode, main, db, rec, how>>

\* Shutdown closes the listener; accepted requests go on.
Drain ==
  /\ main = "serving" /\ cancelled
  /\ main' = "draining"
  /\ UNCHANGED <<blobVars, mode, db, rec, cancelled, how>>

DrainEnds ==
  /\ main = "draining" /\ Idle
  /\ how' = "drained" /\ main' = "stopping"
  /\ UNCHANGED <<blobVars, mode, db, rec, cancelled>>

\* Mutant of DrainTimesOut: Shutdown without Close.
DrainGivesUp ==
  /\ main = "draining" /\ ~Idle
  /\ how' = "timeout" /\ main' = "stopping"
  /\ UNCHANGED <<blobVars, mode, db, rec, cancelled>>

\* ShutdownTimeout: server.Close disconnects who is left and waits for nobody.
DrainTimesOut ==
  /\ main = "draining" /\ ~Idle
  /\ gone' = {p \in Procs : pc[p] # "idle"}
  /\ how' = "timeout" /\ main' = "stopping"
  /\ UNCHANGED <<reservations, objects, files, root, closed, pc, key, fate, mode, db, rec, cancelled>>

\* ListenAndServe returned by itself: nobody is disconnected.
ServeFails ==
  /\ main = "serving"
  /\ how' = "failed" /\ main' = "stopping"
  /\ UNCHANGED <<blobVars, mode, db, rec, cancelled>>

\* Mutant of StopReconciler: the loop is cancelled and not waited for.
StopUnjoined ==
  /\ main = "stopping"
  /\ main' = "close"
  /\ UNCHANGED <<blobVars, mode, db, rec, cancelled, how>>

\* stopReconciler cancels the loop (LoopReturns) and waits for it.
StopReconciler ==
  /\ main = "stopping" /\ rec = "done"
  /\ main' = "close"
  /\ UNCHANGED <<blobVars, mode, db, rec, cancelled, how>>

CloseDatabase ==
  /\ main = "close" /\ mode = "production"
  /\ db' = "closed" /\ main' = "exited"
  /\ UNCHANGED <<blobVars, mode, rec, cancelled, how>>

CloseBlobs ==
  /\ mode = "development"
  /\ \/ main = "close" /\ CloseMarks /\ main' = "wait"
     \/ main = "wait" /\ CloseWaits /\ main' = "remove"
     \/ main = "remove" /\ CloseRemoves /\ main' = "exited"
  /\ UNCHANGED <<mode, db, rec, cancelled, how>>

\* A new process: the memory of the old one, and its goroutines, are gone.
Restart ==
  /\ main = "exited" /\ mode' = mode
  /\ reservations' = [k \in Keys |-> "unused"] /\ objects' = {} /\ files' = {}
  /\ root' = "none" /\ closed' = FALSE
  /\ pc' = [p \in Procs |-> "idle"] /\ gone' = {}
  /\ key' = [p \in Procs |-> SomeKey]
  /\ fate' = [k \in Keys |-> "none"]
  /\ main' = (IF mode = "production" THEN "open" ELSE "handler")
  /\ db' = "none" /\ rec' = "off" /\ cancelled' = FALSE /\ how' = "none"

MainStep ==
  \/ OpenDatabase \/ SetUp \/ BuildHandler \/ StartReconciler
  \/ Drain \/ DrainEnds \/ DrainTimesOut \/ StopReconciler
  \/ CloseDatabase \/ CloseBlobs

Next ==
  \/ MainStep \/ ServeFails \/ Signal \/ Restart
  \/ Reconciled \/ TimerFires \/ LoopReturns
  \/ \E p \in Procs, k \in Keys, request \in Requests \cup {"api"} : Arrive(p, request, k)
  \/ \E p \in Procs : Api(p) \/ HandlerRuns(p) \/ TransferRuns(p)
  \/ \E k \in Keys : TimePasses(k)

(***************************************************************************)
(* Fairness: the goroutines that do not wait for a client are scheduled;   *)
(* select is not for ever unlucky; a transfer of a disconnected client     *)
(* ends.  A connected client may take as long as it likes: the fifteen     *)
(* minutes that ServeHTTP grants are no part of the shutdown's promise.    *)
(***************************************************************************)
Fairness ==
  /\ WF_vars(MainStep)
  /\ WF_vars(Reconciled) /\ SF_vars(LoopReturns)
  /\ \A p \in Procs : WF_vars(Api(p)) /\ WF_vars(HandlerRuns(p))
  /\ \A p \in Procs : WF_vars(p \in gone /\ TransferRuns(p))

Spec == Init /\ [][Next]_vars /\ Fairness

(***************************************************************************)
(* Properties.                                                             *)
(***************************************************************************)
TypeOK ==
  /\ BlobTypeOK
  /\ mode \in {"production", "development"}
  /\ main \in Starting \cup Closing \cup {"serving", "draining", "stopping", "exited"}
  /\ db \in {"none", "open", "closed"} /\ rec \in {"off", "run", "sleep", "done"}
  /\ cancelled \in BOOLEAN /\ how \in {"none", "drained", "timeout", "failed"}

\* A process that ended, at start-up or later, left no file, no open database
\* and no reconciler behind (README.md 113 of the server: any failing step
\* closes the opened database and refuses to start).
NothingLeft == main = "exited" => files = {} /\ db # "open" /\ rec \in {"off", "done"}

\* The stores are released after their users: the reconciler has returned, and
\* a request meets a closed store only when the drain timed out or the listener
\* failed (run 105-128: the deferred calls run in reverse order).
StoresOutliveUsers ==
  db = "closed" \/ closed =>
    /\ rec \in {"off", "done"}
    /\ how \in {"none", "drained"} => Idle

\* What a process opened is released once, after its users and before its end.
ReleasedInOrder == StoresOutliveUsers /\ DirectoryOutlivesUse /\ NothingLeft

\* A cancelled process ends, although clients may be slow for ever: those that
\* are left at the timeout are disconnected, so that the clean-up cannot wait
\* for an upload (runServer 447-448).  A process whose listener failed first
\* disconnects nobody and is not covered.
ShutdownEnds == cancelled ~> main = "exited" \/ how = "failed"
==============================================================================
