------------------------------ MODULE EndToEnd ------------------------------
(* From an editor's change to the live site: people who write and review    *)
(* versions (ReviewWorkflow), the publish service of a production server    *)
(* (Publishing) and its build worker (Publisher), over the one database that *)
(* main.go wires them to.  The parts meet in the version rows, which people *)
(* and the publish service both write, and in the worker's table, from which *)
(* the publish service is told the state of its builds: it has no variable  *)
(* of its own for them here.                                                *)
EXTENDS Naturals

CONSTANTS
  VersionIds, Contents, NoContent, MaxRevision,     \* see ContentVersions
  Clients, NoView,                                  \* see ReviewWorkflow
  JobKeys, Actors, HttpRequests, Reconciler, None,  \* see Publishing
  Targets, Workers, Operators                       \* see Publisher

\* What the parts assume of them.
EndToEndParameters ==
  /\ NoContent \notin Contents /\ MaxRevision \in Nat
  /\ Reconciler \notin HttpRequests /\ Workers \cap Operators = {}
  /\ None \notin VersionIds \cup JobKeys \cup Actors \cup Targets \cup Workers \cup Operators

VARIABLES
  versions,                                                            \* shared
  views, reviewed,                                                     \* people
  jobs, pointer, snapshots, procs, approvals,                          \* publish service
  tasks, config, lock, workers, cloud, flying, calls, builtBy, steady  \* worker

Worker == INSTANCE Publisher WITH procs <- workers, Keys <- JobKeys

\* publisher.Service.Status, for the key of each build.
Reported == [key \in JobKeys |-> Worker!StatusOf(tasks[key])]

Service == INSTANCE Publishing
  WITH builds <- Reported, Keys <- JobKeys, Requests <- HttpRequests
Review == INSTANCE ReviewWorkflow WITH WrittenRevisions <- Nat

reviewVars == <<views, reviewed>>
serviceVars == <<jobs, pointer, snapshots, procs, approvals>>
workerVars == <<tasks, config, lock, workers, cloud, flying, calls, builtBy, steady>>
siteVars == <<versions, reviewVars, serviceVars, workerVars>>

----------------------------------------------------------------------------
\* People change versions; an approval is noted by the publish service's history.
People ==
  /\ \/ /\ \/ \E client \in Clients, id \in VersionIds :
                Review!Open(client, id) \/ Review!Create(client, id)
           \/ \E client \in Clients :
                Review!Update(client) \/ Review!Submit(client) \/ Review!Reject(client)
        /\ UNCHANGED approvals
     \/ \E client \in Clients :
          /\ Review!Approve(client)
          /\ approvals' = approvals \cup {<<views[client].id, versions[views[client].id].content>>}
  /\ UNCHANGED <<jobs, pointer, snapshots, procs>> /\ UNCHANGED workerVars

\* Trigger of the worker, called by the publish service: it queues a new build
\* with the configuration of the server that handles the call, or nothing.
Trigger ==
  \/ UNCHANGED workerVars
  \/ \E key \in JobKeys, w \in Workers : Worker!Enqueue(key, config[w])

\* A step of the publish service takes from the worker what Trigger did, if the
\* step is a call of Trigger; no other step agrees with a build that appears.
Publish ==
  /\ Trigger
  /\ \/ \E p \in HttpRequests, key \in JobKeys : Service!HandleRequest(p, key)
     \/ Service!Reconcile
     \/ \E p \in Service!Processes : Service!Step(p)
  /\ UNCHANGED reviewVars

\* The worker, the recovery by administrators, and Pages.
Build ==
  /\ \/ \E w \in Workers : Worker!Work(w)
     \/ \E o \in Operators : Worker!Recover(o)
     \/ Worker!Environment
  /\ UNCHANGED <<versions, reviewVars, serviceVars>>

SiteInit == Review!Init /\ Worker!Init /\ Service!Init
SiteNext == People \/ Publish \/ Build
SiteSpec == SiteInit /\ [][SiteNext]_siteVars

----------------------------------------------------------------------------
\* What is live is what a reviewer read on the screen before approving it, and
\* it was built: its build ended well, with a deployment that Pages serves.
LiveWasReadAndBuilt ==
  pointer.version # None =>
    /\ versions[pointer.version].status = "published"
    /\ pointer.content = versions[pointer.version].content
    /\ pointer.content = reviewed[pointer.version]
    /\ \E key \in JobKeys :
         /\ jobs[key].status = "succeeded"
         /\ jobs[key].version = pointer.version /\ jobs[key].content = pointer.content
         /\ tasks[key].phase = "succeeded" /\ tasks[key].deployment # None
         /\ cloud[tasks[key].deployment] = "succeeded"

\* Each part behaves in the whole as it does alone: what the others do is what
\* its own module expects of its environment.
PublishesAsSpecified == Service!Spec
ReviewsAsSpecified == Review!Spec
BuildsAsSpecified == Worker!Spec
PartsAsSpecified == PublishesAsSpecified /\ ReviewsAsSpecified /\ BuildsAsSpecified
=============================================================================
