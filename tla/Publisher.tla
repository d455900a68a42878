----------------------------- MODULE Publisher -----------------------------
(* The durable build worker.  Each server process runs one worker loop; a   *)
(* recovery request of an administrator runs beside it.  Both work under    *)
(* one PostgreSQL advisory lock held by a pinned session; their statements  *)
(* commit one by one, and calls of the Pages cloud happen in between.  A    *)
(* process may stop anywhere, and its session may break without it knowing  *)
(* until its next statement.                                                *)
(*                                                                          *)
(* A deployment is named by the key of the build whose submission made it.  *)
EXTENDS Naturals

CONSTANTS
  Keys,           \* idempotency keys of the builds
  Targets,        \* publisher configurations: project, site, URL, executable
  Workers,        \* server processes running Reconcile every 15 seconds
  Operators,      \* recovery requests in flight
  None

ASSUME PublisherAssumption ==
  /\ Workers \cap Operators = {}
  /\ None \notin Keys \cup Targets \cup Workers \cup Operators

VARIABLES
  tasks,    \* table publisher_builds, by idempotency key
  config,   \* the configuration each server process was started with
  lock,     \* the process whose session holds the worker lock
  procs,    \* local state of workers and recovery requests
  cloud,    \* Pages: the deployment of each build
  flying,   \* builds with a creation request on its way to the cloud
  calls,    \* history: creation requests sent for each build
  builtBy,  \* history: configuration of the server that sent the last one
  steady    \* history: the servers have had one configuration and kept their sessions

vars == <<tasks, config, lock, procs, cloud, flying, calls, builtBy, steady>>
local == <<config, cloud, flying, calls, builtBy, steady>>

Processes == Workers \cup Operators
ActivePhases == {"queued", "building", "submitting", "deployed"}
Phases == {"none", "succeeded", "failed"} \cup ActivePhases

\* error: a message is recorded.  deployment: the bound deployment id.
Task == [phase : Phases, target : Targets \cup {None}, error : BOOLEAN,
         deployment : Keys \cup {None}]
NoTask == [phase |-> "none", target |-> None, error |-> FALSE, deployment |-> None]

\* task is the row as the process last read or wrote it.
Proc == [pc : {"idle", "advance", "build", "deploy", "await", "polled", "looked", "resolve"},
         key : Keys \cup {None}, task : Task,
         seen : {"none", "building", "succeeded", "failed"}]
Idle == [pc |-> "idle", key |-> None, task |-> NoTask, seen |-> "none"]

Active(key) == tasks[key].phase \in ActivePhases

----------------------------------------------------------------------------
\* Trigger and Enqueue: one statement, outside the worker lock.  A key that
\* exists keeps its task; the index on active phases refuses a second one.

\* Mutant of Enqueue: the active index is not there.
EnqueueSecond(key, target) ==
  /\ tasks[key] = NoTask
  /\ tasks' = [tasks EXCEPT ![key] = [NoTask EXCEPT !.phase = "queued", !.target = target]]
  /\ UNCHANGED <<lock, procs>> /\ UNCHANGED local

Enqueue(key, target) ==
  /\ tasks[key] = NoTask
  /\ \A other \in Keys : ~Active(other)
  /\ tasks' = [tasks EXCEPT ![key] = [NoTask EXCEPT !.phase = "queued", !.target = target]]
  /\ UNCHANGED <<lock, procs>> /\ UNCHANGED local

----------------------------------------------------------------------------
\* The worker lock and the guarded session.

\* Update through the lock's session, if the task is in the expected phase.
Update(p, expected, task) ==
  LET key == procs[p].key IN
  /\ lock = p
  /\ tasks[key].phase = expected
  /\ tasks' = [tasks EXCEPT ![key] = task]

\* The call returns and its session, if it still holds the lock, gives it up.
Return(p) ==
  /\ procs' = [procs EXCEPT ![p] = Idle]
  /\ lock' = IF lock = p THEN None ELSE lock

Goto(p, pc, task) == procs' = [procs EXCEPT ![p].pc = pc, ![p].task = task]

\* Mutant of LockFree: the answer of pg_try_advisory_lock is ignored.
LockIgnored == TRUE

\* pg_try_advisory_lock takes the lock only if no session holds it.
LockFree == lock = None

\* Mutant of TakeTask: only queued tasks are looked for, not interrupted ones.
TakeQueued(w) ==
  /\ procs[w] = Idle
  /\ LockFree
  /\ \E key \in Keys :
       /\ tasks[key].phase = "queued"
       /\ procs' = [procs EXCEPT ![w] = [Idle EXCEPT !.pc = "advance", !.key = key,
                                                     !.task = tasks[key]]]
  /\ lock' = w
  /\ UNCHANGED tasks /\ UNCHANGED local

\* WithLock and Active: a process that does not get the lock does nothing.
TakeTask(w) ==
  /\ procs[w] = Idle
  /\ LockFree
  /\ \E key \in Keys :
       /\ Active(key)
       /\ procs' = [procs EXCEPT ![w] = [Idle EXCEPT !.pc = "advance", !.key = key,
                                                     !.task = tasks[key]]]
  /\ lock' = w
  /\ UNCHANGED tasks /\ UNCHANGED local

----------------------------------------------------------------------------
\* Reconcile, by the phase of the active task.

\* Mutant of Drifted: the frozen target is not compared.
NeverDrifted(w) == FALSE

\* The configuration differs from the task's; a deployed task needs none.
Drifted(w) == procs[w].task.phase # "deployed" /\ procs[w].task.target # config[w]

ReportDrift(w) ==
  LET task == procs[w].task IN
  /\ procs[w].pc = "advance"
  /\ Drifted(w)
  /\ Update(w, task.phase, [task EXCEPT !.error = TRUE])
  /\ Return(w)
  /\ UNCHANGED local

\* A submission of unknown outcome is recorded as such, and never sent again.
ReportUncertain(w) ==
  LET task == procs[w].task IN
  /\ procs[w].pc = "advance"
  /\ ~Drifted(w)
  /\ task.phase = "submitting"
  /\ \/ ~task.error /\ Update(w, "submitting", [task EXCEPT !.error = TRUE])
     \/ task.error /\ UNCHANGED tasks
  /\ Return(w)
  /\ UNCHANGED local

StartBuild(w) ==
  LET task == [procs[w].task EXCEPT !.phase = "building", !.error = FALSE] IN
  /\ procs[w].pc = "advance"
  /\ ~Drifted(w)
  /\ procs[w].task.phase \in {"queued", "building"}
  /\ Update(w, procs[w].task.phase, task)
  /\ Goto(w, "build", task)
  /\ UNCHANGED lock /\ UNCHANGED local

\* The snapshot is refused, or its static site cannot be generated.
FailBuild(w) ==
  /\ procs[w].pc = "build"
  /\ Update(w, "building", [procs[w].task EXCEPT !.phase = "failed", !.error = TRUE])
  /\ Return(w)
  /\ UNCHANGED local

\* Mutant of PrepareDeployment: the cloud is called without recording it first.
DeployUnrecorded(w) ==
  /\ procs[w].pc = "build"
  /\ Goto(w, "deploy", procs[w].task)
  /\ UNCHANGED <<tasks, lock>> /\ UNCHANGED local

\* The site is built: the submission is recorded before the cloud is called.
PrepareDeployment(w) ==
  LET task == [procs[w].task EXCEPT !.phase = "submitting"] IN
  /\ procs[w].pc = "build"
  /\ Update(w, "building", task)
  /\ Goto(w, "deploy", task)
  /\ UNCHANGED lock /\ UNCHANGED local

\* Deploy fails before it sent the creation request: nothing was created.
FailPreparation(w) ==
  /\ procs[w].pc = "deploy"
  /\ Update(w, "submitting", [procs[w].task EXCEPT !.phase = "failed", !.error = TRUE])
  /\ Return(w)
  /\ UNCHANGED local

\* Deploy sends the one creation request.  It needs no database session.
CallCreate(w) ==
  LET key == procs[w].key IN
  /\ procs[w].pc = "deploy"
  /\ flying' = flying \cup {key}
  /\ calls' = [calls EXCEPT ![key] = @ + 1]
  /\ builtBy' = [builtBy EXCEPT ![key] = config[w]]
  /\ Goto(w, "await", procs[w].task)
  /\ UNCHANGED <<tasks, lock, config, cloud, steady>>

\* The cloud answered with the deployment, which is bound to the task.
RecordDeployed(w) ==
  LET key == procs[w].key IN
  /\ procs[w].pc = "await"
  /\ cloud[key] # "absent"
  /\ Update(w, "submitting", [procs[w].task EXCEPT !.phase = "deployed", !.deployment = key])
  /\ Return(w)
  /\ UNCHANGED local

\* A timeout, a broken connection or an answer that cannot be trusted.
RecordUncertain(w) ==
  /\ procs[w].pc = "await"
  /\ Update(w, "submitting", [procs[w].task EXCEPT !.error = TRUE])
  /\ Return(w)
  /\ UNCHANGED local

\* Pages.Get of the bound deployment.
Poll(w) ==
  /\ procs[w].pc = "advance"
  /\ procs[w].task.phase = "deployed"
  /\ procs' = [procs EXCEPT ![w].pc = "polled", ![w].seen = cloud[procs[w].task.deployment]]
  /\ UNCHANGED <<tasks, lock>> /\ UNCHANGED local

\* Pages cannot be read: the deployment stays bound and is polled again.
PollFails(w) ==
  /\ procs[w].pc = "advance"
  /\ procs[w].task.phase = "deployed"
  /\ Update(w, "deployed", [procs[w].task EXCEPT !.error = TRUE])
  /\ Return(w)
  /\ UNCHANGED local

PhaseAfter(seen) == IF seen = "building" THEN "deployed" ELSE seen

RecordPoll(w) ==
  LET seen == procs[w].seen IN
  /\ procs[w].pc = "polled"
  /\ Update(w, "deployed", [procs[w].task EXCEPT !.phase = PhaseAfter(seen),
                                                 !.error = (seen = "failed")])
  /\ Return(w)
  /\ UNCHANGED local

----------------------------------------------------------------------------
\* Recover: an administrator resolves an uncertain submission.

\* What the administrator finds on Pages: a deployment, or none and no request
\* for one under way.
Verified(key, deployment) ==
  IF deployment = None THEN cloud[key] = "absent" /\ key \notin flying
  ELSE cloud[deployment] # "absent"

\* The administrator is shown a submission as uncertain, and looks at Pages
\* before sending a recovery; things may move on in between.
Look(o, key, deployment) ==
  /\ procs[o] = Idle
  /\ tasks[key].phase = "submitting"
  /\ tasks[key].error \/ \E w \in Workers : config[w] # tasks[key].target
  /\ Verified(key, deployment)
  /\ procs' = [procs EXCEPT ![o] = [Idle EXCEPT !.pc = "looked", !.key = key,
                                     !.task.deployment = deployment]]
  /\ UNCHANGED <<tasks, lock>> /\ UNCHANGED local

\* Only in "submitting", and to bind a deployment only on a server with the
\* frozen configuration.
Recoverable(key, deployment) ==
  /\ tasks[key].phase = "submitting"
  /\ deployment # None => \E w \in Workers : config[w] = tasks[key].target

TakeRecovery(o) ==
  LET key == procs[o].key
      deployment == procs[o].task.deployment
  IN
  /\ procs[o].pc = "looked"
  /\ LockFree
  /\ Recoverable(key, deployment)
  /\ lock' = o
  /\ procs' = [procs EXCEPT ![o].pc = "resolve",
                            ![o].task = [tasks[key] EXCEPT !.deployment = deployment]]
  /\ UNCHANGED tasks /\ UNCHANGED local

\* A worker has the lock, or the task cannot be recovered (on this server).
RefuseRecovery(o) ==
  /\ procs[o].pc = "looked"
  /\ \/ ~LockFree
     \/ tasks[procs[o].key].phase # "submitting"
     \/ /\ procs[o].task.deployment # None
        /\ \E w \in Workers : config[w] # tasks[procs[o].key].target
  /\ Return(o)
  /\ UNCHANGED tasks /\ UNCHANGED local

\* The resolution commits; deployment_id is unique among the builds.
Resolve(o) ==
  LET task == procs[o].task IN
  /\ procs[o].pc = "resolve"
  /\ \/ /\ task.deployment = None
        /\ Update(o, "submitting", [task EXCEPT !.phase = "failed", !.error = TRUE])
     \/ /\ task.deployment # None
        /\ \A key \in Keys : tasks[key].deployment # task.deployment
        /\ Update(o, "submitting", [task EXCEPT !.phase = "deployed", !.error = FALSE])
  /\ Return(o)
  /\ UNCHANGED local

\* The deployment is bound to another build already: the update is refused.
RefuseResolution(o) ==
  LET task == procs[o].task IN
  /\ procs[o].pc = "resolve"
  /\ task.deployment # None
  /\ \E key \in Keys : tasks[key].deployment = task.deployment
  /\ Return(o)
  /\ UNCHANGED tasks /\ UNCHANGED local

----------------------------------------------------------------------------
\* The environment.

\* A process stops: killed, canceled, or an error of its session.
Stop(p) ==
  /\ procs[p] # Idle
  /\ Return(p)
  /\ UNCHANGED tasks /\ UNCHANGED local

\* The server drops the session, and with it the lock; the process runs on.
LoseSession(p) ==
  /\ lock = p
  /\ lock' = None
  /\ steady' = FALSE
  /\ UNCHANGED <<tasks, procs, config, cloud, flying, calls, builtBy>>

\* A server is restarted with another configuration or executable.
Reconfigure(w, target) ==
  /\ procs[w] = Idle
  /\ config[w] # target
  /\ config' = [config EXCEPT ![w] = target]
  /\ steady' = FALSE
  /\ UNCHANGED <<tasks, lock, procs, cloud, flying, calls, builtBy>>

\* The creation request reaches the cloud, or never does.
CreationLands(key) ==
  /\ key \in flying
  /\ flying' = flying \ {key}
  /\ cloud' = [cloud EXCEPT ![key] = "building"]
  /\ UNCHANGED <<tasks, config, lock, procs, calls, builtBy, steady>>

CreationIsLost(key) ==
  /\ key \in flying
  /\ flying' = flying \ {key}
  /\ UNCHANGED <<tasks, config, lock, procs, cloud, calls, builtBy, steady>>

\* Pages finishes a deployment.
DeploymentEnds(key) ==
  /\ cloud[key] = "building"
  /\ \E result \in {"succeeded", "failed"} : cloud' = [cloud EXCEPT ![key] = result]
  /\ UNCHANGED <<tasks, config, lock, procs, flying, calls, builtBy, steady>>

----------------------------------------------------------------------------
Init ==
  /\ tasks = [key \in Keys |-> NoTask]
  /\ config \in [Workers -> Targets]
  /\ lock = None
  /\ procs = [p \in Processes |-> Idle]
  /\ cloud = [key \in Keys |-> "absent"]
  /\ flying = {}
  /\ calls = [key \in Keys |-> 0]
  /\ builtBy = [key \in Keys |-> None]
  /\ steady = \A w1, w2 \in Workers : config[w1] = config[w2]

Work(w) ==
  \/ TakeTask(w) \/ ReportDrift(w) \/ ReportUncertain(w)
  \/ StartBuild(w) \/ FailBuild(w) \/ PrepareDeployment(w) \/ FailPreparation(w)
  \/ CallCreate(w) \/ RecordDeployed(w) \/ RecordUncertain(w)
  \/ Poll(w) \/ PollFails(w) \/ RecordPoll(w)

Recover(o) ==
  \/ \E key \in Keys, deployment \in Keys \cup {None} : Look(o, key, deployment)
  \/ TakeRecovery(o) \/ RefuseRecovery(o) \/ Resolve(o) \/ RefuseResolution(o)

Environment ==
  \/ \E p \in Processes : Stop(p) \/ LoseSession(p)
  \/ \E w \in Workers, target \in Targets : Reconfigure(w, target)
  \/ \E key \in Keys : CreationLands(key) \/ CreationIsLost(key) \/ DeploymentEnds(key)

Next ==
  \/ \E key \in Keys, w \in Workers : Enqueue(key, config[w])
  \/ \E w \in Workers : Work(w)
  \/ \E o \in Operators : Recover(o)
  \/ Environment

Spec == Init /\ [][Next]_vars

\* The deployment a recovery of a build should name.
RightDeployment(key) == IF cloud[key] = "absent" THEN None ELSE key
Mistaken(o) == \E key, deployment \in Keys : deployment # key /\ Look(o, key, deployment)

\* The worker loops keep running: a step that is possible again and again (no
\* outage or restart recurs at it forever) happens in the end.  Sessions break,
\* and administrators mistake one deployment for another, finitely often; a
\* process whose session broke finds out and returns.  An administrator repeats
\* the look and the recovery; the cloud decides what it was sent.
Fairness ==
  /\ <>[][~(\E p \in Processes : LoseSession(p)) /\ ~(\E o \in Operators : Mistaken(o))]_vars
  /\ \A p \in Processes : WF_vars(procs[p].pc # "looked" /\ lock # p /\ Stop(p))
  /\ \A w \in Workers :
       /\ SF_vars(TakeTask(w))
       /\ SF_vars(StartBuild(w) \/ ReportUncertain(w))
       /\ SF_vars(FailBuild(w) \/ PrepareDeployment(w))
       /\ SF_vars(FailPreparation(w) \/ CallCreate(w))
       /\ SF_vars(RecordDeployed(w) \/ RecordUncertain(w))
       /\ SF_vars(lock = w /\ Poll(w))
       /\ SF_vars(RecordPoll(w))
  /\ \A o \in Operators :
       /\ SF_vars(LockFree /\ \E key \in Keys : Look(o, key, RightDeployment(key)))
       /\ SF_vars(TakeRecovery(o))
       /\ SF_vars(Resolve(o))
       /\ WF_vars(RefuseRecovery(o))
       /\ WF_vars(RefuseResolution(o))
  /\ \A key \in Keys :
       /\ WF_vars(CreationLands(key) \/ CreationIsLost(key))
       /\ WF_vars(DeploymentEnds(key))

FairSpec == Spec /\ Fairness

----------------------------------------------------------------------------
\* Every table and every process holds values of its type.
TypeOK ==
  /\ tasks \in [Keys -> Task]
  /\ \A key \in Keys : tasks[key].phase # "none" => tasks[key].target \in Targets
  /\ config \in [Workers -> Targets]
  /\ lock \in Processes \cup {None}
  /\ procs \in [Processes -> Proc]
  /\ cloud \in [Keys -> {"absent", "building", "succeeded", "failed"}]
  /\ flying \subseteq Keys
  /\ calls \in [Keys -> Nat]
  /\ builtBy \in [Keys -> Targets \cup {None}]
  /\ steady \in BOOLEAN

\* The cloud is asked at most once to create the deployment of a build, across
\* crashes, lost answers, broken sessions and a second server: "submitting" is
\* committed before the request is sent, and nothing leads back from it.
NoSecondCreation == \A key \in Keys : calls[key] <= 1

\* A deployment is generated only by the configuration and executable frozen
\* when the build was queued, although servers of another configuration run
\* the worker loop on the same table during an upgrade.
BuiltByFrozenTarget ==
  \A key \in Keys : builtBy[key] # None => builtBy[key] = tasks[key].target

\* The result of a build with a deployment is that deployment's: the publish
\* service moves its pointer only to a site that Pages serves.
ResultIsTheDeployments ==
  \A key \in Keys :
    LET task == tasks[key] IN
    task.phase \in {"succeeded", "failed"} /\ task.deployment # None
      => cloud[task.deployment] = task.phase

\* While the servers are steady, a failed build is not served and never will be: no
\* deployment of it went live, and none can still be created by a request or a
\* worker under way.
FailedBuildStaysOff ==
  \A key \in Keys : tasks[key].phase = "failed" /\ steady =>
    /\ cloud[key] \in {"absent", "failed"}
    /\ key \notin flying
    /\ \A w \in Workers : procs[w].key = key => procs[w].pc # "deploy"

\* The result of a build is what Pages shows of it, now and later.
ResultsAreReal == ResultIsTheDeployments /\ FailedBuildStaysOff

\* Mutant of StatusOf: a task with a recorded message is reported as failed.
StatusByError(task) ==
  IF task.error THEN "failed" ELSE IF task.phase \in ActivePhases THEN "running" ELSE task.phase

\* What Status answers: "queued" and the phases in between are not final.
StatusOf(task) ==
  IF task.phase \in ActivePhases THEN "running" ELSE task.phase

\* The worker implements what the publish service relies on.
Trigger == INSTANCE BuildTrigger WITH status <- [key \in Keys |-> StatusOf(tasks[key])]
ImplementsTrigger == Trigger!Spec

\* Every queued build ends, given a recovery of each uncertain submission.
BuildsEnd == \A key \in Keys : Active(key) ~> tasks[key].phase \in {"succeeded", "failed"}

\* The comment on Reconcile: a task advances while its process holds the
\* publishing lock, the request to the cloud included.
SubmitsUnderLock ==
  [][\A w \in Workers : procs[w].pc = "deploy" /\ procs'[w].pc = "await" => lock = w]_vars
============================================================================
