---------------------------- MODULE Publishing ----------------------------
(* The publish service: admission of one production job at a time, the      *)
(* build it triggers, and the pointer to what is published.  HTTP requests  *)
(* and the reconciler run the same code concurrently; between two steps of  *)
(* one of them any step of another may happen.  A transaction that takes    *)
(* the slot lock is one action; a single-statement update is one action.    *)
(*                                                                          *)
(* Jobs are keyed by their idempotency key (unique in publish_jobs), and    *)
(* builds by the key of their job: the build trigger returns the same build *)
(* for the same key (Publisher models it).  builds is the status that       *)
(* trigger reports.                                                         *)
EXTENDS ContentVersions

CONSTANTS
  Keys,         \* idempotency keys clients use
  Actors,       \* subjects allowed to publish and to roll back
  Requests,     \* concurrent HTTP requests to the publish endpoints
  Reconciler,   \* the goroutine that runs Reconcile every 15 seconds
  None          \* no version, no key, nobody

ASSUME PublishingAssumption ==
  Reconciler \notin Requests /\ None \notin VersionIds \cup Keys \cup Actors

VARIABLES
  jobs,        \* table publish_jobs, by idempotency key
  pointer,     \* table publish_pointer, slot "production"
  snapshots,   \* table publish_snapshots: contents stored so far
  builds,      \* what the build trigger reports for the build of a key
  procs,       \* local state of the requests and of the reconciler
  approvals    \* history: every version and content that passed a review

vars == <<versions, jobs, pointer, snapshots, builds, procs, approvals>>

Processes == Requests \cup {Reconciler}
Terminal == {"succeeded", "failed"}

Job == [status : {"none", "pending", "building"} \cup Terminal, op : {"publish", "rollback"},
        version : VersionIds \cup {None}, content : Contents \cup {NoContent},
        revision : Nat, by : Actors \cup {None}]
NoJob == [status |-> "none", op |-> "publish", version |-> None,
          content |-> NoContent, revision |-> 0, by |-> None]

\* A process: the step it takes next, the key it works on, the job it is about
\* to create, and what the build trigger told it.  A created job's frozen
\* fields are read from the table: they are what the process would hold.
Process == [pc : {"idle", "version", "snapshot", "create", "relookup", "trigger", "record",
                  "poll", "finish"},
            key : Keys \cup {None}, job : Job, run : {"none", "accepted", "error"} \cup Terminal]
Idle == [pc |-> "idle", key |-> None, job |-> NoJob, run |-> "none"]
At(pc, key) == [Idle EXCEPT !.pc = pc, !.key = key]

Pointer == [version : VersionIds \cup {None}, content : Contents \cup {NoContent}]
NoPointer == [version |-> None, content |-> NoContent]

Active(job) == job.status \in {"pending", "building"}
ActiveKeys == {key \in Keys : Active(jobs[key])}

\* GetSuccessfulPublishByVersion.
PublishedBefore(id) == \E key \in Keys : jobs[key].status = "succeeded" /\ jobs[key].version = id

\* existingJob: the key belongs to the same operation, version and requester.
SameRequest(job, request) ==
  job.op = request.op /\ job.version = request.version /\ job.by = request.by

----------------------------------------------------------------------------
\* A request to publish or to roll back.

\* existingJob finds no job: the request goes on to read the version.
StartRequest(p, key, request) ==
  /\ procs[p] = Idle
  /\ jobs[key] = NoJob
  /\ procs' = [procs EXCEPT ![p] = [At("version", key) EXCEPT !.job = request]]
  /\ UNCHANGED <<versions, jobs, pointer, snapshots, builds, approvals>>

\* existingJob and resumeExisting: the key has a job, submitted if still pending.
\* (A job in another status is returned, a job of another request is a conflict.)
ResumeRequest(p, key, request) ==
  /\ procs[p] = Idle
  /\ jobs[key].status = "pending"
  /\ SameRequest(jobs[key], request)
  /\ procs' = [procs EXCEPT ![p] = At("trigger", key)]
  /\ UNCHANGED <<versions, jobs, pointer, snapshots, builds, approvals>>

Publishable(op, id) ==
  \/ op = "publish" /\ versions[id].status = "in_review" /\ versions[id].approved
  \/ /\ op = "rollback"
     /\ versions[id].status \in {"archived", "published"}
     /\ PublishedBefore(id)

\* GetVersion and its validation; newJob takes revision and checksum from it.
ReadVersion(p) ==
  LET job == procs[p].job
      version == versions[job.version]
  IN
  /\ procs[p].pc = "version"
  /\ procs' = [procs EXCEPT ![p] =
       IF Publishable(job.op, job.version)
       THEN [@ EXCEPT !.pc = "snapshot", !.job.content = version.content,
                      !.job.revision = version.revision]
       ELSE Idle]
  /\ UNCHANGED <<versions, jobs, pointer, snapshots, builds, approvals>>

\* ensureSnapshot, before and outside the transaction that creates the job.
SaveSnapshot(p) ==
  /\ procs[p].pc = "snapshot"
  /\ snapshots' = snapshots \cup {procs[p].job.content}
  /\ procs' = [procs EXCEPT ![p].pc = "create"]
  /\ UNCHANGED <<versions, jobs, pointer, builds, approvals>>

\* What createJob compares with the target it reads again under the lock.
TargetUnchanged(job) ==
  /\ versions[job.version].revision = job.revision
  /\ versions[job.version].content = job.content
  /\ \/ /\ job.op = "publish"
        /\ CanTransition(versions[job.version].status, "publishing", versions[job.version].approved)
     \/ /\ job.op = "rollback"
        /\ versions[job.version].status \in {"archived", "published"}

\* Mutant of CanAdmit: the slot is not checked.
CanAdmitSecond(key, job) == jobs[key] = NoJob /\ TargetUnchanged(job)

\* createJob's conditions: a free slot, an unchanged target, an unused key.
CanAdmit(key, job) ==
  /\ ActiveKeys = {}
  /\ TargetUnchanged(job)
  /\ jobs[key] = NoJob

\* Mutant of NewJob: the job keeps the revision read before the freeze.
NewJobUnfrozen(request) == [request EXCEPT !.status = "pending"]

\* Freezing the target advances its revision, which the job then expects.
NewJob(request) ==
  [request EXCEPT !.status = "pending",
                  !.revision = IF request.op = "publish" THEN @ + 1 ELSE @]

\* createJob commits: the target is frozen and the job is the active one.
CreateJob(p) ==
  LET key == procs[p].key
      request == procs[p].job
  IN
  /\ procs[p].pc = "create"
  /\ CanAdmit(key, request)
  /\ jobs' = [jobs EXCEPT ![key] = NewJob(request)]
  /\ versions' = IF request.op = "publish"
                 THEN [versions EXCEPT ![request.version] = Admitted(@)]
                 ELSE versions
  /\ procs' = [procs EXCEPT ![p] = At("trigger", key)]
  /\ UNCHANGED <<pointer, snapshots, builds, approvals>>

\* createJob rolls back with a conflict.  (With the revision unchanged so is
\* the status: its ErrInvalidTransition cannot happen after ReadVersion.)
RefuseJob(p) ==
  /\ procs[p].pc = "create"
  /\ ~CanAdmit(procs[p].key, procs[p].job)
  /\ procs' = [procs EXCEPT ![p].pc = "relookup"]
  /\ UNCHANGED <<versions, jobs, pointer, snapshots, builds, approvals>>

\* After a conflict existingJob is asked again: another request with the same
\* key may have created the job in between.
LookUpAgain(p) ==
  LET key == procs[p].key IN
  /\ procs[p].pc = "relookup"
  /\ procs' = [procs EXCEPT ![p] =
       IF jobs[key].status = "pending" /\ SameRequest(jobs[key], procs[p].job)
       THEN At("trigger", key) ELSE Idle]
  /\ UNCHANGED <<versions, jobs, pointer, snapshots, builds, approvals>>

----------------------------------------------------------------------------
\* trigger: submit the build of a job, then record the outcome.

\* The trigger accepts a key it knows, and a new one when no build is running.
CanEnqueue(key) ==
  builds[key] # "none" \/ \A other \in Keys : builds[other] # "running"

\* Mutant of Enqueued: a finished build is started again for the same key.
EnqueuedAgain(key) == [builds EXCEPT ![key] = "running"]

Enqueued(key) == [builds EXCEPT ![key] = IF @ = "none" THEN "running" ELSE @]

SubmitBuild(p) ==
  LET key == procs[p].key IN
  /\ procs[p].pc = "trigger"
  /\ CanEnqueue(key)
  /\ builds' = Enqueued(key)
  /\ procs' = [procs EXCEPT ![p].pc = "record", ![p].run = "accepted"]
  /\ UNCHANGED <<versions, jobs, pointer, snapshots, approvals>>

\* The trigger answers with an error, with or without having taken the build.
SubmitBuildFails(p) ==
  LET key == procs[p].key IN
  /\ procs[p].pc = "trigger"
  /\ \/ UNCHANGED builds
     \/ CanEnqueue(key) /\ builds' = Enqueued(key)
  /\ procs' = [procs EXCEPT ![p].pc = "record", ![p].run = "error"]
  /\ UNCHANGED <<versions, jobs, pointer, snapshots, approvals>>

\* UpdatePublishJob with the build id, if the job is still pending; a conflict
\* means that another process recorded it first, and is not an error.
RecordBuild(p) ==
  LET key == procs[p].key IN
  /\ procs[p].pc = "record" /\ procs[p].run = "accepted"
  /\ jobs' = [jobs EXCEPT ![key].status = IF @ = "pending" THEN "building" ELSE @]
  /\ procs' = [procs EXCEPT ![p] = Idle]
  /\ UNCHANGED <<versions, pointer, snapshots, builds, approvals>>

\* Mutant of RecordError: the update does not expect a pending job.
RecordErrorAlways(p) ==
  /\ procs[p].pc = "record" /\ procs[p].run = "error"
  /\ jobs' = [jobs EXCEPT ![procs[p].key].status = "pending"]
  /\ procs' = [procs EXCEPT ![p] = Idle]
  /\ UNCHANGED <<versions, pointer, snapshots, builds, approvals>>

\* UpdatePublishJob with the error message: a pending job stays pending.
RecordError(p) ==
  /\ procs[p].pc = "record" /\ procs[p].run = "error"
  /\ procs' = [procs EXCEPT ![p] = Idle]
  /\ UNCHANGED <<versions, jobs, pointer, snapshots, builds, approvals>>

----------------------------------------------------------------------------
\* RefreshStatus: poll the build of a building job, then finish the job.

RefreshStatus(p, key) ==
  /\ procs[p] = Idle
  /\ jobs[key].status = "building"
  /\ procs' = [procs EXCEPT ![p] = At("poll", key)]
  /\ UNCHANGED <<versions, jobs, pointer, snapshots, builds, approvals>>

\* Mutant of Reconcile: a pending job is left to the requests.
ReconcileBuilding ==
  /\ procs[Reconciler] = Idle
  /\ \E key \in ActiveKeys :
       /\ jobs[key].status = "building"
       /\ procs' = [procs EXCEPT ![Reconciler] = At("poll", key)]
  /\ UNCHANGED <<versions, jobs, pointer, snapshots, builds, approvals>>

\* Reconcile: the active job is resumed if pending, refreshed if building.
Reconcile ==
  /\ procs[Reconciler] = Idle
  /\ \E key \in ActiveKeys :
       procs' = [procs EXCEPT ![Reconciler] =
                   At(IF jobs[key].status = "pending" THEN "trigger" ELSE "poll", key)]
  /\ UNCHANGED <<versions, jobs, pointer, snapshots, builds, approvals>>

\* Mutant of PollBuild: a build that has not failed counts as succeeded.
PollBuildAccepted(p) ==
  LET key == procs[p].key IN
  /\ procs[p].pc = "poll"
  /\ procs' = [procs EXCEPT ![p].pc = "finish",
                            ![p].run = IF builds[key] = "failed" THEN "failed" ELSE "succeeded"]
  /\ UNCHANGED <<versions, jobs, pointer, snapshots, builds, approvals>>

\* Mutant of PollBuild: a Status call that fails counts as a failed build.
PollBuildGivesUp(p) ==
  LET key == procs[p].key IN
  /\ procs[p].pc = "poll"
  /\ \/ procs' = [procs EXCEPT ![p].pc = "finish", ![p].run = "failed"]
     \/ procs' = [procs EXCEPT ![p] =
          IF builds[key] \in Terminal THEN [@ EXCEPT !.pc = "finish", !.run = builds[key]] ELSE Idle]
  /\ UNCHANGED <<versions, jobs, pointer, snapshots, builds, approvals>>

\* buildTrigger.Status: only a finished build leads on to the transaction; an
\* error of the call leaves the job as it is.
PollBuild(p) ==
  LET key == procs[p].key IN
  /\ procs[p].pc = "poll"
  /\ procs' = [procs EXCEPT ![p] =
       IF builds[key] \in Terminal THEN [@ EXCEPT !.pc = "finish", !.run = builds[key]] ELSE Idle]
  /\ UNCHANGED <<versions, jobs, pointer, snapshots, builds, approvals>>

\* targetMatchesJob, on the target of the job.
TargetMatchesJob(job) ==
  LET target == versions[job.version] IN
  /\ target.revision = job.revision
  /\ target.content = job.content
  /\ \/ job.op = "publish" /\ target.status = "publishing" /\ target.approved
     \/ job.op = "rollback" /\ target.status \in {"archived", "published"}

\* Mutant of Replaced: the version the pointer leaves stays published.
ReplacedOnly(id) == [versions EXCEPT ![id] = Promoted(@)]

\* The version the pointer leaves is archived, the new one is published.
Replaced(id) ==
  [version \in VersionIds |->
     IF version = id THEN Promoted(versions[id])
     ELSE IF version = pointer.version THEN Archived(versions[version])
     ELSE versions[version]]

\* Mutant of FinalizeJob: the job is left to be finished by a later call.
FinalizeTargetOnly(p) ==
  LET job == jobs[procs[p].key] IN
  /\ procs[p].pc = "finish" /\ procs[p].run = "succeeded"
  /\ job.status = "building"
  /\ TargetMatchesJob(job)
  /\ versions' = Replaced(job.version)
  /\ pointer' = [version |-> job.version, content |-> job.content]
  /\ procs' = [procs EXCEPT ![p] = Idle]
  /\ UNCHANGED <<jobs, snapshots, builds, approvals>>

\* The transaction of RefreshStatus for a build that succeeded.
FinalizeJob(p) ==
  LET key == procs[p].key
      job == jobs[key]
  IN
  /\ procs[p].pc = "finish" /\ procs[p].run = "succeeded"
  /\ job.status = "building"
  /\ TargetMatchesJob(job)
  /\ versions' = Replaced(job.version)
  /\ pointer' = [version |-> job.version, content |-> job.content]
  /\ jobs' = [jobs EXCEPT ![key].status = "succeeded"]
  /\ procs' = [procs EXCEPT ![p] = Idle]
  /\ UNCHANGED <<snapshots, builds, approvals>>

\* The same transaction when the target changed while the build ran.
FailChangedJob(p) ==
  LET key == procs[p].key
      job == jobs[key]
  IN
  /\ procs[p].pc = "finish" /\ procs[p].run = "succeeded"
  /\ job.status = "building"
  /\ ~TargetMatchesJob(job)
  /\ versions' = [versions EXCEPT ![job.version] = Released(@, FALSE)]
  /\ jobs' = [jobs EXCEPT ![key].status = "failed"]
  /\ procs' = [procs EXCEPT ![p] = Idle]
  /\ UNCHANGED <<pointer, snapshots, builds, approvals>>

\* Mutant of FailJob: the job ends without releasing its target.
FailJobAlone(p) ==
  LET key == procs[p].key IN
  /\ procs[p].pc = "finish" /\ procs[p].run = "failed"
  /\ jobs[key].status = "building"
  /\ jobs' = [jobs EXCEPT ![key].status = "failed"]
  /\ procs' = [procs EXCEPT ![p] = Idle]
  /\ UNCHANGED <<versions, pointer, snapshots, builds, approvals>>

\* failBuildingJob: the build failed, the target goes back to review.
FailJob(p) ==
  LET key == procs[p].key
      job == jobs[key]
  IN
  /\ procs[p].pc = "finish" /\ procs[p].run = "failed"
  /\ job.status = "building"
  /\ versions' = IF job.op = "publish"
                 THEN [versions EXCEPT ![job.version] = Released(@, TargetMatchesJob(job))]
                 ELSE versions
  /\ jobs' = [jobs EXCEPT ![key].status = "failed"]
  /\ procs' = [procs EXCEPT ![p] = Idle]
  /\ UNCHANGED <<pointer, snapshots, builds, approvals>>

\* The job read again under the lock is finished already: nothing to do.
AlreadyFinished(p) ==
  /\ procs[p].pc = "finish"
  /\ jobs[procs[p].key].status # "building"
  /\ procs' = [procs EXCEPT ![p] = Idle]
  /\ UNCHANGED <<versions, jobs, pointer, snapshots, builds, approvals>>

----------------------------------------------------------------------------
\* A process stops between two steps: an error of the database, of the assets
\* or of the trigger, a canceled request, a restart of the server.
Abandon(p) ==
  /\ procs[p] # Idle
  /\ procs' = [procs EXCEPT ![p] = Idle]
  /\ UNCHANGED <<versions, jobs, pointer, snapshots, builds, approvals>>

\* The worker finishes the build of a key, one way or the other.
BuildEnds(key) ==
  /\ builds[key] = "running"
  /\ \E result \in Terminal : builds' = [builds EXCEPT ![key] = result]
  /\ UNCHANGED <<versions, jobs, pointer, snapshots, procs, approvals>>

\* The content service, for clients holding any revision.
EditContent(id) ==
  /\ \/ \E c \in Contents : CreateNamedDraft(id, c)
     \/ \E source \in VersionIds : CloneVersion(source, id)
     \/ \E expected \in 0 .. MaxRevision :
          \/ \E c \in Contents : UpdateDraft(id, expected, c)
          \/ SubmitReview(id, expected)
          \/ RejectReview(id, expected)
  /\ UNCHANGED <<jobs, pointer, snapshots, builds, procs, approvals>>

ApproveContent(id) ==
  /\ \E expected \in 0 .. MaxRevision : ApproveReview(id, expected)
  /\ approvals' = approvals \cup {<<id, versions[id].content>>}
  /\ UNCHANGED <<jobs, pointer, snapshots, builds, procs>>

----------------------------------------------------------------------------
Init ==
  /\ VersionsInit
  /\ jobs = [key \in Keys |-> NoJob]
  /\ pointer = NoPointer
  /\ snapshots = {}
  /\ builds = [key \in Keys |-> "none"]
  /\ procs = [p \in Processes |-> Idle]
  /\ approvals = {}

\* What the body and the path of a publish or rollback request say.
RequestOf(op, id, actor) == [NoJob EXCEPT !.op = op, !.version = id, !.by = actor]

HandleRequest(p, key) ==
  \/ \E op \in {"publish", "rollback"}, id \in VersionIds, actor \in Actors :
       \/ StartRequest(p, key, RequestOf(op, id, actor))
       \/ ResumeRequest(p, key, RequestOf(op, id, actor))
  \/ RefreshStatus(p, key)

Step(p) ==
  \/ ReadVersion(p) \/ SaveSnapshot(p) \/ CreateJob(p) \/ RefuseJob(p) \/ LookUpAgain(p)
  \/ SubmitBuild(p) \/ SubmitBuildFails(p) \/ RecordBuild(p) \/ RecordError(p)
  \/ PollBuild(p) \/ FinalizeJob(p) \/ FailChangedJob(p) \/ FailJob(p) \/ AlreadyFinished(p)
  \/ Abandon(p)

Next ==
  \/ \E p \in Requests, key \in Keys : HandleRequest(p, key)
  \/ Reconcile
  \/ \E p \in Processes : Step(p)
  \/ \E key \in Keys : BuildEnds(key)
  \/ \E id \in VersionIds : EditContent(id) \/ ApproveContent(id)

Spec == Init /\ [][Next]_vars

\* The reconciler keeps running: its ticks never stop, and a call of it that is
\* possible again and again (no outage lasts forever) succeeds in the end.  The
\* worker finishes every build.  Nothing is assumed of HTTP requests.
Fairness ==
  /\ WF_vars(Reconcile)
  /\ SF_vars(SubmitBuild(Reconciler))
  /\ SF_vars(RecordBuild(Reconciler))
  /\ SF_vars(PollBuild(Reconciler))
  /\ SF_vars(FinalizeJob(Reconciler) \/ FailChangedJob(Reconciler) \/ FailJob(Reconciler))
  /\ WF_vars(RecordError(Reconciler) \/ AlreadyFinished(Reconciler))
  /\ \A key \in Keys : WF_vars(BuildEnds(key))

FairSpec == Spec /\ Fairness

----------------------------------------------------------------------------
\* Every table and every process holds values of its type.
TypeOK ==
  /\ VersionsTypeOK
  /\ jobs \in [Keys -> Job]
  /\ pointer \in Pointer
  /\ snapshots \subseteq Contents \cup {NoContent}
  /\ builds \in [Keys -> {"none", "running"} \cup Terminal]
  /\ procs \in [Processes -> Process]
  /\ approvals \subseteq VersionIds \X (Contents \cup {NoContent})

\* At most one production job is pending or building, although requests look
\* the slot up, read their target and store their snapshot before they lock it.
OneActiveJob == \A k1, k2 \in ActiveKeys : k1 = k2

\* Exactly the version the pointer names is published: the finalizing transaction
\* writes the old version, the new one and the pointer, and no other operation
\* writes any of them.  (That a transaction commits as a whole is PostgreSQL's.)
PublishedIsPointer ==
  \A id \in VersionIds : versions[id].status = "published" <=> pointer.version = id

\* A version is frozen in "publishing" only for an active job that still
\* matches it, so that the job's end releases it: no version is stuck there.
PublishingHasJob ==
  \A id \in VersionIds : versions[id].status = "publishing" =>
    \E key \in ActiveKeys :
      jobs[key].op = "publish" /\ jobs[key].version = id /\ TargetMatchesJob(jobs[key])

\* What the pointer serves was approved in a review of that very version, is
\* still the content of that version, and is stored for the worker to read.
PointerServesReviewedContent ==
  pointer # NoPointer =>
    /\ <<pointer.version, pointer.content>> \in approvals
    /\ versions[pointer.version].content = pointer.content
    /\ pointer.content \in snapshots

\* A build runs only for the active job, whose snapshot is stored: a late retry
\* of the trigger, by a request that read its job before it finished, starts
\* nothing.
BuildsServeTheActiveJob ==
  \A key \in Keys : builds[key] = "running" =>
    Active(jobs[key]) /\ jobs[key].content \in snapshots

\* Whatever can be rolled back to has been live: an archived or published
\* version has a successful job, of the content it still has.
HistoryIsPublished ==
  \A id \in VersionIds : versions[id].status \in {"published", "archived"} =>
    \E key \in Keys :
      jobs[key].status = "succeeded" /\ jobs[key].version = id
      /\ jobs[key].content = versions[id].content

\* A job only moves forward: a late answer of the trigger neither reopens a
\* finished job nor sends a building one back, and what it publishes is fixed.
JobsMoveForward ==
  [][\A key \in Keys : jobs[key] # NoJob =>
       /\ jobs'[key] = [jobs[key] EXCEPT !.status = jobs'[key].status]
       /\ \/ jobs'[key].status = jobs[key].status
          \/ jobs[key].status = "pending" /\ jobs'[key].status = "building"
          \/ jobs[key].status = "building" /\ jobs'[key].status \in Terminal]_vars

\* An admitted job ends, without an administrator keeping any page open and
\* whatever its requests do: the production slot becomes free again.
JobsEnd ==
  \A key \in Keys : Active(jobs[key]) ~> jobs[key].status \in Terminal

\* While its job is active a target is either as the job froze it, or back with
\* its editors; it is never replaced by a version the job did not admit.
TargetFrozenOrWithdrawn ==
  \A key \in ActiveKeys :
    LET job == jobs[key]
        target == versions[job.version]
    IN
    \/ TargetMatchesJob(job)
    \/ job.op = "publish" /\ target.revision > job.revision /\ target.status \in {"draft", "in_review"}

\* A job ends as its build did.  The one exception is a publish whose target its
\* editors withdrew while the build ran: it fails although the build went live.
\* A rollback has no exception, and an outage of the trigger ends nothing.
JobsEndAsBuilt ==
  [][\A key \in ActiveKeys :
       jobs'[key].status \in Terminal =>
         \/ jobs'[key].status = builds[key]
         \/ /\ jobs'[key].status = "failed" /\ builds[key] = "succeeded"
            /\ jobs[key].op = "publish"
            /\ versions[jobs[key].version].status \in {"draft", "in_review"}]_vars

\* The key of the active job holds the slot, and offers what the job froze.
HeldBy == IF ActiveKeys = {} THEN None ELSE CHOOSE key \in ActiveKeys : TRUE
OfferOf(key) == IF key = None THEN NoPointer
                ELSE [version |-> jobs[key].version, content |-> jobs[key].content]

\* Requests, retries, the reconciler and abandoned calls together behave as
\* one slot that is claimed, and then succeeds or fails: the pointer moves only
\* to what a job froze, after the job's build has succeeded.
Slot == INSTANCE ReleaseSlot
  WITH claim <- HeldBy, offer <- OfferOf(HeldBy), live <- pointer,
       used <- {key \in Keys : jobs[key] # NoJob},
       built <- {key \in Keys : builds[key] = "succeeded"},
       Releases <- [version : VersionIds, content : Contents], NoRelease <- NoPointer
ImplementsSlot == Slot!Spec

\* The documented freeze of the target: nothing but the end of its job
\* changes a version that is being published.
TargetStaysFrozen ==
  \A key \in ActiveKeys : TargetMatchesJob(jobs[key])
============================================================================
