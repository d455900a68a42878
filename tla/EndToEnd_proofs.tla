-------------------------- MODULE EndToEnd_proofs --------------------------
(* The composition of people, publish service and worker, for every number  *)
(* of each: every part behaves in it as its own module says, so that what   *)
(* was proved of the parts holds in the whole.                              *)
EXTENDS EndToEnd, TLAPS

\* The proofs about the parts.  In production the index of successful jobs and
\* the stack of Publishing_proofs play no role.
W == INSTANCE Publisher_proofs WITH procs <- workers, Keys <- JobKeys
S == INSTANCE Publishing_proofs
  WITH Keys <- JobKeys, Requests <- HttpRequests,
       builds <- Reported, successful <- <<>>, stack <- "production", ProductionEdits <- 0
R == INSTANCE ReviewWorkflow_proofs WITH WrittenRevisions <- Nat

----------------------------------------------------------------------------
\* These modules extend the parts: the definitions are the same.

LEMMA SameWorker ==
  /\ W!Init <=> Worker!Init
  /\ W!OwnStep <=> \/ \E w \in Workers : Worker!Work(w)
                   \/ \E o \in Operators : Worker!Recover(o)
                   \/ Worker!Environment
  /\ \A key \in JobKeys, w \in Workers : W!Enqueue(key, config[w]) <=> Worker!Enqueue(key, config[w])
  /\ W!Next <=> Worker!Next
  /\ W!vars = Worker!vars /\ W!vars' = Worker!vars'
BY DEF W!OwnStep,
     W!Processes, Worker!Processes, W!ActivePhases, Worker!ActivePhases,
     W!NoTask, Worker!NoTask, W!Idle, Worker!Idle, W!Active, Worker!Active,
     W!Enqueue, Worker!Enqueue, W!Update, Worker!Update, W!Return, Worker!Return,
     W!Goto, Worker!Goto, W!LockFree, Worker!LockFree, W!TakeTask, Worker!TakeTask,
     W!Drifted, Worker!Drifted, W!ReportDrift, Worker!ReportDrift,
     W!ReportUncertain, Worker!ReportUncertain, W!StartBuild, Worker!StartBuild,
     W!FailBuild, Worker!FailBuild, W!PrepareDeployment, Worker!PrepareDeployment,
     W!FailPreparation, Worker!FailPreparation, W!CallCreate, Worker!CallCreate,
     W!RecordDeployed, Worker!RecordDeployed, W!RecordUncertain, Worker!RecordUncertain,
     W!Poll, Worker!Poll, W!PollFails, Worker!PollFails, W!PhaseAfter, Worker!PhaseAfter,
     W!RecordPoll, Worker!RecordPoll, W!Verified, Worker!Verified, W!Look, Worker!Look,
     W!Recoverable, Worker!Recoverable, W!TakeRecovery, Worker!TakeRecovery,
     W!RefuseRecovery, Worker!RefuseRecovery, W!Resolve, Worker!Resolve,
     W!RefuseResolution, Worker!RefuseResolution, W!Stop, Worker!Stop,
     W!LoseSession, Worker!LoseSession, W!Reconfigure, Worker!Reconfigure,
     W!CreationLands, Worker!CreationLands, W!CreationIsLost, Worker!CreationIsLost,
     W!DeploymentEnds, Worker!DeploymentEnds, W!Init, Worker!Init, W!Work, Worker!Work,
     W!Recover, Worker!Recover, W!Environment, Worker!Environment, W!Next, Worker!Next,
     W!vars, Worker!vars, W!local, Worker!local

LEMMA SameService ==
  /\ S!Init <=> Service!Init
  /\ \A p \in HttpRequests, key \in JobKeys : S!HandleRequest(p, key) <=> Service!HandleRequest(p, key)
  /\ S!Reconcile <=> Service!Reconcile
  /\ \A p \in S!Processes : S!Step(p) <=> Service!Step(p)
  /\ S!Processes = Service!Processes
  /\ S!Next <=> Service!Next
  /\ S!vars = Service!vars /\ S!vars' = Service!vars'
BY DEF
     S!Processes, Service!Processes, S!Terminal, Service!Terminal, S!NoJob, Service!NoJob,
     S!Idle, Service!Idle, S!At, Service!At, S!NoPointer, Service!NoPointer,
     S!Active, Service!Active, S!ActiveKeys, Service!ActiveKeys,
     S!PublishedBefore, Service!PublishedBefore, S!SameRequest, Service!SameRequest,
     S!StartRequest, Service!StartRequest, S!ResumeRequest, Service!ResumeRequest,
     S!Publishable, Service!Publishable, S!ReadVersion, Service!ReadVersion,
     S!SaveSnapshot, Service!SaveSnapshot, S!TargetUnchanged, Service!TargetUnchanged,
     S!CanAdmit, Service!CanAdmit, S!NewJob, Service!NewJob, S!CreateJob, Service!CreateJob,
     S!RefuseJob, Service!RefuseJob, S!LookUpAgain, Service!LookUpAgain,
     S!CanEnqueue, Service!CanEnqueue, S!Enqueued, Service!Enqueued,
     S!SubmitBuild, Service!SubmitBuild, S!SubmitBuildFails, Service!SubmitBuildFails,
     S!RecordBuild, Service!RecordBuild, S!RecordError, Service!RecordError,
     S!RefreshStatus, Service!RefreshStatus, S!Reconcile, Service!Reconcile,
     S!PollBuild, Service!PollBuild, S!TargetMatchesJob, Service!TargetMatchesJob,
     S!Replaced, Service!Replaced, S!FinalizeJob, Service!FinalizeJob,
     S!FailChangedJob, Service!FailChangedJob, S!FailJob, Service!FailJob,
     S!AlreadyFinished, Service!AlreadyFinished, S!Abandon, Service!Abandon,
     S!BuildEnds, Service!BuildEnds, S!EditContent, Service!EditContent,
     S!ApproveContent, Service!ApproveContent, S!Init, Service!Init,
     S!RequestOf, Service!RequestOf, S!HandleRequest, Service!HandleRequest,
     S!Step, Service!Step, S!Next, Service!Next, S!vars, Service!vars,
     S!VersionsInit, Service!VersionsInit, S!Absent, Service!Absent,
     S!NewDraft, Service!NewDraft, S!CanTransition, Service!CanTransition,
     S!Admitted, Service!Admitted, S!Promoted, Service!Promoted, S!Archived, Service!Archived,
     S!Released, Service!Released, S!CreateNamedDraft, Service!CreateNamedDraft,
     S!CloneVersion, Service!CloneVersion, S!Mutate, Service!Mutate,
     S!UpdateDraft, Service!UpdateDraft, S!SubmitReview, Service!SubmitReview,
     S!ApproveReview, Service!ApproveReview, S!RejectReview, Service!RejectReview

LEMMA SameReview ==
  /\ R!Init <=> Review!Init
  /\ R!Next <=> Review!Next
  /\ R!vars = Review!vars /\ R!vars' = Review!vars'
BY DEF
     R!ViewOf, Review!ViewOf, R!Open, Review!Open, R!Answered, Review!Answered,
     R!Create, Review!Create, R!Update, Review!Update, R!Submit, Review!Submit,
     R!Reject, Review!Reject, R!Approve, Review!Approve, R!Admit, Review!Admit,
     R!Release, Review!Release, R!Promote, Review!Promote,
     R!PublishService, Review!PublishService, R!Init, Review!Init, R!Next, Review!Next,
     R!vars, Review!vars, R!VersionsInit, Review!VersionsInit, R!Absent, Review!Absent,
     R!NewDraft, Review!NewDraft, R!CanTransition, Review!CanTransition,
     R!Admitted, Review!Admitted, R!Promoted, Review!Promoted, R!Archived, Review!Archived,
     R!Released, Review!Released, R!CreateNamedDraft, Review!CreateNamedDraft,
     R!CloneVersion, Review!CloneVersion, R!Mutate, Review!Mutate,
     R!UpdateDraft, Review!UpdateDraft, R!SubmitReview, Review!SubmitReview,
     R!ApproveReview, Review!ApproveReview, R!RejectReview, Review!RejectReview

LEMMA SameReports == W!statuses = Reported /\ W!statuses' = Reported'
BY DEF W!statuses, W!StatusOf, W!ActivePhases, Reported, Worker!StatusOf, Worker!ActivePhases

----------------------------------------------------------------------------
\* A step of the whole is a step or a stutter of each part.

Joint == S!Faithful /\ W!Durable /\ R!IInv

\* The worker gets builds from the publish service, and from nobody else.
LEMMA WorkerSteps == [SiteNext]_siteVars => [W!Next]_(W!vars)
<1>1. CASE People \/ UNCHANGED siteVars
  BY <1>1 DEF People, siteVars, workerVars, W!vars
<1>2. CASE Publish
  BY <1>2, SameWorker DEF Publish, Trigger, workerVars, W!vars, W!Next
<1>3. CASE Build
  BY <1>3, SameWorker DEF Build, Worker!Next
<1> QED BY <1>1, <1>2, <1>3 DEF SiteNext

\* Whoever has a view of a version has its identifier from the API.
LEMMA ViewsName ==
  ASSUME R!IInv, NEW client \in Clients, views[client] # NoView
  PROVE  views[client].id \in VersionIds
BY DEF R!IInv, R!TypeOK, R!View

\* mutate accepts a revision only if a version has it.
LEMMA RevisionInRange ==
  ASSUME EndToEndParameters, R!IInv, NEW id \in VersionIds,
         versions[id].revision < MaxRevision
  PROVE  versions[id].revision \in 0 .. MaxRevision
BY DEF EndToEndParameters, R!IInv, R!TypeOK, R!VersionsTypeOK, R!Version

\* What people do is what the publish service expects of editors.
LEMMA PeopleEdit ==
  ASSUME EndToEndParameters, R!IInv, People
  PROVE  \/ UNCHANGED versions /\ UNCHANGED approvals
         \/ \E id \in VersionIds : S!EditContent(id) \/ S!ApproveContent(id)
<1>1. UNCHANGED <<jobs, pointer, snapshots, procs, Reported>>
  BY DEF People, workerVars, Reported
<1>2. ASSUME NEW client \in Clients, NEW id \in VersionIds, Review!Open(client, id)
      PROVE  UNCHANGED versions
  BY <1>2 DEF Review!Open
<1>3. ASSUME NEW client \in Clients, NEW id \in VersionIds, Review!Create(client, id), UNCHANGED approvals
      PROVE  S!EditContent(id)
  BY <1>1, <1>3
     DEF Review!Create, Review!CreateNamedDraft, Review!CloneVersion, Review!Absent, Review!NewDraft,
         S!EditContent, S!CreateNamedDraft, S!CloneVersion, S!Absent, S!NewDraft
<1>4. ASSUME NEW client \in Clients, Review!Update(client), UNCHANGED approvals
      PROVE  S!EditContent(views[client].id) /\ views[client].id \in VersionIds
  <2>1. PICK c \in Contents : Review!UpdateDraft(views[client].id, views[client].revision, c)
    BY <1>4 DEF Review!Update
  <2>2. views[client].id \in VersionIds /\ views[client].revision \in 0 .. MaxRevision
    BY <1>4, <2>1, ViewsName, RevisionInRange DEF Review!Update, Review!UpdateDraft, Review!Mutate
  <2>3. S!UpdateDraft(views[client].id, views[client].revision, c)
    BY <2>1 DEF Review!UpdateDraft, Review!Mutate, Review!Absent, S!UpdateDraft, S!Mutate, S!Absent
  <2> QED BY <1>1, <1>4, <2>2, <2>3 DEF S!EditContent
<1>5. ASSUME NEW client \in Clients, Review!Submit(client) \/ Review!Reject(client), UNCHANGED approvals
      PROVE  S!EditContent(views[client].id) /\ views[client].id \in VersionIds
  <2> DEFINE id == views[client].id
             revision == views[client].revision
  <2>1. Review!SubmitReview(id, revision) \/ Review!RejectReview(id, revision)
    BY <1>5 DEF Review!Submit, Review!Reject
  <2>2. id \in VersionIds /\ revision \in 0 .. MaxRevision
    BY <1>5, <2>1, ViewsName, RevisionInRange
       DEF Review!Submit, Review!Reject, Review!SubmitReview, Review!RejectReview, Review!Mutate
  <2>3. S!SubmitReview(id, revision) \/ S!RejectReview(id, revision)
    BY <2>1 DEF Review!SubmitReview, Review!RejectReview, Review!Mutate, Review!Absent, Review!CanTransition,
                S!SubmitReview, S!RejectReview, S!Mutate, S!Absent, S!CanTransition
  <2> QED BY <1>1, <1>5, <2>2, <2>3 DEF S!EditContent
<1>6. ASSUME NEW client \in Clients, Review!Approve(client),
             approvals' = approvals \cup {<<views[client].id, versions[views[client].id].content>>}
      PROVE  S!ApproveContent(views[client].id) /\ views[client].id \in VersionIds
  <2> DEFINE id == views[client].id
             revision == views[client].revision
  <2>1. Review!ApproveReview(id, revision)
    BY <1>6 DEF Review!Approve
  <2>2. id \in VersionIds /\ revision \in 0 .. MaxRevision
    BY <1>6, <2>1, ViewsName, RevisionInRange DEF Review!Approve, Review!ApproveReview, Review!Mutate
  <2>3. S!ApproveReview(id, revision)
    BY <2>1 DEF Review!ApproveReview, Review!Mutate, Review!Absent, S!ApproveReview, S!Mutate, S!Absent
  <2> QED BY <1>1, <1>6, <2>2, <2>3 DEF S!ApproveContent
<1> QED BY <1>2, <1>3, <1>4, <1>5, <1>6 DEF People

\* The worker ends builds, or does what the publish service does not see.
LEMMA WorkerEnds ==
  ASSUME EndToEndParameters, W!Durable, Build
  PROVE  UNCHANGED Reported \/ \E key \in JobKeys : S!BuildEnds(key)
<1>1. UNCHANGED W!statuses \/ \E key \in JobKeys : W!Trigger!End(key)
  BY SameWorker, W!OwnStepEnds DEF EndToEndParameters, W!Durable, Build
<1>2. ASSUME NEW key \in JobKeys, W!Trigger!End(key) PROVE S!BuildEnds(key)
  <2>1. /\ W!statuses[key] = "running"
        /\ \E result \in {"succeeded", "failed"} : W!statuses' = [W!statuses EXCEPT ![key] = result]
    BY <1>2 DEF W!Trigger!End, W!Trigger!Results, W!statuses
  <2>2. UNCHANGED <<versions, jobs, pointer, snapshots, procs, approvals>>
    BY DEF Build, serviceVars
  <2> QED BY <2>1, <2>2, SameReports DEF S!BuildEnds, S!Terminal
<1> QED BY <1>1, <1>2, SameReports

LEMMA ServiceSteps ==
  ASSUME EndToEndParameters, Joint, [SiteNext]_siteVars
  PROVE  [S!Next]_(S!vars)
<1>1. CASE UNCHANGED siteVars
  BY <1>1 DEF siteVars, serviceVars, workerVars, reviewVars, S!vars, Reported
<1>2. CASE People
  <2>1. UNCHANGED <<jobs, pointer, snapshots, procs, Reported>>
    BY <1>2 DEF People, workerVars, Reported
  <2> QED BY <1>2, <2>1, PeopleEdit DEF Joint, S!Next, S!vars
<1>3. CASE Publish
  BY <1>3, SameService DEF Publish, S!Next
<1>4. CASE Build
  BY <1>4, WorkerEnds DEF Build, Joint, S!Next, S!vars, serviceVars
<1> QED BY <1>1, <1>2, <1>3, <1>4 DEF SiteNext

----------------------------------------------------------------------------
\* The publish service does to versions what people expect of it.

\* createJob freezes the version it names.
LEMMA CreateAdmits ==
  ASSUME EndToEndParameters, S!Shape, NEW p \in S!Processes, S!CreateJob(p)
  PROVE  UNCHANGED versions \/ \E id \in VersionIds : R!Admit(id)
<1>1. procs[p].job.version \in VersionIds
  BY DEF S!Shape, S!RequestHasVersion, S!CreateJob
<1>2. CASE procs[p].job.op = "publish"
  <2>1. S!TargetUnchanged(procs[p].job)
    BY DEF S!CreateJob, S!CanAdmit
  <2> QED BY <1>1, <1>2, <2>1
          DEF S!TargetUnchanged, S!CanTransition, S!CreateJob, S!Admitted, R!Admit, R!CanTransition, R!Admitted
<1>3. CASE procs[p].job.op # "publish"
  BY <1>3 DEF S!CreateJob
<1> QED BY <1>2, <1>3

\* The end of a job releases its target, or leaves it as it is.
LEMMA EndReleases ==
  ASSUME S!Shape, NEW id \in VersionIds, NEW preserve \in BOOLEAN,
         versions' = [versions EXCEPT ![id] = S!Released(versions[id], preserve)]
  PROVE  UNCHANGED versions \/ R!Release(id)
<1>1. versions \in [VersionIds -> S!Version]
  BY DEF S!Shape, S!TypeOK, S!VersionsTypeOK
<1>2. CASE versions[id].status = "publishing"
  BY <1>2 DEF R!Release, R!Released, S!Released
<1>3. CASE versions[id].status # "publishing"
  BY <1>1, <1>3 DEF S!Released
<1> QED BY <1>2, <1>3

\* Or it publishes the target, and archives the version that was published.
LEMMA EndPromotes ==
  ASSUME S!Shape, S!PublishedIsPointer, NEW id \in VersionIds,
         versions[id].status \in {"publishing", "archived", "published"},
         versions' = S!Replaced(id)
  PROVE  R!Promote(id)
<1>1. versions \in [VersionIds -> S!Version]
  BY DEF S!Shape, S!TypeOK, S!VersionsTypeOK
<1>2. CASE pointer.version \in VersionIds /\ pointer.version # id
  <2>1. versions[pointer.version].status = "published" /\ versions[pointer.version].revision \in Nat
    BY <1>1, <1>2 DEF S!PublishedIsPointer, S!Version
  <2>2. versions' = [versions EXCEPT ![id] = S!Promoted(versions[id]),
                                     ![pointer.version] = S!Archived(versions[pointer.version])]
    BY <1>1, <1>2 DEF S!Replaced
  <2> QED BY <1>2, <2>1, <2>2 DEF R!Promote, R!Promoted, R!Archived, S!Promoted, S!Archived
<1>3. CASE ~(pointer.version \in VersionIds /\ pointer.version # id)
  <2>1. versions' = [versions EXCEPT ![id] = S!Promoted(versions[id])]
    BY <1>1, <1>3 DEF S!Replaced
  <2> QED BY <2>1 DEF R!Promote, R!Promoted, S!Promoted
<1> QED BY <1>2, <1>3

LEMMA FinishWrites ==
  ASSUME EndToEndParameters, S!Faithful, NEW p \in S!Processes, S!Finish(p)
  PROVE  UNCHANGED versions \/ \E id \in VersionIds : R!Release(id) \/ R!Promote(id)
<1> DEFINE job == jobs[procs[p].key]
<1>1. S!Shape /\ S!PublishedIsPointer
  BY DEF S!Faithful
<1>2. job.version \in VersionIds
  <2>1. procs[p].pc = "finish" /\ job.status = "building"
    BY DEF S!Finish, S!FinalizeJob, S!FailChangedJob, S!FailJob
  <2> QED BY <1>1, <2>1 DEF S!Shape, S!BusyHasKey, S!JobHasVersion
<1>3. CASE S!FinalizeJob(p)
  <2>1. versions[job.version].status \in {"publishing", "archived", "published"}
    BY <1>3 DEF S!FinalizeJob, S!TargetMatchesJob
  <2>2. versions' = S!Replaced(job.version)
    BY <1>3 DEF S!FinalizeJob
  <2> QED BY <1>1, <1>2, <2>1, <2>2, EndPromotes
<1>4. CASE S!FailChangedJob(p)
  BY <1>1, <1>2, <1>4, EndReleases DEF S!FailChangedJob
<1>5. CASE S!FailJob(p)
  <2>1. S!TargetMatchesJob(job) \in BOOLEAN
    BY DEF S!TargetMatchesJob
  <2> QED BY <1>1, <1>2, <1>5, <2>1, EndReleases DEF S!FailJob
<1> QED BY <1>3, <1>4, <1>5 DEF S!Finish

LEMMA ServiceWrites ==
  ASSUME EndToEndParameters, Joint, Publish
  PROVE  UNCHANGED versions \/ \E id \in VersionIds : R!PublishService(id)
<1>1. S!Faithful /\ S!Shape
  BY DEF Joint, S!Faithful
<1>2. ASSUME NEW p \in S!Processes, S!Step(p)
      PROVE  UNCHANGED versions \/ S!CreateJob(p) \/ S!Finish(p)
  BY <1>2 DEF S!Step, S!Finish, S!ReadVersion, S!SaveSnapshot, S!RefuseJob, S!LookUpAgain, S!SubmitBuild,
              S!SubmitBuildFails, S!RecordBuild, S!RecordError, S!PollBuild, S!AlreadyFinished, S!Abandon
<1>3. ASSUME NEW p \in HttpRequests, NEW key \in JobKeys, S!HandleRequest(p, key) PROVE UNCHANGED versions
  BY <1>3 DEF S!HandleRequest, S!StartRequest, S!ResumeRequest, S!RefreshStatus
<1>4. S!Reconcile => UNCHANGED versions
  BY DEF S!Reconcile
<1>5. UNCHANGED versions
      \/ \E id \in VersionIds : R!Admit(id) \/ R!Release(id) \/ R!Promote(id)
  BY <1>1, <1>2, <1>3, <1>4, CreateAdmits, FinishWrites, SameService DEF Publish
<1>6. \A id \in VersionIds : versions[id].revision \in Nat
  BY <1>1 DEF S!Shape, S!TypeOK, S!VersionsTypeOK, S!Version
<1> QED BY <1>5, <1>6 DEF R!PublishService, Publish, reviewVars

LEMMA ReviewSteps ==
  ASSUME EndToEndParameters, Joint, [SiteNext]_siteVars
  PROVE  [R!Next]_(R!vars)
<1>1. CASE UNCHANGED siteVars
  BY <1>1 DEF siteVars, reviewVars, R!vars
<1>2. CASE People
  BY <1>2, SameReview DEF People, Review!Next
<1>3. CASE Publish
  BY <1>3, ServiceWrites DEF Publish, reviewVars, R!vars, R!Next
<1>4. CASE Build
  BY <1>4 DEF Build, reviewVars, R!vars
<1> QED BY <1>1, <1>2, <1>3, <1>4 DEF SiteNext

----------------------------------------------------------------------------
\* The invariants of the parts hold together, each by the others' steps.

LEMMA JointInit == ASSUME EndToEndParameters PROVE SiteInit => Joint
<1>1. SiteInit => S!Init /\ W!Init /\ R!Init
  BY SameService, SameWorker, SameReview DEF SiteInit
<1>2. (S!Init => S!Faithful) /\ (W!Init => W!Durable) /\ (R!Init => R!IInv)
  BY S!ReleaseInit, W!DurableInit, R!InitIInv DEF EndToEndParameters
<1> QED BY <1>1, <1>2 DEF Joint

LEMMA JointStep == ASSUME EndToEndParameters PROVE Joint /\ [SiteNext]_siteVars => Joint'
<1> SUFFICES ASSUME Joint, [SiteNext]_siteVars PROVE Joint'
  OBVIOUS
<1>1. [S!Next]_(S!vars) /\ [W!Next]_(W!vars) /\ [R!Next]_(R!vars)
  BY ServiceSteps, WorkerSteps, ReviewSteps
<1>2. /\ S!Faithful /\ [S!Next]_(S!vars) => S!Faithful'
      /\ W!Durable /\ [W!Next]_(W!vars) => W!Durable'
      /\ R!IInv /\ [R!Next]_(R!vars) => R!IInv'
  BY S!ReleaseStep, W!DurableStep, R!NextIInv DEF EndToEndParameters
<1> QED BY <1>1, <1>2 DEF Joint

LEMMA JointAlways == ASSUME EndToEndParameters PROVE SiteSpec => []Joint
BY JointInit, JointStep, PTL DEF SiteSpec

\* The composition refines each part alone: whatever people and the worker do,
\* the publish service goes on as Publishing says, with the worker as its build
\* trigger; versions change under people as ReviewWorkflow says, with Publishing
\* as its publish service; and the worker is called as Publisher says.
THEOREM PartsGoOn ==
  ASSUME EndToEndParameters
  PROVE  SiteSpec => PartsAsSpecified
<1>1. SiteInit => Service!Init /\ Review!Init /\ Worker!Init
  BY DEF SiteInit
<1>2. Joint /\ [SiteNext]_siteVars => /\ [Service!Next]_(Service!vars)
                              /\ [Review!Next]_(Review!vars)
                              /\ [Worker!Next]_(Worker!vars)
  BY ServiceSteps, ReviewSteps, WorkerSteps, SameService, SameReview, SameWorker
<1> QED
  BY <1>1, <1>2, JointAlways, PTL
     DEF SiteSpec, PartsAsSpecified, PublishesAsSpecified, ReviewsAsSpecified, BuildsAsSpecified,
         Service!Spec, Review!Spec, Worker!Spec

\* What is live was read by its reviewer before the approval, is still the
\* content of that version, and was built: the build of a job that froze it
\* ended well, with a deployment that Pages serves.
THEOREM LiveIsReadAndBuilt ==
  ASSUME EndToEndParameters
  PROVE  SiteSpec => []LiveWasReadAndBuilt
<1>1. ASSUME Joint, pointer.version # None PROVE LiveWasReadAndBuilt
  <2> DEFINE id == pointer.version
  <2>1. id \in VersionIds /\ pointer # S!NoPointer
    BY <1>1 DEF Joint, S!Faithful, S!Shape, S!TypeOK, S!Pointer, S!NoPointer
  <2>2. versions[id].status = "published" /\ pointer.content = versions[id].content
    BY <1>1, <2>1 DEF Joint, S!Faithful, S!PublishedIsPointer, S!PointerServes
  <2>3. versions[id].content = reviewed[id]
    <3>1. versions[id].approved
      BY <1>1, <2>1, <2>2 DEF Joint, S!Faithful, S!Reviewed
    <3> QED BY <1>1, <2>1, <3>1 DEF Joint, R!IInv, R!ApprovedContentWasRead
  <2>4. PICK key \in JobKeys : /\ jobs[key].status = "succeeded"
                               /\ jobs[key].version = id /\ jobs[key].content = versions[id].content
    BY <1>1, <2>1, <2>2 DEF Joint, S!Faithful, S!HistoryIsPublished
  <2>5. tasks[key].phase = "succeeded"
    BY <1>1, <2>4 DEF Joint, S!Faithful, S!SuccessIsBuilt, Reported, Worker!StatusOf
  <2>6. tasks[key].deployment # None /\ cloud[tasks[key].deployment] = "succeeded"
    BY <1>1, <2>5 DEF Joint, W!Durable, W!SuccessIsDeployed, W!ResultsHold, W!ResultIsTheDeployments
  <2> QED BY <2>2, <2>3, <2>4, <2>5, <2>6 DEF LiveWasReadAndBuilt
<1>2. Joint => LiveWasReadAndBuilt
  BY <1>1 DEF LiveWasReadAndBuilt
<1> QED BY <1>2, JointAlways, PTL

----------------------------------------------------------------------------
\* What was proved of the parts holds in the whole.

LEMMA PartsAssumptions ==
  ASSUME EndToEndParameters
  PROVE  /\ S!PublishingAssumption /\ S!NoContentAssumption /\ S!MaxRevisionAssumption
         /\ R!NoContentAssumption /\ R!MaxRevisionAssumption
         /\ W!PublisherAssumption
BY DEF EndToEndParameters, S!PublishingAssumption, S!NoContentAssumption, S!MaxRevisionAssumption,
       R!NoContentAssumption, R!MaxRevisionAssumption, W!PublisherAssumption

LEMMA SpecsOfParts == ASSUME EndToEndParameters PROVE SiteSpec => S!Spec /\ R!Spec /\ W!Spec
<1>1. SiteInit => S!Init /\ R!Init /\ W!Init
  BY SameService, SameReview, SameWorker DEF SiteInit
<1>2. Joint /\ [SiteNext]_siteVars => [S!Next]_(S!vars) /\ [R!Next]_(R!vars) /\ [W!Next]_(W!vars)
  BY ServiceSteps, ReviewSteps, WorkerSteps
<1> QED BY <1>1, <1>2, JointAlways, PTL DEF SiteSpec, S!Spec, R!Spec, W!Spec

\* People overwrite no change they have not seen, and nothing that was published;
\* the service keeps one job, releases what it froze, and implements the slot;
\* the worker asks Pages once for a build, by the frozen configuration, and
\* reports what Pages shows.
THEOREM PartsStaySafe ==
  ASSUME EndToEndParameters
  PROVE  SiteSpec => /\ Review!NoLostUpdate /\ Review!PublishedContentIsFinal
                 /\ [](Service!OneActiveJob /\ Service!PublishingHasJob) /\ Service!ImplementsSlot
                 /\ [](Worker!NoSecondCreation /\ Worker!BuiltByFrozenTarget /\ Worker!ResultsAreReal)
<1>1. R!Spec => Review!NoLostUpdate /\ Review!PublishedContentIsFinal
  <2>1. R!Spec => R!NoLostUpdate /\ R!PublishedContentIsFinal
    BY R!NoUpdateIsLost, R!PublishedIsFinal, PartsAssumptions, PTL
  <2>2. R!NoLostUpdate => Review!NoLostUpdate
    BY DEF R!NoLostUpdate, Review!NoLostUpdate, R!Update, Review!Update, R!UpdateDraft, Review!UpdateDraft,
           R!Mutate, Review!Mutate, R!Answered, Review!Answered, R!ViewOf, Review!ViewOf,
           R!Absent, Review!Absent, R!vars, Review!vars
  <2>3. R!PublishedContentIsFinal => Review!PublishedContentIsFinal
    BY DEF R!PublishedContentIsFinal, Review!PublishedContentIsFinal, R!vars, Review!vars
  <2> QED BY <2>1, <2>2, <2>3
<1>2. S!Spec => [](Service!OneActiveJob /\ Service!PublishingHasJob) /\ Service!ImplementsSlot
  <2>1. S!Spec => []S!OneActiveJob /\ []S!PublishingHasJob /\ S!ImplementsSlot
    BY S!OneActive, S!PublishingClaimed, S!PublishingIsASlot, PartsAssumptions, PTL
  <2>2. (S!OneActiveJob <=> Service!OneActiveJob) /\ (S!PublishingHasJob <=> Service!PublishingHasJob)
    BY DEF S!OneActiveJob, Service!OneActiveJob, S!PublishingHasJob, Service!PublishingHasJob,
           S!TargetMatchesJob, Service!TargetMatchesJob, S!ActiveKeys, Service!ActiveKeys, S!Active, Service!Active
  <2>3. S!ImplementsSlot => Service!ImplementsSlot
    BY DEF S!ImplementsSlot, Service!ImplementsSlot, S!Slot!Spec, Service!Slot!Spec, S!Slot!Init, Service!Slot!Init,
           S!Slot!Next, Service!Slot!Next, S!Slot!vars, Service!Slot!vars, S!Slot!Claim, Service!Slot!Claim,
           S!Slot!Succeed, Service!Slot!Succeed, S!Slot!Fail, Service!Slot!Fail, S!Slot!Build, Service!Slot!Build,
           S!HeldBy, Service!HeldBy, S!OfferOf, Service!OfferOf, S!NoPointer, Service!NoPointer,
           S!NoJob, Service!NoJob, S!ActiveKeys, Service!ActiveKeys, S!Active, Service!Active
  <2> QED BY <2>1, <2>2, <2>3, PTL
<1>3. W!Spec => [](Worker!NoSecondCreation /\ Worker!BuiltByFrozenTarget /\ Worker!ResultsAreReal)
  <2>1. W!Spec => []W!NoSecondCreation /\ []W!BuiltByFrozenTarget /\ []W!ResultsAreReal
    BY W!OneCreation, W!FrozenTargets, W!RealResults, PartsAssumptions, PTL
  <2>2. /\ W!NoSecondCreation <=> Worker!NoSecondCreation
        /\ W!BuiltByFrozenTarget <=> Worker!BuiltByFrozenTarget
        /\ W!ResultsAreReal <=> Worker!ResultsAreReal
    BY DEF W!NoSecondCreation, Worker!NoSecondCreation, W!BuiltByFrozenTarget, Worker!BuiltByFrozenTarget,
           W!ResultsAreReal, Worker!ResultsAreReal, W!ResultIsTheDeployments, Worker!ResultIsTheDeployments,
           W!FailedBuildStaysOff, Worker!FailedBuildStaysOff
  <2> QED BY <2>1, <2>2, PTL
<1> QED BY <1>1, <1>2, <1>3, SpecsOfParts, PTL
============================================================================
