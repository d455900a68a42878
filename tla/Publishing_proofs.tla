------------------------- MODULE Publishing_proofs -------------------------
(* Proofs about Publishing and DevelopmentPublishing, for every set of      *)
(* versions, keys and requests.                                             *)
EXTENDS MCPublishingRace, TLAPS

\* Every step works on a key of Keys: a busy process has one.
BusyHasKey == \A p \in Processes : procs[p].pc # "idle" => procs[p].key \in Keys

\* A job that exists publishes a version; a key without job has the null job.
JobHasVersion ==
  \A key \in Keys :
    /\ jobs[key].status = "none" => jobs[key] = NoJob
    /\ jobs[key].status # "none" => jobs[key].version \in VersionIds

\* So does the job a process is about to create.
RequestHasVersion ==
  \A p \in Processes : procs[p].pc \in {"version", "snapshot", "create", "relookup"}
    => procs[p].job.version \in VersionIds

Shape == TypeOK /\ BusyHasKey /\ JobHasVersion /\ RequestHasVersion

----------------------------------------------------------------------------
\* The records the model is built from are of their types.

LEMMA IdleType == Idle \in Process
BY DEF Idle, Process, NoJob, Job

LEMMA AtType ==
  ASSUME NEW pc \in {"version", "trigger", "poll"}, NEW key \in Keys
  PROVE  /\ At(pc, key) \in Process
         /\ At(pc, key).pc = pc /\ At(pc, key).key = key /\ At(pc, key).job = NoJob
BY IdleType DEF At, Idle, Process, NoJob, Job

LEMMA RequestType ==
  ASSUME NEW op \in {"publish", "rollback"}, NEW id \in VersionIds, NEW actor \in Actors
  PROVE  RequestOf(op, id, actor) \in Job /\ RequestOf(op, id, actor).version = id
BY DEF RequestOf, NoJob, Job

LEMMA NewJobType ==
  ASSUME NEW request \in Job
  PROVE  /\ NewJob(request) \in Job
         /\ NewJob(request).status = "pending"
         /\ NewJob(request).version = request.version
         /\ NewJob(request).content = request.content
         /\ NewJob(request).op = request.op
         /\ NewJob(request).revision = IF request.op = "publish" THEN request.revision + 1
                                       ELSE request.revision
<1>1. request.revision + 1 \in Nat /\ request.revision \in Nat
  BY DEF Job
<1>2. CASE request.op = "publish"
  BY <1>1, <1>2 DEF NewJob, Job
<1>3. CASE request.op # "publish"
  BY <1>1, <1>3 DEF NewJob, Job
<1> QED BY <1>2, <1>3

\* A step that moves one process keeps the shape of all of them.
LEMMA ProcessStep ==
  ASSUME Shape, NEW p \in Processes, NEW proc \in Process,
         proc.pc # "idle" => proc.key \in Keys,
         proc.pc \in {"version", "snapshot", "create", "relookup"} => proc.job.version \in VersionIds,
         procs' = [procs EXCEPT ![p] = proc]
  PROVE  /\ procs' \in [Processes -> Process]
         /\ BusyHasKey'
         /\ RequestHasVersion'
BY DEF Shape, TypeOK, BusyHasKey, RequestHasVersion

LEMMA VersionTypes ==
  ASSUME NEW version \in Version, NEW c \in Contents \cup {NoContent}, NEW b \in BOOLEAN
  PROVE  /\ Absent \in Version /\ NewDraft(c) \in Version
         /\ Admitted(version) \in Version /\ Promoted(version) \in Version
         /\ Archived(version) \in Version /\ Released(version, b) \in Version
<1>1. Absent \in Version /\ NewDraft(c) \in Version
  BY DEF Version, Statuses, Absent, NewDraft
<1>2. /\ version.revision + 1 \in Nat
      /\ version.content \in Contents \cup {NoContent}
      /\ version.approved \in BOOLEAN
      /\ version = [status |-> version.status, revision |-> version.revision,
                    content |-> version.content, approved |-> version.approved]
  BY DEF Version
<1>3. ASSUME NEW status \in Statuses, NEW approved \in BOOLEAN
      PROVE  [version EXCEPT !.status = status, !.approved = approved, !.revision = @ + 1] \in Version
  BY <1>2, <1>3 DEF Version
<1>4. ASSUME NEW status \in Statuses
      PROVE  [version EXCEPT !.status = status, !.revision = @ + 1] \in Version
  BY <1>2, <1>4 DEF Version
<1>5. Admitted(version) \in Version /\ Promoted(version) \in Version /\ Archived(version) \in Version
  BY <1>4 DEF Statuses, Admitted, Promoted, Archived
<1>6. Released(version, b) \in Version
  BY <1>2, <1>3 DEF Statuses, Released
<1> QED BY <1>1, <1>5, <1>6

\* mutate keeps the type of the table if the change keeps that of the row.
LEMMA MutateType ==
  ASSUME VersionsTypeOK, NEW id \in VersionIds, NEW expected, NEW changed \in Version,
         Mutate(id, expected, changed)
  PROVE  VersionsTypeOK'
<1>1. [changed EXCEPT !.revision = @ + 1] \in Version
  BY DEF Version
<1> QED BY <1>1 DEF VersionsTypeOK, Mutate

\* What the publish service does to one version, as far as the proofs need it.
LEMMA VersionEffects ==
  ASSUME NEW version \in Version, NEW b \in BOOLEAN
  PROVE  /\ Admitted(version).status = "publishing"
         /\ Admitted(version).revision = version.revision + 1
         /\ Admitted(version).content = version.content
         /\ Admitted(version).approved = version.approved
         /\ Promoted(version).status = "published"
         /\ Archived(version).status = "archived"
         /\ version.status # "publishing" => Released(version, b) = version
         /\ version.status = "publishing" => Released(version, b).status \in {"in_review", "draft"}
BY DEF Version, Admitted, Promoted, Archived, Released

\* Every operation of the content service keeps the versions' type.
LEMMA EditType ==
  ASSUME TypeOK, NEW id \in VersionIds, EditContent(id) \/ ApproveContent(id)
  PROVE  VersionsTypeOK'
<1>1. CASE \E c \in Contents : CreateNamedDraft(id, c)
  BY <1>1, VersionTypes DEF TypeOK, VersionsTypeOK, CreateNamedDraft
<1>2. CASE \E source \in VersionIds : CloneVersion(source, id)
  <2>1. PICK source \in VersionIds : CloneVersion(source, id)
    BY <1>2
  <2>2. versions[source].content \in Contents \cup {NoContent}
    BY DEF TypeOK, VersionsTypeOK, Version
  <2> QED BY <2>1, <2>2, VersionTypes DEF TypeOK, VersionsTypeOK, CloneVersion, NewDraft, Version, Statuses
<1>. /\ VersionsTypeOK
     /\ versions[id] \in Version
  BY DEF TypeOK, VersionsTypeOK
<1>3. ASSUME NEW expected \in 0 .. MaxRevision, NEW c \in Contents, UpdateDraft(id, expected, c)
      PROVE  VersionsTypeOK'
  <2>1. [versions[id] EXCEPT !.content = c] \in Version
    BY DEF Version
  <2> QED BY <1>3, <2>1, MutateType DEF UpdateDraft
<1>4. ASSUME NEW expected \in 0 .. MaxRevision, SubmitReview(id, expected)
      PROVE  VersionsTypeOK'
  <2>1. [versions[id] EXCEPT !.status = "in_review", !.approved = FALSE] \in Version
    BY DEF Version, Statuses
  <2> QED BY <1>4, <2>1, MutateType DEF SubmitReview
<1>5. ASSUME NEW expected \in 0 .. MaxRevision, RejectReview(id, expected)
      PROVE  VersionsTypeOK'
  <2>1. [versions[id] EXCEPT !.status = "draft", !.approved = FALSE] \in Version
    BY DEF Version, Statuses
  <2> QED BY <1>5, <2>1, MutateType DEF RejectReview
<1>6. ASSUME NEW expected \in 0 .. MaxRevision, ApproveReview(id, expected)
      PROVE  VersionsTypeOK'
  <2>1. [versions[id] EXCEPT !.approved = TRUE] \in Version
    BY DEF Version
  <2> QED BY <1>6, <2>1, MutateType DEF ApproveReview
<1> QED BY <1>1, <1>2, <1>3, <1>4, <1>5, <1>6 DEF EditContent, ApproveContent

----------------------------------------------------------------------------
\* The tables and the processes keep their shape.

LEMMA ShapeInit == Init => Shape
BY PublishingAssumption, IdleType
   DEF Init, Shape, TypeOK, VersionsTypeOK, VersionsInit, Version, Absent, Job, NoJob, Pointer,
       NoPointer, BusyHasKey, JobHasVersion, RequestHasVersion, Idle

LEMMA ShapeStep == Shape /\ [Next]_vars => Shape'
<1> SUFFICES ASSUME Shape, [Next]_vars PROVE Shape'
  OBVIOUS
<1> USE DEF Shape
<1>1. ASSUME NEW p \in Requests, NEW key \in Keys, HandleRequest(p, key) PROVE Shape'
  <2>1. p \in Processes
    BY DEF Processes
  <2>2. UNCHANGED <<versions, jobs, pointer, snapshots, builds, approvals>>
        /\ \E proc \in Process :
             /\ procs' = [procs EXCEPT ![p] = proc]
             /\ proc.key = key
             /\ proc.pc \in {"version", "snapshot", "create", "relookup"}
                  => proc.job.version \in VersionIds
    <3>1. ASSUME NEW op \in {"publish", "rollback"}, NEW id \in VersionIds, NEW actor \in Actors,
                 StartRequest(p, key, RequestOf(op, id, actor))
          PROVE  <2>2!2
      <4> DEFINE proc == [At("version", key) EXCEPT !.job = RequestOf(op, id, actor)]
      <4>1. proc \in Process /\ proc.key = key /\ proc.job.version = id
        BY AtType, RequestType DEF Process
      <4> QED BY <3>1, <4>1 DEF StartRequest
    <3>2. ASSUME NEW op \in {"publish", "rollback"}, NEW id \in VersionIds, NEW actor \in Actors,
                 ResumeRequest(p, key, RequestOf(op, id, actor))
          PROVE  <2>2!2
      BY <3>2, AtType DEF ResumeRequest
    <3>3. CASE RefreshStatus(p, key)
      BY <3>3, AtType DEF RefreshStatus
    <3>4. UNCHANGED <<versions, jobs, pointer, snapshots, builds, approvals>>
      BY <1>1 DEF HandleRequest, StartRequest, ResumeRequest, RefreshStatus
    <3> QED BY <1>1, <3>1, <3>2, <3>3, <3>4 DEF HandleRequest
  <2> QED BY <2>1, <2>2, ProcessStep DEF TypeOK, VersionsTypeOK, JobHasVersion
<1>2. CASE Reconcile
  <2>1. Reconciler \in Processes
    BY DEF Processes
  <2>2. PICK key \in ActiveKeys, pc \in {"trigger", "poll"} :
          procs' = [procs EXCEPT ![Reconciler] = At(pc, key)]
    BY <1>2 DEF Reconcile
  <2>3. key \in Keys /\ UNCHANGED <<versions, jobs, pointer, snapshots, builds, approvals>>
    BY <1>2 DEF Reconcile, ActiveKeys
  <2>4. procs' \in [Processes -> Process] /\ BusyHasKey' /\ RequestHasVersion'
    <3>1. At(pc, key) \in Process /\ At(pc, key).pc = pc /\ At(pc, key).key = key
      BY <2>3, AtType
    <3> QED BY <2>1, <2>2, <2>3, <3>1, ProcessStep
  <2> QED BY <2>3, <2>4 DEF TypeOK, VersionsTypeOK, JobHasVersion
<1>3. ASSUME NEW p \in Processes, Step(p) PROVE Shape'
  <2> DEFINE key == procs[p].key
             job == jobs[key]
             request == procs[p].job
  <2>1. /\ procs[p] \in Process
        /\ procs[p].pc # "idle" => key \in Keys /\ job \in Job
        /\ request \in Job
    BY DEF TypeOK, BusyHasKey, Process
  <2>2. \A proc \in Process :
          procs' = [procs EXCEPT ![p] = proc]
          /\ (proc.pc # "idle" => proc.key \in Keys)
          /\ (proc.pc \in {"version", "snapshot", "create", "relookup"} => proc.job.version \in VersionIds)
          => procs' \in [Processes -> Process] /\ BusyHasKey' /\ RequestHasVersion'
    BY ProcessStep
  <2>3. procs' = [procs EXCEPT ![p] = Idle]
          => procs' \in [Processes -> Process] /\ BusyHasKey' /\ RequestHasVersion'
    BY <2>2, IdleType DEF Idle
  <2>4. ASSUME NEW status \in {"pending", "building", "succeeded", "failed"}, key \in Keys, job.status # "none",
               jobs' = [jobs EXCEPT ![key].status = status]
        PROVE  jobs' \in [Keys -> Job] /\ JobHasVersion'
    <3>1. job \in Job
      BY <2>4 DEF TypeOK
    <3>2. [job EXCEPT !.status = status] \in Job /\ [job EXCEPT !.status = status].version = job.version
          /\ [job EXCEPT !.status = status].status = status
      BY <3>1 DEF Job, Terminal
    <3> QED BY <2>4, <3>2 DEF JobHasVersion, TypeOK
  <2>5. CASE ReadVersion(p)
    <3>1. procs[p].pc = "version" /\ key \in Keys /\ request.version \in VersionIds
          /\ versions[request.version] \in Version
      BY <2>1, <2>5 DEF ReadVersion, RequestHasVersion, TypeOK, VersionsTypeOK
    <3> DEFINE next == [procs[p] EXCEPT !.pc = "snapshot",
                                        !.job.content = versions[request.version].content,
                                        !.job.revision = versions[request.version].revision]
    <3>2. next.job \in Job /\ next.job.version = request.version
      BY <2>1, <3>1 DEF Job, Version, Process
    <3>3. next \in Process /\ next.key = key
      BY <2>1, <3>2 DEF Process
    <3>4. procs' = [procs EXCEPT ![p] = next] \/ procs' = [procs EXCEPT ![p] = Idle]
      BY <2>5 DEF ReadVersion
    <3> HIDE DEF next
    <3>5. procs' \in [Processes -> Process] /\ BusyHasKey' /\ RequestHasVersion'
      BY <2>2, <2>3, <3>1, <3>2, <3>3, <3>4
    <3> QED BY <2>5, <3>5 DEF ReadVersion, TypeOK, VersionsTypeOK, JobHasVersion
  <2>6. CASE SaveSnapshot(p)
    <3>1. [procs[p] EXCEPT !.pc = "create"] \in Process /\ request.version \in VersionIds
          /\ request.content \in Contents \cup {NoContent}
      BY <2>1, <2>6 DEF SaveSnapshot, RequestHasVersion, Process, Job
    <3>2. procs' \in [Processes -> Process] /\ BusyHasKey' /\ RequestHasVersion'
      BY <2>1, <2>2, <2>6, <3>1 DEF SaveSnapshot, Process
    <3> QED BY <2>6, <3>1, <3>2 DEF SaveSnapshot, TypeOK, VersionsTypeOK, JobHasVersion
  <2>7. CASE CreateJob(p)
    <3>1. key \in Keys /\ request.version \in VersionIds
      BY <2>1, <2>7 DEF CreateJob, RequestHasVersion
    <3>2. procs' \in [Processes -> Process] /\ BusyHasKey' /\ RequestHasVersion'
      BY <2>2, <2>7, <3>1, AtType DEF CreateJob
    <3>3. NewJob(request) \in Job /\ NewJob(request).version = request.version
          /\ NewJob(request).status = "pending"
      BY <2>1, NewJobType
    <3>4. jobs' \in [Keys -> Job] /\ JobHasVersion'
      BY <2>7, <3>1, <3>3 DEF CreateJob, TypeOK, JobHasVersion
    <3>5. VersionsTypeOK'
      BY <2>7, <3>1, VersionTypes DEF CreateJob, TypeOK, VersionsTypeOK
    <3> QED BY <2>7, <3>2, <3>4, <3>5 DEF CreateJob, TypeOK
  <2>8. CASE RefuseJob(p)
    <3>1. [procs[p] EXCEPT !.pc = "relookup"] \in Process /\ request.version \in VersionIds
      BY <2>1, <2>8 DEF RefuseJob, RequestHasVersion, Process
    <3>2. procs' \in [Processes -> Process] /\ BusyHasKey' /\ RequestHasVersion'
      BY <2>1, <2>2, <2>8, <3>1 DEF RefuseJob, Process
    <3> QED BY <2>8, <3>2 DEF RefuseJob, TypeOK, VersionsTypeOK, JobHasVersion
  <2>9. CASE LookUpAgain(p)
    <3>1. procs' \in [Processes -> Process] /\ BusyHasKey' /\ RequestHasVersion'
      BY <2>1, <2>2, <2>3, <2>9, AtType DEF LookUpAgain
    <3> QED BY <2>9, <3>1 DEF LookUpAgain, TypeOK, VersionsTypeOK, JobHasVersion
  <2>10. CASE SubmitBuild(p) \/ SubmitBuildFails(p)
    <3>1. PICK run \in {"accepted", "error"} :
            procs' = [procs EXCEPT ![p] = [@ EXCEPT !.pc = "record", !.run = run]]
      BY <2>10 DEF SubmitBuild, SubmitBuildFails
    <3>2. [procs[p] EXCEPT !.pc = "record", !.run = run] \in Process
      BY <2>1 DEF Process
    <3>3. key \in Keys /\ procs[p].pc = "trigger"
      BY <2>1, <2>10 DEF SubmitBuild, SubmitBuildFails
    <3>4. procs' \in [Processes -> Process] /\ BusyHasKey' /\ RequestHasVersion'
      BY <2>1, <2>2, <3>1, <3>2, <3>3 DEF Process
    <3>5. builds' \in [Keys -> {"none", "running"} \cup Terminal]
      BY <2>10, <3>3 DEF SubmitBuild, SubmitBuildFails, Enqueued, TypeOK
    <3> QED BY <2>10, <3>4, <3>5 DEF SubmitBuild, SubmitBuildFails, TypeOK, VersionsTypeOK, JobHasVersion
  <2>11. CASE RecordBuild(p)
    <3>1. key \in Keys /\ procs' \in [Processes -> Process] /\ BusyHasKey' /\ RequestHasVersion'
      BY <2>1, <2>3, <2>11 DEF RecordBuild
    <3>2. jobs' \in [Keys -> Job] /\ JobHasVersion'
      <4>1. CASE job.status = "pending"
        BY <2>4, <2>11, <3>1, <4>1 DEF RecordBuild
      <4>2. CASE job.status # "pending"
        <5>1. jobs' = jobs
          BY <2>1, <2>11, <3>1, <4>2 DEF RecordBuild, TypeOK, Job
        <5> QED BY <5>1 DEF TypeOK, JobHasVersion
      <4> QED BY <4>1, <4>2
    <3> QED BY <2>11, <3>1, <3>2 DEF RecordBuild, TypeOK, VersionsTypeOK
  <2>12. CASE RecordError(p) \/ AlreadyFinished(p) \/ Abandon(p)
    <3>1. UNCHANGED <<versions, jobs, pointer, snapshots, builds, approvals>>
          /\ procs' = [procs EXCEPT ![p] = Idle]
      BY <2>12 DEF RecordError, AlreadyFinished, Abandon
    <3> QED BY <2>3, <3>1 DEF TypeOK, VersionsTypeOK, JobHasVersion
  <2>13. CASE PollBuild(p)
    <3>1. key \in Keys /\ procs[p].pc = "poll"
      BY <2>1, <2>13 DEF PollBuild
    <3>2. builds[key] \in Terminal => [procs[p] EXCEPT !.pc = "finish", !.run = builds[key]] \in Process
      BY <2>1 DEF Process
    <3>3. procs' \in [Processes -> Process] /\ BusyHasKey' /\ RequestHasVersion'
      BY <2>1, <2>2, <2>3, <2>13, <3>1, <3>2 DEF PollBuild, Process
    <3> QED BY <2>13, <3>3 DEF PollBuild, TypeOK, VersionsTypeOK, JobHasVersion
  <2>14. CASE FinalizeJob(p)
    <3>1. key \in Keys /\ job.status = "building" /\ job.version \in VersionIds
      BY <2>1, <2>14 DEF FinalizeJob, JobHasVersion
    <3>2. procs' \in [Processes -> Process] /\ BusyHasKey' /\ RequestHasVersion'
      BY <2>3, <2>14 DEF FinalizeJob
    <3>3. jobs' \in [Keys -> Job] /\ JobHasVersion'
      BY <2>4, <2>14, <3>1 DEF FinalizeJob
    <3>4. pointer' \in Pointer
      BY <2>1, <2>14, <3>1 DEF FinalizeJob, Pointer, Job
    <3>5. VersionsTypeOK'
      BY <2>14, VersionTypes DEF FinalizeJob, Replaced, TypeOK, VersionsTypeOK
    <3> QED BY <2>14, <3>2, <3>3, <3>4, <3>5 DEF FinalizeJob, TypeOK
  <2>15. CASE FailChangedJob(p) \/ FailJob(p)
    <3>1. key \in Keys /\ job.status = "building" /\ job.version \in VersionIds
      BY <2>1, <2>15 DEF FailChangedJob, FailJob, JobHasVersion
    <3>2. procs' \in [Processes -> Process] /\ BusyHasKey' /\ RequestHasVersion'
      BY <2>3, <2>15 DEF FailChangedJob, FailJob
    <3>3. jobs' \in [Keys -> Job] /\ JobHasVersion'
      BY <2>4, <2>15, <3>1 DEF FailChangedJob, FailJob
    <3>4. TargetMatchesJob(job) \in BOOLEAN
      BY DEF TargetMatchesJob
    <3>5. VersionsTypeOK'
      <4>1. \A b \in BOOLEAN : Released(versions[job.version], b) \in Version
        BY <3>1, VersionTypes DEF TypeOK, VersionsTypeOK
      <4>2. \A b \in BOOLEAN :
              [versions EXCEPT ![job.version] = Released(@, b)] \in [VersionIds -> Version]
        BY <3>1, <4>1 DEF TypeOK, VersionsTypeOK
      <4>3. CASE FailChangedJob(p)
        BY <4>2, <4>3 DEF FailChangedJob, VersionsTypeOK
      <4>4. CASE FailJob(p)
        BY <3>4, <4>2, <4>4 DEF FailJob, TypeOK, VersionsTypeOK
      <4> QED BY <2>15, <4>3, <4>4
    <3> QED BY <2>15, <3>2, <3>3, <3>5 DEF FailChangedJob, FailJob, TypeOK
  <2> QED BY <1>3, <2>5, <2>6, <2>7, <2>8, <2>9, <2>10, <2>11, <2>12, <2>13, <2>14, <2>15 DEF Step
<1>4. ASSUME NEW key \in Keys, BuildEnds(key) PROVE Shape'
  BY <1>4 DEF BuildEnds, TypeOK, VersionsTypeOK, BusyHasKey, JobHasVersion, RequestHasVersion
<1>5. ASSUME NEW id \in VersionIds, EditContent(id) PROVE Shape'
  BY <1>5, EditType DEF EditContent, TypeOK, BusyHasKey, JobHasVersion, RequestHasVersion
<1>6. ASSUME NEW id \in VersionIds, ApproveContent(id) PROVE Shape'
  <2>1. versions[id].content \in Contents \cup {NoContent}
    BY DEF TypeOK, VersionsTypeOK, Version
  <2> QED BY <1>6, <2>1, EditType DEF ApproveContent, TypeOK, BusyHasKey, JobHasVersion, RequestHasVersion
<1>7. CASE UNCHANGED vars
  BY <1>7 DEF vars, TypeOK, VersionsTypeOK, BusyHasKey, JobHasVersion, RequestHasVersion
<1> QED BY <1>1, <1>2, <1>3, <1>4, <1>5, <1>6, <1>7 DEF Next

\* Every table and every process always holds values of its type.
THEOREM TypeCorrect == Spec => []TypeOK
<1>1. Spec => []Shape
  BY ShapeInit, ShapeStep, PTL DEF Spec
<1> QED BY <1>1, PTL DEF Shape

----------------------------------------------------------------------------
\* The steps that write a version, a job or the pointer.

Finish(p) == FinalizeJob(p) \/ FailChangedJob(p) \/ FailJob(p)

LEMMA WritingSteps ==
  ASSUME [Next]_vars
  PROVE  \/ UNCHANGED <<versions, jobs, pointer>>
         \/ \E p \in Processes : CreateJob(p) \/ RecordBuild(p) \/ Finish(p)
         \/ \E id \in VersionIds : EditContent(id) \/ ApproveContent(id)
<1>1. CASE \E p \in Requests, key \in Keys : HandleRequest(p, key)
  BY <1>1 DEF HandleRequest, StartRequest, ResumeRequest, RefreshStatus
<1>2. CASE Reconcile
  BY <1>2 DEF Reconcile
<1>3. CASE \E p \in Processes : Step(p)
  BY <1>3 DEF Step, Finish, ReadVersion, SaveSnapshot, RefuseJob, LookUpAgain, SubmitBuild,
              SubmitBuildFails, RecordError, PollBuild, AlreadyFinished, Abandon
<1>4. CASE \E key \in Keys : BuildEnds(key)
  BY <1>4 DEF BuildEnds
<1>5. CASE UNCHANGED vars
  BY <1>5 DEF vars
<1> QED BY <1>1, <1>2, <1>3, <1>4, <1>5 DEF Next

\* createJob fills the free slot with the job it creates.
LEMMA CreateClaims ==
  ASSUME Shape, NEW p \in Processes, CreateJob(p)
  PROVE  /\ procs[p].key \in Keys /\ procs[p].job \in Job /\ procs[p].job.version \in VersionIds
         /\ ActiveKeys = {} /\ ActiveKeys' = {procs[p].key}
         /\ jobs'[procs[p].key] = NewJob(procs[p].job)
<1> DEFINE key == procs[p].key
<1>1. key \in Keys /\ procs[p].job \in Job /\ procs[p].job.version \in VersionIds
  BY DEF Shape, TypeOK, BusyHasKey, RequestHasVersion, Process, CreateJob
<1>2. ActiveKeys = {}
  BY DEF CreateJob, CanAdmit
<1>3. jobs' = [jobs EXCEPT ![key] = NewJob(procs[p].job)] /\ jobs \in [Keys -> Job]
  BY DEF CreateJob, Shape, TypeOK
<1>4. NewJob(procs[p].job).status = "pending"
  BY <1>1, NewJobType
<1> HIDE DEF key
<1>5. \A k \in Keys : Active(jobs'[k]) <=> k = key
  BY <1>1, <1>2, <1>3, <1>4 DEF ActiveKeys, Active
<1> QED BY <1>1, <1>2, <1>3, <1>5 DEF ActiveKeys, Active, key

\* Recording a build changes no frozen field and no claim.
LEMMA RecordKeepsClaim ==
  ASSUME Shape, NEW p \in Processes, RecordBuild(p)
  PROVE  /\ ActiveKeys' = ActiveKeys
         /\ \A k \in Keys : jobs'[k] = [jobs[k] EXCEPT !.status = jobs'[k].status]
<1> DEFINE key == procs[p].key
<1>1. key \in Keys /\ jobs \in [Keys -> Job]
  BY DEF Shape, TypeOK, BusyHasKey, RecordBuild
<1>2. \A k \in Keys : /\ k # key => jobs'[k] = jobs[k]
                      /\ k = key => jobs'[k] = [jobs[k] EXCEPT !.status =
                                        IF jobs[k].status = "pending" THEN "building" ELSE jobs[k].status]
  BY <1>1 DEF RecordBuild
<1>3. \A k \in Keys : jobs'[k] = [jobs[k] EXCEPT !.status = jobs'[k].status]
                      /\ (Active(jobs'[k]) <=> Active(jobs[k]))
  BY <1>1, <1>2 DEF Active, Job
<1> QED BY <1>3 DEF ActiveKeys, Active

\* Finishing a job frees the slot it held, and changes no other job.
LEMMA FinishFrees ==
  ASSUME Shape, NEW p \in Processes, Finish(p)
  PROVE  /\ procs[p].key \in ActiveKeys
         /\ jobs[procs[p].key] \in Job /\ jobs[procs[p].key].version \in VersionIds
         /\ jobs[procs[p].key].status = "building"
         /\ ActiveKeys' = ActiveKeys \ {procs[p].key}
         /\ \A k \in Keys : k # procs[p].key => jobs'[k] = jobs[k]
<1> DEFINE key == procs[p].key
<1>1. key \in Keys /\ jobs[key].status = "building" /\ jobs \in [Keys -> Job]
  BY DEF Shape, TypeOK, BusyHasKey, Finish, FinalizeJob, FailChangedJob, FailJob
<1>2. PICK status \in Terminal : jobs' = [jobs EXCEPT ![key].status = status]
  BY DEF Finish, FinalizeJob, FailChangedJob, FailJob, Terminal
<1>3. \A k \in Keys : /\ k # key => jobs'[k] = jobs[k]
                      /\ k = key => jobs'[k].status = status
  BY <1>1, <1>2 DEF Job
<1>4. \A k \in Keys : Active(jobs'[k]) <=> Active(jobs[k]) /\ k # key
  BY <1>1, <1>2, <1>3 DEF Active, Terminal
<1>5. jobs[key].version \in VersionIds /\ jobs[key] \in Job
  BY <1>1 DEF Shape, JobHasVersion
<1> QED BY <1>1, <1>3, <1>4, <1>5 DEF ActiveKeys, Active

\* At most one production job is pending or building.
LEMMA OneActiveStep == Shape /\ OneActiveJob /\ [Next]_vars => OneActiveJob'
<1> SUFFICES ASSUME Shape, OneActiveJob, [Next]_vars PROVE OneActiveJob'
  OBVIOUS
<1>1. CASE UNCHANGED <<versions, jobs, pointer>>
  BY <1>1 DEF OneActiveJob, ActiveKeys, Active
<1>2. ASSUME NEW p \in Processes, CreateJob(p) \/ RecordBuild(p) \/ Finish(p) PROVE OneActiveJob'
  BY <1>2, CreateClaims, RecordKeepsClaim, FinishFrees DEF OneActiveJob
<1>3. ASSUME NEW id \in VersionIds, EditContent(id) \/ ApproveContent(id) PROVE OneActiveJob'
  BY <1>3 DEF EditContent, ApproveContent, OneActiveJob, ActiveKeys, Active
<1> QED BY <1>1, <1>2, <1>3, WritingSteps

\* The content service changes one version, which is not and does not become
\* published, archived or (unless it stays so) publishing.
LEMMA EditEffects ==
  ASSUME Shape, NEW id \in VersionIds, EditContent(id) \/ ApproveContent(id)
  PROVE  /\ UNCHANGED <<jobs, pointer>>
         /\ \A other \in VersionIds : other # id => versions'[other] = versions[other]
         /\ versions'[id].status \in {"draft", "in_review"}
         /\ versions[id].status \notin {"published", "archived"}
<1> DEFINE Edited == /\ \A other \in VersionIds : other # id => versions'[other] = versions[other]
                     /\ versions'[id].status \in {"draft", "in_review"}
                     /\ versions[id].status \notin {"published", "archived"}
<1>1. versions \in [VersionIds -> Version] /\ versions[id] \in Version
  BY DEF Shape, TypeOK, VersionsTypeOK
<1>2. ASSUME NEW c, versions[id] = Absent, versions' = [versions EXCEPT ![id] = NewDraft(c)]
      PROVE  Edited
  BY <1>1, <1>2 DEF NewDraft, Absent
<1>3. ASSUME NEW expected, NEW changed \in Version, Mutate(id, expected, changed),
             changed.status \in {"draft", "in_review"}, versions[id].status \notin {"published", "archived"}
      PROVE  Edited
  BY <1>1, <1>3 DEF Mutate, Version
<1>4. ASSUME NEW expected, NEW c \in Contents, UpdateDraft(id, expected, c) PROVE Edited
  <2>1. [versions[id] EXCEPT !.content = c] \in Version
        /\ [versions[id] EXCEPT !.content = c].status = versions[id].status
    BY <1>1 DEF Version
  <2> QED BY <1>3, <1>4, <2>1 DEF UpdateDraft
<1>5. ASSUME NEW expected, SubmitReview(id, expected) PROVE Edited
  <2>1. [versions[id] EXCEPT !.status = "in_review", !.approved = FALSE] \in Version
        /\ [versions[id] EXCEPT !.status = "in_review", !.approved = FALSE].status = "in_review"
    BY <1>1 DEF Version, Statuses
  <2>2. versions[id].status \notin {"published", "archived"}
    BY <1>5 DEF SubmitReview, CanTransition
  <2> QED BY <1>3, <1>5, <2>1, <2>2 DEF SubmitReview
<1>6. ASSUME NEW expected, RejectReview(id, expected) PROVE Edited
  <2>1. [versions[id] EXCEPT !.status = "draft", !.approved = FALSE] \in Version
        /\ [versions[id] EXCEPT !.status = "draft", !.approved = FALSE].status = "draft"
    BY <1>1 DEF Version, Statuses
  <2>2. versions[id].status \notin {"published", "archived"}
    BY <1>6 DEF RejectReview, CanTransition
  <2> QED BY <1>3, <1>6, <2>1, <2>2 DEF RejectReview
<1>7. ASSUME NEW expected, ApproveReview(id, expected) PROVE Edited
  <2>1. [versions[id] EXCEPT !.approved = TRUE] \in Version
        /\ [versions[id] EXCEPT !.approved = TRUE].status = versions[id].status
    BY <1>1 DEF Version
  <2> QED BY <1>3, <1>7, <2>1 DEF ApproveReview
<1>8. CASE EditContent(id)
  <2>1. ASSUME NEW c \in Contents, CreateNamedDraft(id, c) PROVE Edited
    BY <1>2, <2>1 DEF CreateNamedDraft
  <2>2. ASSUME NEW source \in VersionIds, CloneVersion(source, id) PROVE Edited
    BY <1>2, <2>2 DEF CloneVersion
  <2>3. Edited
    BY <1>4, <1>5, <1>6, <1>8, <2>1, <2>2 DEF EditContent
  <2> QED BY <1>8, <2>3 DEF EditContent
<1>9. CASE ApproveContent(id)
  BY <1>7, <1>9 DEF ApproveContent
<1> QED BY <1>8, <1>9

\* Exactly the version the pointer names is published.
LEMMA PublishedIsPointerStep ==
  Shape /\ PublishedIsPointer /\ [Next]_vars => PublishedIsPointer'
<1> SUFFICES ASSUME Shape, PublishedIsPointer, [Next]_vars PROVE PublishedIsPointer'
  OBVIOUS
<1>1. versions \in [VersionIds -> Version]
  BY DEF Shape, TypeOK, VersionsTypeOK
<1>2. CASE UNCHANGED <<versions, jobs, pointer>>
  BY <1>2 DEF PublishedIsPointer
<1>3. ASSUME NEW p \in Processes, CreateJob(p) PROVE PublishedIsPointer'
  <2> DEFINE request == procs[p].job
  <2>1. request.op = "publish" => versions[request.version].status # "published"
    BY <1>3 DEF CreateJob, CanAdmit, TargetUnchanged, CanTransition
  <2>2. request.version \in VersionIds
    BY <1>3, CreateClaims
  <2>3. Admitted(versions[request.version]).status = "publishing"
    BY <1>1, <2>2, VersionEffects
  <2> QED BY <1>1, <1>3, <2>1, <2>2, <2>3 DEF CreateJob, PublishedIsPointer
<1>4. ASSUME NEW p \in Processes, RecordBuild(p) PROVE PublishedIsPointer'
  BY <1>4 DEF RecordBuild, PublishedIsPointer
<1>5. ASSUME NEW p \in Processes, FinalizeJob(p) PROVE PublishedIsPointer'
  <2> DEFINE id == jobs[procs[p].key].version
  <2>1. id \in VersionIds
    BY <1>5, FinishFrees DEF Finish
  <2>2. pointer'.version = id
    BY <1>5 DEF FinalizeJob
  <2>3. \A other \in VersionIds :
          /\ other = id => versions'[other] = Promoted(versions[other])
          /\ other # id /\ other = pointer.version => versions'[other] = Archived(versions[other])
          /\ other # id /\ other # pointer.version => versions'[other] = versions[other]
    BY <1>5 DEF FinalizeJob, Replaced
  <2>4. \A other \in VersionIds : Promoted(versions[other]).status = "published"
                                  /\ Archived(versions[other]).status = "archived"
    BY <1>1, VersionEffects
  <2> HIDE DEF id
  <2> QED BY <2>1, <2>2, <2>3, <2>4 DEF PublishedIsPointer
<1>6. ASSUME NEW p \in Processes, FailChangedJob(p) \/ FailJob(p) PROVE PublishedIsPointer'
  <2> DEFINE id == jobs[procs[p].key].version
  <2>1. id \in VersionIds
    BY <1>6, FinishFrees DEF Finish
  <2>2. PICK b \in BOOLEAN : versions' \in {versions, [versions EXCEPT ![id] = Released(@, b)]}
    BY <1>6 DEF FailChangedJob, FailJob, TargetMatchesJob
  <2>3. Released(versions[id], b).status = "published" <=> versions[id].status = "published"
    BY <1>1, <2>1, VersionEffects
  <2>4. \A other \in VersionIds :
          versions'[other].status = "published" <=> versions[other].status = "published"
    BY <1>1, <2>1, <2>2, <2>3
  <2> QED BY <1>6, <2>4 DEF FailChangedJob, FailJob, PublishedIsPointer
<1>7. ASSUME NEW id \in VersionIds, EditContent(id) \/ ApproveContent(id) PROVE PublishedIsPointer'
  BY <1>7, EditEffects DEF PublishedIsPointer
<1> QED BY <1>2, <1>3, <1>4, <1>5, <1>6, <1>7, WritingSteps DEF Finish

\* A frozen version belongs to an active job that still matches it.
Claims(key, id) ==
  /\ key \in ActiveKeys
  /\ jobs[key].op = "publish" /\ jobs[key].version = id
  /\ versions[id].status = "publishing" /\ versions[id].approved
  /\ versions[id].revision = jobs[key].revision
  /\ versions[id].content = jobs[key].content

Claimed == \A id \in VersionIds : versions[id].status = "publishing" => \E key \in Keys : Claims(key, id)

LEMMA ClaimedMeaning == Claimed <=> PublishingHasJob
BY DEF Claimed, Claims, PublishingHasJob, TargetMatchesJob, ActiveKeys

\* A claimed version stays claimed while it is frozen, and one that becomes
\* frozen is claimed.
LEMMA ClaimStays ==
  ASSUME Shape, OneActiveJob, [Next]_vars, NEW id \in VersionIds, versions'[id].status = "publishing",
         versions[id].status = "publishing" => \E key \in Keys : Claims(key, id)
  PROVE  \E key \in Keys : Claims(key, id)'
<1>1. versions \in [VersionIds -> Version] /\ jobs \in [Keys -> Job]
  BY DEF Shape, TypeOK, VersionsTypeOK
<1>2. CASE UNCHANGED <<versions, jobs, pointer>>
  BY <1>2 DEF Claims, ActiveKeys, Active
<1>3. ASSUME NEW p \in Processes, CreateJob(p) PROVE \E key \in Keys : Claims(key, id)'
  <2> DEFINE request == procs[p].job
             target == versions[request.version]
  <2>0. PICK key \in Keys : key = procs[p].key
    BY <1>3, CreateClaims
  <2>1. /\ request \in Job /\ request.version \in VersionIds /\ key \in Keys
        /\ ActiveKeys = {} /\ ActiveKeys' = {key} /\ jobs'[key] = NewJob(request)
    BY <1>3, <2>0, CreateClaims
  <2>2. versions[id].status # "publishing"
    BY <2>1 DEF Claims
  <2>3. request.op = "publish" /\ request.version = id
    BY <1>1, <1>3, <2>0, <2>1, <2>2 DEF CreateJob
  <2>4. versions' = [versions EXCEPT ![id] = Admitted(@)]
    BY <1>3, <2>3 DEF CreateJob
  <2>5. target.revision = request.revision /\ target.content = request.content /\ target.approved
    BY <1>3, <2>3 DEF CreateJob, CanAdmit, TargetUnchanged, CanTransition
  <2>6. jobs'[key].op = "publish" /\ jobs'[key].version = id
        /\ jobs'[key].content = request.content /\ jobs'[key].revision = request.revision + 1
    BY <2>1, <2>3, NewJobType
  <2>7. versions'[id].revision = target.revision + 1 /\ versions'[id].content = target.content
        /\ versions'[id].approved = target.approved
    <3>1. versions'[id] = Admitted(target) /\ target \in Version
      BY <1>1, <2>3, <2>4
    <3> HIDE DEF target
    <3> QED BY <3>1 DEF Admitted, Version
  <2>8. Claims(key, id)'
    BY <2>1, <2>5, <2>6, <2>7 DEF Claims
  <2> QED BY <2>1, <2>8
<1>4. ASSUME NEW p \in Processes, RecordBuild(p) PROVE \E key \in Keys : Claims(key, id)'
  <2>1. versions' = versions
    BY <1>4 DEF RecordBuild
  <2>2. PICK key \in Keys : Claims(key, id)
    BY <2>1
  <2>3. key \in ActiveKeys' /\ jobs'[key] = [jobs[key] EXCEPT !.status = jobs'[key].status]
    BY <1>4, <2>2, RecordKeepsClaim DEF Claims
  <2>4. jobs'[key].op = jobs[key].op /\ jobs'[key].version = jobs[key].version
        /\ jobs'[key].content = jobs[key].content /\ jobs'[key].revision = jobs[key].revision
    BY <1>1, <2>3 DEF Job
  <2> QED BY <2>1, <2>2, <2>3, <2>4 DEF Claims
<1>5. ASSUME NEW p \in Processes, Finish(p) PROVE FALSE
  <2> DEFINE key == procs[p].key
             job == jobs[key]
             target == versions[job.version]
  <2>1. key \in ActiveKeys /\ job.version \in VersionIds /\ target \in Version
    BY <1>1, <1>5, FinishFrees
  <2>2. \A b \in BOOLEAN : Released(target, b).status # "publishing"
    BY <2>1, VersionEffects
  <2>3. \A other \in VersionIds : Promoted(versions[other]).status = "published"
                                  /\ Archived(versions[other]).status = "archived"
    BY <1>1, VersionEffects
  <2>4. versions[id].status = "publishing"
    <3>1. CASE FinalizeJob(p)
      <4>1. versions' = Replaced(job.version)
        BY <3>1 DEF FinalizeJob
      <4> QED BY <2>3, <4>1 DEF Replaced
    <3>2. CASE FailChangedJob(p) \/ FailJob(p)
      <4>1. PICK b \in BOOLEAN : versions' \in {versions, [versions EXCEPT ![job.version] = Released(@, b)]}
        BY <3>2 DEF FailChangedJob, FailJob, TargetMatchesJob
      <4> QED BY <1>1, <2>1, <2>2, <4>1
    <3> QED BY <1>5, <3>1, <3>2 DEF Finish
  <2>5. Claims(key, id)
    BY <2>1, <2>4 DEF Claims, OneActiveJob
  <2>6. CASE FinalizeJob(p)
    <3>1. versions' = Replaced(job.version)
      BY <2>6 DEF FinalizeJob
    <3> QED BY <2>3, <2>5, <3>1 DEF Replaced, Claims
  <2>7. CASE FailChangedJob(p)
    <3>1. ~TargetMatchesJob(job)
      BY <2>7 DEF FailChangedJob
    <3> QED BY <2>5, <3>1 DEF Claims, TargetMatchesJob
  <2>8. CASE FailJob(p)
    <3>1. job.op = "publish" /\ job.version = id
      BY <2>5 DEF Claims
    <3>2. PICK b \in BOOLEAN : versions' = [versions EXCEPT ![id] = Released(@, b)]
      BY <2>8, <3>1 DEF FailJob, TargetMatchesJob
    <3>3. versions'[id] = Released(target, b)
      BY <1>1, <3>1, <3>2
    <3> QED BY <2>2, <3>3
  <2> QED BY <1>5, <2>6, <2>7, <2>8 DEF Finish
<1>6. ASSUME NEW other \in VersionIds, EditContent(other) \/ ApproveContent(other)
      PROVE  \E key \in Keys : Claims(key, id)'
  <2>1. jobs' = jobs /\ versions'[id] = versions[id]
    BY <1>6, EditEffects
  <2>2. PICK key \in Keys : Claims(key, id)
    BY <2>1
  <2> QED BY <2>1, <2>2 DEF Claims, ActiveKeys, Active
<1> QED BY <1>2, <1>3, <1>4, <1>5, <1>6, WritingSteps

LEMMA ClaimedStep == Shape /\ OneActiveJob /\ Claimed /\ [Next]_vars => Claimed'
BY ClaimStays DEF Claimed

LEMMA ClaimsInit == Init => OneActiveJob /\ PublishedIsPointer /\ Claimed
BY PublishingAssumption
   DEF Init, VersionsInit, Absent, NoJob, NoPointer, OneActiveJob, PublishedIsPointer, Claimed,
       ActiveKeys, Active

----------------------------------------------------------------------------
\* At most one production job is ever pending or building, however many
\* requests are between their look at the slot and their transaction.
THEOREM OneActive == Spec => []OneActiveJob
<1>1. Init => Shape /\ OneActiveJob
  BY ShapeInit, ClaimsInit
<1>2. Shape /\ OneActiveJob /\ [Next]_vars => (Shape /\ OneActiveJob)'
  BY ShapeStep, OneActiveStep
<1> QED BY <1>1, <1>2, PTL DEF Spec

\* Exactly the version the pointer names is ever published.
THEOREM PublishedPointer == Spec => []PublishedIsPointer
<1>1. Init => Shape /\ PublishedIsPointer
  BY ShapeInit, ClaimsInit
<1>2. Shape /\ PublishedIsPointer /\ [Next]_vars => (Shape /\ PublishedIsPointer)'
  BY ShapeStep, PublishedIsPointerStep
<1> QED BY <1>1, <1>2, PTL DEF Spec

\* No version is ever left in "publishing" without the active job that will
\* publish it or release it.
THEOREM PublishingClaimed == Spec => []PublishingHasJob
<1>1. Init => Shape /\ OneActiveJob /\ Claimed
  BY ShapeInit, ClaimsInit
<1>2. Shape /\ OneActiveJob /\ Claimed /\ [Next]_vars => (Shape /\ OneActiveJob /\ Claimed)'
  BY ShapeStep, OneActiveStep, ClaimedStep
<1> QED BY <1>1, <1>2, ClaimedMeaning, PTL DEF Spec

----------------------------------------------------------------------------
(* What is released: what the pointer serves, what can be rolled back to,   *)
(* which builds run, and that publishing is a slot claimed by one job at a  *)
(* time.                                                                    *)

\* What went through a review keeps its approval until editors get it back,
\* and an approval is always of the content the version has.
Reviewed ==
  \A id \in VersionIds :
    LET version == versions[id] IN
    /\ version = Absent \/ (version.status # "absent" /\ version.content \in Contents)
    /\ version.approved => version.status \notin {"absent", "draft"} /\ <<id, version.content>> \in approvals
    /\ version.status \in {"publishing", "published", "archived"} => version.approved

\* The snapshot of a job is stored before the job exists.
Stored ==
  /\ \A key \in Keys : jobs[key].status # "none" => jobs[key].content \in snapshots
  /\ \A p \in Processes : procs[p].pc = "create" => procs[p].job.content \in snapshots

\* The build of a key is behind its job: triggered for a job, running or ended
\* when the job is building, ended when it is finished.
BuildsFollow ==
  /\ \A key \in Keys :
       /\ jobs[key].status \in {"building", "succeeded", "failed"} => builds[key] # "none"
       /\ jobs[key].status \in Terminal => builds[key] \in Terminal
  /\ \A p \in Processes :
       LET key == procs[p].key IN
       /\ procs[p].pc \in {"trigger", "record", "poll", "finish"} => jobs[key].status # "none"
       /\ procs[p].pc = "record" /\ procs[p].run = "accepted" => builds[key] # "none"
       /\ procs[p].pc = "finish" => procs[p].run \in Terminal /\ builds[key] = procs[p].run

----------------------------------------------------------------------------
\* The life of a job.

\* A job is created, gets its build recorded, and is finished, each by one
\* process; what it publishes never changes.
JobMoves(p, key) ==
  /\ procs[p].key = key
  /\ \/ CreateJob(p) /\ jobs[key] = NoJob /\ jobs'[key] = NewJob(procs[p].job)
     \/ RecordBuild(p) /\ jobs[key].status = "pending" /\ jobs'[key].status = "building"
     \/ Finish(p) /\ jobs[key].status = "building" /\ jobs'[key].status \in Terminal
          /\ builds' = builds
  /\ jobs[key] # NoJob => jobs'[key] = [jobs[key] EXCEPT !.status = jobs'[key].status]

LEMMA JobForward ==
  ASSUME Shape, [Next]_vars, NEW key \in Keys
  PROVE  jobs'[key] = jobs[key] \/ \E p \in Processes : JobMoves(p, key)
<1>1. jobs \in [Keys -> Job]
  BY DEF Shape, TypeOK
<1>2. ASSUME NEW p \in Processes, CreateJob(p), jobs'[key] # jobs[key] PROVE JobMoves(p, key)
  <2>1. jobs' = [jobs EXCEPT ![procs[p].key] = NewJob(procs[p].job)] /\ jobs[procs[p].key] = NoJob
    BY <1>2 DEF CreateJob, CanAdmit
  <2>2. procs[p].key = key
    BY <1>1, <1>2, <2>1
  <2> QED BY <1>1, <1>2, <2>1, <2>2 DEF JobMoves
<1>3. ASSUME NEW p \in Processes, RecordBuild(p), jobs'[key] # jobs[key] PROVE JobMoves(p, key)
  <2>1. procs[p].key \in Keys
    BY <1>3 DEF Shape, BusyHasKey, RecordBuild
  <2>2. procs[p].key = key
    BY <1>1, <1>3, <2>1 DEF RecordBuild
  <2>3. jobs'[key] = [jobs[key] EXCEPT !.status = IF jobs[key].status = "pending" THEN "building"
                                                   ELSE jobs[key].status]
    BY <1>1, <1>3, <2>1, <2>2 DEF RecordBuild
  <2>4. jobs[key].status = "pending"
    BY <1>1, <1>3, <2>3 DEF Job
  <2>5. jobs'[key].status = "building" /\ jobs'[key] = [jobs[key] EXCEPT !.status = "building"]
    BY <1>1, <2>3, <2>4 DEF Job
  <2> QED BY <1>3, <2>2, <2>4, <2>5 DEF JobMoves
<1>4. ASSUME NEW p \in Processes, Finish(p), jobs'[key] # jobs[key] PROVE JobMoves(p, key)
  <2>1. procs[p].key = key /\ jobs[key].status = "building"
    BY <1>4, FinishFrees
  <2>2. PICK status \in Terminal : jobs' = [jobs EXCEPT ![procs[p].key].status = status]
    BY <1>4 DEF Finish, FinalizeJob, FailChangedJob, FailJob, Terminal
  <2>3. jobs'[key] = [jobs[key] EXCEPT !.status = status]
    BY <1>1, <2>1, <2>2
  <2>4. jobs'[key].status = status
    BY <1>1, <2>3 DEF Job
  <2>5. builds' = builds
    BY <1>4 DEF Finish, FinalizeJob, FailChangedJob, FailJob
  <2> QED BY <1>4, <2>1, <2>3, <2>4, <2>5 DEF JobMoves
<1>5. ASSUME NEW id \in VersionIds, EditContent(id) \/ ApproveContent(id) PROVE jobs' = jobs
  BY <1>5 DEF EditContent, ApproveContent
<1> QED BY <1>2, <1>3, <1>4, <1>5, WritingSteps

\* A created job is of the version and the content its process read.
LEMMA NewJobs ==
  ASSUME Shape, NEW p \in Processes, NEW key \in Keys, JobMoves(p, key), jobs[key] = NoJob
  PROVE  /\ CreateJob(p) /\ jobs'[key].status = "pending"
         /\ jobs'[key].version = procs[p].job.version /\ jobs'[key].content = procs[p].job.content
         /\ jobs'[key].op = procs[p].job.op
<1>1. jobs'[key] = NewJob(procs[p].job) /\ CreateJob(p)
  BY DEF JobMoves, NoJob, Terminal
<1>2. procs[p].job \in Job
  BY DEF Shape, TypeOK, Process
<1> QED BY <1>1, <1>2, NewJobType

LEMMA JobStays ==
  ASSUME Shape, [Next]_vars, NEW key \in Keys, jobs[key].status # "none"
  PROVE  /\ jobs'[key].status # "none"
         /\ jobs'[key].version = jobs[key].version /\ jobs'[key].content = jobs[key].content
         /\ jobs'[key].op = jobs[key].op /\ jobs'[key].revision = jobs[key].revision
         /\ jobs[key].status \in Terminal => jobs'[key] = jobs[key]
<1>1. jobs[key] \in Job /\ jobs[key] # NoJob
  BY DEF Shape, TypeOK, NoJob
<1>2. CASE jobs'[key] = jobs[key]
  BY <1>2
<1>3. ASSUME NEW p \in Processes, JobMoves(p, key)
      PROVE  /\ jobs'[key].status \in {"building"} \cup Terminal
             /\ jobs'[key] = [jobs[key] EXCEPT !.status = jobs'[key].status]
             /\ jobs[key].status \notin Terminal
  BY <1>1, <1>3 DEF JobMoves, Terminal
<1>4. ASSUME NEW p \in Processes, JobMoves(p, key)
      PROVE  /\ jobs'[key].version = jobs[key].version /\ jobs'[key].content = jobs[key].content
             /\ jobs'[key].op = jobs[key].op /\ jobs'[key].revision = jobs[key].revision
  BY <1>1, <1>3, <1>4 DEF Job
<1> QED BY <1>2, <1>3, <1>4, JobForward DEF Terminal

\* A job only moves forward, and what it publishes is fixed.
JobStepForward ==
  \A key \in Keys : jobs[key] # NoJob =>
    /\ jobs'[key] = [jobs[key] EXCEPT !.status = jobs'[key].status]
    /\ \/ jobs'[key].status = jobs[key].status
       \/ jobs[key].status = "pending" /\ jobs'[key].status = "building"
       \/ jobs[key].status = "building" /\ jobs'[key].status \in Terminal

LEMMA JobsForward == Shape /\ [Next]_vars => JobStepForward
<1> SUFFICES ASSUME Shape, [Next]_vars, NEW key \in Keys, jobs[key] # NoJob
             PROVE  /\ jobs'[key] = [jobs[key] EXCEPT !.status = jobs'[key].status]
                    /\ \/ jobs'[key].status = jobs[key].status
                       \/ jobs[key].status = "pending" /\ jobs'[key].status = "building"
                       \/ jobs[key].status = "building" /\ jobs'[key].status \in Terminal
  BY DEF JobStepForward
<1>1. jobs[key] \in Job
  BY DEF Shape, TypeOK
<1>2. CASE jobs'[key] = jobs[key]
  BY <1>1, <1>2 DEF Job
<1>3. ASSUME NEW p \in Processes, JobMoves(p, key)
      PROVE  /\ jobs'[key] = [jobs[key] EXCEPT !.status = jobs'[key].status]
             /\ \/ jobs[key].status = "pending" /\ jobs'[key].status = "building"
                \/ jobs[key].status = "building" /\ jobs'[key].status \in Terminal
  BY <1>3 DEF JobMoves
<1> QED BY <1>2, <1>3, JobForward

\* A late answer neither reopens a finished job nor changes what it publishes.
THEOREM JobsOnlyForward == Spec => JobsMoveForward
<1>1. Shape /\ [Next]_vars => [JobStepForward]_vars
  BY JobsForward
<1> QED BY <1>1, ShapeInit, ShapeStep, PTL DEF Spec, JobsMoveForward, JobStepForward

----------------------------------------------------------------------------
\* Builds and processes follow the jobs.

\* How the build of a key may move.
LEMMA BuildForward ==
  ASSUME Shape, [Next]_vars, NEW key \in Keys, builds'[key] # builds[key]
  PROVE  /\ UNCHANGED <<versions, jobs, pointer, snapshots>>
         /\ \A other \in Keys : other # key => builds'[other] = builds[other]
         /\ builds' = [builds EXCEPT ![key] = builds'[key]]
         /\ \/ /\ builds[key] = "none" /\ builds'[key] = "running"
               /\ \A other \in Keys : builds[other] # "running"
               /\ \E p \in Processes : procs[p].pc = "trigger" /\ procs[p].key = key
            \/ builds[key] = "running" /\ builds'[key] \in Terminal
<1>1. builds \in [Keys -> {"none", "running"} \cup Terminal]
  BY DEF Shape, TypeOK
<1>2. ASSUME NEW p \in Processes, SubmitBuild(p) \/ SubmitBuildFails(p)
      PROVE  /\ builds' = Enqueued(procs[p].key) /\ CanEnqueue(procs[p].key)
             /\ procs[p].pc = "trigger" /\ UNCHANGED <<versions, jobs, pointer, snapshots>>
  BY <1>2 DEF SubmitBuild, SubmitBuildFails
<1>3. ASSUME NEW p \in Processes, SubmitBuild(p) \/ SubmitBuildFails(p)
      PROVE  /\ procs[p].key = key /\ builds[key] = "none" /\ builds' = [builds EXCEPT ![key] = "running"]
             /\ \A other \in Keys : builds[other] # "running"
  BY <1>1, <1>2, <1>3 DEF Enqueued, CanEnqueue
<1>4. ASSUME NEW k \in Keys, BuildEnds(k)
      PROVE  k = key /\ builds[key] = "running" /\ builds'[key] \in Terminal
             /\ builds' = [builds EXCEPT ![key] = builds'[key]]
             /\ UNCHANGED <<versions, jobs, pointer, snapshots>>
  BY <1>1, <1>4 DEF BuildEnds
<1>5. ASSUME NEW p \in Processes, Step(p), ~SubmitBuild(p), ~SubmitBuildFails(p) PROVE builds' = builds
  BY <1>5 DEF Step, ReadVersion, SaveSnapshot, CreateJob, RefuseJob, LookUpAgain, RecordBuild, RecordError,
              PollBuild, FinalizeJob, FailChangedJob, FailJob, AlreadyFinished, Abandon
<1>6. CASE \E p \in Processes : SubmitBuild(p) \/ SubmitBuildFails(p)
  BY <1>1, <1>2, <1>3, <1>6
<1>7. CASE \E k \in Keys : BuildEnds(k)
  BY <1>1, <1>4, <1>7
<1> QED
  BY <1>5, <1>6, <1>7 DEF Next, HandleRequest, StartRequest, ResumeRequest, RefreshStatus, Reconcile,
     EditContent, ApproveContent, vars

\* The steps a process takes, as far as jobs, snapshots and builds are concerned.
Goes(p) ==
  LET old == procs[p]
      new == procs'[p]
  IN
  \/ new = Idle \/ new.pc \in {"version", "snapshot", "relookup"}
  \/ new.pc = "create" /\ old.pc = "snapshot" /\ new.job = old.job /\ old.job.content \in snapshots'
  \/ new.pc \in {"trigger", "poll"} /\ jobs'[new.key].status # "none"
  \/ /\ new.pc = "record" /\ old.pc = "trigger" /\ new.key = old.key /\ jobs' = jobs
     /\ new.run = "accepted" => builds'[new.key] # "none"
  \/ /\ new.pc = "finish" /\ old.pc = "poll" /\ new.key = old.key /\ UNCHANGED <<jobs, builds>>
     /\ new.run \in Terminal /\ builds[new.key] = new.run

LEMMA ProcessGoes ==
  ASSUME Shape, [Next]_vars, NEW p \in Processes, procs'[p] # procs[p]
  PROVE  Goes(p)
<1>1. /\ procs \in [Processes -> Process] /\ Requests \subseteq Processes /\ Reconciler \in Processes
      /\ \A q \in Processes : procs[q].pc # "idle" => procs[q].key \in Keys
      /\ builds \in [Keys -> {"none", "running"} \cup Terminal] /\ jobs \in [Keys -> Job]
  BY DEF Shape, TypeOK, BusyHasKey, Processes
<1>2. ASSUME NEW q \in Requests, NEW key \in Keys, HandleRequest(q, key) PROVE Goes(p)
  <2>1. jobs' = jobs /\ \E proc : procs' = [procs EXCEPT ![q] = proc]
    BY <1>2 DEF HandleRequest, StartRequest, ResumeRequest, RefreshStatus
  <2>2. p = q
    BY <1>1, <2>1
  <2>3. ASSUME NEW op \in {"publish", "rollback"}, NEW id \in VersionIds, NEW actor \in Actors,
               StartRequest(q, key, RequestOf(op, id, actor))
        PROVE  procs'[p].pc = "version"
    <3>1. procs'[p] = [At("version", key) EXCEPT !.job = RequestOf(op, id, actor)]
      BY <1>1, <2>2, <2>3 DEF StartRequest
    <3> QED BY <3>1, AtType DEF Process
  <2>4. ASSUME NEW op \in {"publish", "rollback"}, NEW id \in VersionIds, NEW actor \in Actors,
               ResumeRequest(q, key, RequestOf(op, id, actor))
        PROVE  procs'[p].pc = "trigger" /\ procs'[p].key = key /\ jobs'[key].status # "none"
    <3>1. procs'[p] = At("trigger", key) /\ jobs[key].status = "pending"
      BY <1>1, <2>2, <2>4 DEF ResumeRequest
    <3> QED BY <2>1, <3>1, AtType
  <2>5. ASSUME RefreshStatus(q, key)
        PROVE  procs'[p].pc = "poll" /\ procs'[p].key = key /\ jobs'[key].status # "none"
    <3>1. procs'[p] = At("poll", key) /\ jobs[key].status = "building"
      BY <1>1, <2>2, <2>5 DEF RefreshStatus
    <3> QED BY <2>1, <3>1, AtType
  <2> QED BY <1>2, <2>3, <2>4, <2>5 DEF HandleRequest, Goes
<1>3. CASE Reconcile
  <2>1. PICK key \in ActiveKeys : procs' = [procs EXCEPT ![Reconciler] =
                   At(IF jobs[key].status = "pending" THEN "trigger" ELSE "poll", key)]
    BY <1>3 DEF Reconcile
  <2>2. key \in Keys /\ jobs[key].status # "none" /\ jobs' = jobs
    BY <1>3 DEF ActiveKeys, Active, Reconcile
  <2>3. p = Reconciler /\ procs'[p] \in {At("trigger", key), At("poll", key)}
    BY <1>1, <2>1
  <2> QED BY <2>2, <2>3, AtType DEF Goes
<1>4. ASSUME NEW q \in Processes, Step(q) PROVE Goes(p)
  <2>1. \E proc : procs' = [procs EXCEPT ![q] = proc]
    BY <1>4 DEF Step, ReadVersion, SaveSnapshot, CreateJob, RefuseJob, LookUpAgain, SubmitBuild,
                SubmitBuildFails, RecordBuild, RecordError, PollBuild, FinalizeJob, FailChangedJob, FailJob,
                AlreadyFinished, Abandon
  <2>2. q = p /\ procs[p] \in Process
    BY <1>1, <2>1
  <2>3. CASE RecordBuild(p) \/ RecordError(p) \/ Finish(p) \/ AlreadyFinished(p) \/ Abandon(p)
    BY <1>1, <2>3 DEF RecordBuild, RecordError, Finish, FinalizeJob, FailChangedJob, FailJob, AlreadyFinished,
                      Abandon, Goes
  <2>4. CASE ReadVersion(p)
    <3> DEFINE next == [procs[p] EXCEPT !.pc = "snapshot",
                          !.job.content = versions[procs[p].job.version].content,
                          !.job.revision = versions[procs[p].job.version].revision]
    <3>1. next.pc = "snapshot"
      BY <2>2 DEF Process
    <3>2. procs'[p] \in {next, Idle}
      BY <1>1, <2>4 DEF ReadVersion
    <3> HIDE DEF next
    <3> QED BY <3>1, <3>2 DEF Goes
  <2>5. CASE SaveSnapshot(p)
    BY <1>1, <2>2, <2>5 DEF SaveSnapshot, Goes, Process
  <2>6. CASE CreateJob(p)
    <3>1. procs'[p] = At("trigger", procs[p].key) /\ procs[p].key \in Keys
      BY <1>1, <2>6 DEF CreateJob
    <3>2. jobs'[procs[p].key].status = "pending"
      BY <2>6, CreateClaims, NewJobType
    <3> QED BY <3>1, <3>2, AtType DEF Goes
  <2>7. CASE RefuseJob(p)
    BY <1>1, <2>2, <2>7 DEF RefuseJob, Goes, Process
  <2>8. CASE LookUpAgain(p)
    <3>1. procs[p].key \in Keys /\ jobs' = jobs
      BY <1>1, <2>8 DEF LookUpAgain
    <3>2. \/ procs'[p] = Idle
          \/ procs'[p] = At("trigger", procs[p].key) /\ jobs[procs[p].key].status = "pending"
      BY <1>1, <2>8 DEF LookUpAgain
    <3> QED BY <3>1, <3>2, AtType DEF Goes
  <2>9. CASE SubmitBuild(p)
    <3>1. procs'[p] = [procs[p] EXCEPT !.pc = "record", !.run = "accepted"] /\ procs[p].key \in Keys
      BY <1>1, <2>9 DEF SubmitBuild
    <3>2. builds'[procs[p].key] # "none"
      BY <1>1, <2>9, <3>1 DEF SubmitBuild, Enqueued
    <3>3. procs'[p].pc = "record" /\ procs'[p].key = procs[p].key
      BY <2>2, <3>1 DEF Process
    <3>4. procs[p].pc = "trigger" /\ jobs' = jobs
      BY <2>9 DEF SubmitBuild
    <3> QED BY <3>2, <3>3, <3>4 DEF Goes
  <2>10. CASE SubmitBuildFails(p)
    <3>1. procs'[p] = [procs[p] EXCEPT !.pc = "record", !.run = "error"]
      BY <1>1, <2>10 DEF SubmitBuildFails
    <3>2. procs'[p].pc = "record" /\ procs'[p].key = procs[p].key /\ procs'[p].run = "error"
      BY <2>2, <3>1 DEF Process
    <3>3. procs[p].pc = "trigger" /\ jobs' = jobs
      BY <2>10 DEF SubmitBuildFails
    <3> QED BY <3>2, <3>3 DEF Goes
  <2>11. CASE PollBuild(p)
    <3>1. \/ procs'[p] = Idle
          \/ /\ procs'[p] = [procs[p] EXCEPT !.pc = "finish", !.run = builds[procs[p].key]]
             /\ builds[procs[p].key] \in Terminal
      BY <1>1, <2>11 DEF PollBuild
    <3> QED BY <2>2, <2>11, <3>1 DEF PollBuild, Goes, Process
  <2> QED BY <1>4, <2>2, <2>3, <2>4, <2>5, <2>6, <2>7, <2>8, <2>9, <2>10, <2>11 DEF Step, Finish
<1> QED BY <1>2, <1>3, <1>4 DEF Next, BuildEnds, EditContent, ApproveContent, vars

LEMMA StoredStep == Shape /\ Stored /\ [Next]_vars => Stored'
<1> SUFFICES ASSUME Shape, Stored, [Next]_vars PROVE Stored'
  OBVIOUS
<1>1. snapshots \subseteq snapshots'
  BY DEF Next, HandleRequest, StartRequest, ResumeRequest, RefreshStatus, Reconcile, Step, ReadVersion,
     SaveSnapshot, CreateJob, RefuseJob, LookUpAgain, SubmitBuild, SubmitBuildFails, RecordBuild,
     RecordError, PollBuild, FinalizeJob, FailChangedJob, FailJob, AlreadyFinished, Abandon,
     BuildEnds, EditContent, ApproveContent, vars
<1>2. ASSUME NEW key \in Keys, jobs'[key].status # "none" PROVE jobs'[key].content \in snapshots'
  <2>1. CASE jobs[key].status # "none"
    BY <1>1, <2>1, JobStays DEF Stored
  <2>2. CASE jobs[key].status = "none"
    <3>1. jobs[key] = NoJob
      BY <2>2 DEF Shape, JobHasVersion
    <3>2. PICK p \in Processes : JobMoves(p, key)
      BY <1>2, <2>2, JobForward
    <3>3. CreateJob(p) /\ jobs'[key].content = procs[p].job.content
      BY <3>1, <3>2, NewJobs
    <3> QED BY <1>1, <3>3 DEF CreateJob, Stored
  <2> QED BY <2>1, <2>2
<1>3. ASSUME NEW p \in Processes, procs'[p].pc = "create" PROVE procs'[p].job.content \in snapshots'
  BY <1>1, <1>3, ProcessGoes DEF Goes, Stored, Idle
<1> QED BY <1>2, <1>3 DEF Stored

LEMMA BuildsFollowStep == Shape /\ BuildsFollow /\ [Next]_vars => BuildsFollow'
<1> SUFFICES ASSUME Shape, BuildsFollow, [Next]_vars PROVE BuildsFollow'
  OBVIOUS
<1>1. /\ builds \in [Keys -> {"none", "running"} \cup Terminal]
      /\ \A p \in Processes : procs[p].pc # "idle" => procs[p].key \in Keys
      /\ \A p \in Processes : procs'[p].pc # "idle" => procs'[p].key \in Keys
  BY ShapeStep DEF Shape, TypeOK, BusyHasKey
<1>2. \A key \in Keys : /\ builds[key] # "none" => builds'[key] # "none"
                        /\ builds[key] \in Terminal => builds'[key] = builds[key]
  BY <1>1, BuildForward DEF Terminal
<1>3. ASSUME NEW key \in Keys
      PROVE  /\ jobs'[key].status \in {"building", "succeeded", "failed"} => builds'[key] # "none"
             /\ jobs'[key].status \in Terminal => builds'[key] \in Terminal
  <2>1. CASE jobs'[key] = jobs[key]
    BY <1>2, <2>1 DEF BuildsFollow
  <2>2. ASSUME NEW p \in Processes, JobMoves(p, key), CreateJob(p), jobs[key] = NoJob
        PROVE  jobs'[key].status = "pending"
    BY <2>2, NewJobs
  <2>3. ASSUME NEW p \in Processes, RecordBuild(p), procs[p].key = key PROVE builds[key] # "none"
    BY <2>3 DEF RecordBuild, BuildsFollow
  <2>4. ASSUME NEW p \in Processes, Finish(p), procs[p].key = key PROVE builds[key] \in Terminal
    BY <2>4 DEF Finish, FinalizeJob, FailChangedJob, FailJob, BuildsFollow
  <2>5. ASSUME NEW p \in Processes, JobMoves(p, key) PROVE <1>3!2
    BY <1>2, <2>2, <2>3, <2>4, <2>5 DEF JobMoves, Terminal
  <2> QED BY <2>1, <2>5, JobForward
<1>4. ASSUME NEW p \in Processes
      PROVE  /\ procs'[p].pc \in {"trigger", "record", "poll", "finish"} => jobs'[procs'[p].key].status # "none"
             /\ procs'[p].pc = "record" /\ procs'[p].run = "accepted" => builds'[procs'[p].key] # "none"
             /\ procs'[p].pc = "finish" => procs'[p].run \in Terminal /\ builds'[procs'[p].key] = procs'[p].run
  <2>1. CASE procs'[p] = procs[p]
    <3>1. procs[p].pc # "idle" => procs[p].key \in Keys
      BY <1>1
    <3> QED BY <1>2, <2>1, <3>1, JobStays DEF BuildsFollow
  <2>2. CASE Goes(p)
    BY <2>2 DEF Goes, BuildsFollow, Idle
  <2> QED BY <2>1, <2>2, ProcessGoes
<1> QED BY <1>3, <1>4 DEF BuildsFollow

\* A build that starts is that of an unfinished job, and it keeps it active.
LEMMA BuildsServe ==
  Shape /\ Stored /\ BuildsFollow /\ BuildsServeTheActiveJob /\ [Next]_vars => BuildsServeTheActiveJob'
<1> SUFFICES ASSUME Shape, Stored, BuildsFollow, BuildsServeTheActiveJob, [Next]_vars,
                    NEW key \in Keys, builds'[key] = "running"
             PROVE  Active(jobs'[key]) /\ jobs'[key].content \in snapshots'
  BY DEF BuildsServeTheActiveJob, Active
<1>1. Stored' /\ BuildsFollow' /\ jobs' \in [Keys -> Job]
  BY StoredStep, BuildsFollowStep, ShapeStep DEF Shape, TypeOK
<1>2. jobs'[key].status \notin Terminal
  BY <1>1 DEF BuildsFollow, Terminal
<1>3. jobs'[key].status # "none"
  <2>1. CASE builds[key] = "running"
    BY <2>1, JobStays DEF BuildsServeTheActiveJob, Active
  <2>2. CASE builds[key] # "running"
    <3>1. jobs' = jobs /\ \E p \in Processes : procs[p].pc = "trigger" /\ procs[p].key = key
      BY <2>2, BuildForward DEF Terminal
    <3> QED BY <3>1 DEF BuildsFollow
  <2> QED BY <2>1, <2>2
<1>4. Active(jobs'[key])
  BY <1>1, <1>2, <1>3 DEF Active, Job, Terminal
<1> QED BY <1>1, <1>3, <1>4 DEF Stored

\* A job that succeeded has a build that did.
SuccessIsBuilt == \A key \in Keys : jobs[key].status = "succeeded" => builds[key] = "succeeded"

LEMMA SuccessIsBuiltStep == Shape /\ BuildsFollow /\ SuccessIsBuilt /\ [Next]_vars => SuccessIsBuilt'
<1> SUFFICES ASSUME Shape, BuildsFollow, SuccessIsBuilt, [Next]_vars,
                    NEW key \in Keys, jobs'[key].status = "succeeded"
             PROVE  builds'[key] = "succeeded"
  BY DEF SuccessIsBuilt
<1>1. CASE jobs'[key] = jobs[key]
  BY <1>1, BuildForward DEF SuccessIsBuilt, Terminal
<1>2. ASSUME NEW p \in Processes, JobMoves(p, key) PROVE builds'[key] = "succeeded"
  <2>1. procs[p].key = key /\ jobs \in [Keys -> Job] /\ procs[p].job \in Job
    BY <1>2 DEF JobMoves, Shape, TypeOK, Process
  <2>2. CASE CreateJob(p) /\ jobs'[key] = NewJob(procs[p].job)
    BY <2>1, <2>2, NewJobType
  <2>3. CASE RecordBuild(p) /\ jobs'[key].status = "building"
    BY <2>3
  <2>4. CASE Finish(p) /\ builds' = builds
    <3>1. procs[p].pc = "finish" /\ procs[p].run = "succeeded"
      BY <2>1, <2>4 DEF Finish, FinalizeJob, FailChangedJob, FailJob, Job
    <3> QED BY <2>1, <2>4, <3>1 DEF BuildsFollow
  <2> QED BY <1>2, <2>2, <2>3, <2>4 DEF JobMoves
<1> QED BY <1>1, <1>2, JobForward

----------------------------------------------------------------------------
\* What the steps do to one version.

\* mutate advances the revision of the version, and changes no other.
LEMMA MutateEffects ==
  ASSUME Shape, NEW id \in VersionIds, NEW expected, NEW changed \in Version, Mutate(id, expected, changed)
  PROVE  /\ versions[id] # Absent
         /\ versions'[id].status = changed.status /\ versions'[id].content = changed.content
         /\ versions'[id].approved = changed.approved /\ versions'[id].revision = changed.revision + 1
<1>1. versions \in [VersionIds -> Version]
  BY DEF Shape, TypeOK, VersionsTypeOK
<1>2. versions'[id] = [changed EXCEPT !.revision = changed.revision + 1] /\ versions[id] # Absent
  BY <1>1 DEF Mutate
<1> QED BY <1>2 DEF Version

\* What an editor or a reviewer may turn a version into.
Edited(id) ==
  LET old == versions[id]
      new == versions'[id]
  IN
  \/ old.status = "absent" /\ new.status = "draft" /\ ~new.approved
     /\ (new.content \in Contents \/ \E source \in VersionIds : versions[source] # Absent
                                                       /\ new.content = versions[source].content)
  \/ /\ old.status = "draft" /\ new.status = "draft" /\ new.approved = old.approved
     /\ new.revision = old.revision + 1 /\ new.content \in Contents
  \/ /\ old.status \in {"draft", "in_review", "publishing"}
     /\ new.revision = old.revision + 1 /\ new.content = old.content
     /\ new.status \in {"draft", "in_review"} /\ ~new.approved
  \/ /\ old.status = "in_review" /\ new.status = "in_review" /\ new.approved
     /\ new.revision = old.revision + 1 /\ new.content = old.content
     /\ approvals' = approvals \cup {<<id, old.content>>}

LEMMA EditsOne ==
  ASSUME Shape, NEW id \in VersionIds, EditContent(id) \/ ApproveContent(id)
  PROVE  Edited(id) /\ approvals \subseteq approvals'
<1>1. versions \in [VersionIds -> Version] /\ versions[id] \in Version
  BY DEF Shape, TypeOK, VersionsTypeOK
<1>2. ASSUME NEW c, versions[id] = Absent, versions' = [versions EXCEPT ![id] = NewDraft(c)]
      PROVE  versions[id].status = "absent" /\ versions'[id].status = "draft" /\ ~versions'[id].approved
             /\ versions'[id].content = c
  BY <1>1, <1>2 DEF NewDraft, Absent
<1>3. ASSUME NEW c \in Contents, CreateNamedDraft(id, c) PROVE Edited(id)
  BY <1>2, <1>3 DEF CreateNamedDraft, Edited
<1>4. ASSUME NEW source \in VersionIds, CloneVersion(source, id) PROVE Edited(id)
  BY <1>2, <1>4 DEF CloneVersion, Edited
<1>5. ASSUME NEW expected, NEW c \in Contents, UpdateDraft(id, expected, c) PROVE Edited(id)
  <2> DEFINE changed == [versions[id] EXCEPT !.content = c]
  <2>1. changed \in Version /\ changed.status = versions[id].status /\ changed.content = c
        /\ changed.approved = versions[id].approved /\ changed.revision = versions[id].revision
    BY <1>1 DEF Version
  <2>2. versions[id].status = "draft" /\ Mutate(id, expected, changed)
    BY <1>5 DEF UpdateDraft
  <2> HIDE DEF changed
  <2> QED BY <2>1, <2>2, MutateEffects DEF Edited
<1>6. ASSUME NEW expected, NEW status \in {"draft", "in_review"},
             Mutate(id, expected, [versions[id] EXCEPT !.status = status, !.approved = FALSE]),
             CanTransition(versions[id].status, status, versions[id].approved)
      PROVE  Edited(id)
  <2> DEFINE changed == [versions[id] EXCEPT !.status = status, !.approved = FALSE]
  <2>1. changed \in Version /\ changed.status = status /\ changed.content = versions[id].content
        /\ ~changed.approved /\ changed.revision = versions[id].revision
    BY <1>1 DEF Version, Statuses
  <2>2. Mutate(id, expected, changed) /\ versions[id].status \in {"draft", "in_review", "publishing"}
    BY <1>6 DEF CanTransition
  <2> HIDE DEF changed
  <2> QED BY <2>1, <2>2, MutateEffects DEF Edited
<1>7. ASSUME NEW expected, ApproveReview(id, expected), approvals' = approvals \cup {<<id, versions[id].content>>}
      PROVE  Edited(id)
  <2> DEFINE changed == [versions[id] EXCEPT !.approved = TRUE]
  <2>1. changed \in Version /\ changed.status = versions[id].status /\ changed.content = versions[id].content
        /\ changed.approved /\ changed.revision = versions[id].revision
    BY <1>1 DEF Version
  <2>2. versions[id].status = "in_review" /\ Mutate(id, expected, changed)
    BY <1>7 DEF ApproveReview
  <2> HIDE DEF changed
  <2> QED BY <1>7, <2>1, <2>2, MutateEffects DEF Edited
<1>8. CASE EditContent(id)
  BY <1>3, <1>4, <1>5, <1>6, <1>8 DEF EditContent, SubmitReview, RejectReview
<1>9. CASE ApproveContent(id)
  BY <1>7, <1>9 DEF ApproveContent
<1>10. approvals \subseteq approvals'
  BY DEF EditContent, ApproveContent
<1> QED BY <1>8, <1>9, <1>10

\* What creating or finishing a job makes of a version.
Served(id) ==
  LET old == versions[id]
      new == versions'[id]
  IN
  \/ new = old
  \/ /\ new.content = old.content /\ new.approved = old.approved
     /\ \/ new.status = "publishing" /\ old.status = "in_review" /\ old.approved
        \/ old.status = "publishing" /\ new.status = "in_review"
        \/ old.status = "published" /\ new.status = "archived"
        \/ new.status = "published" /\ old.status \in {"publishing", "archived", "published"}
  \/ new.content = old.content /\ ~new.approved /\ new.status = "draft" /\ old.status = "publishing"

LEMMA ServedVersion ==
  ASSUME NEW version \in Version
  PROVE  /\ Admitted(version).status = "publishing" /\ Admitted(version).content = version.content
         /\ Admitted(version).approved = version.approved
         /\ Promoted(version).status = "published" /\ Promoted(version).content = version.content
         /\ Promoted(version).approved = version.approved
         /\ Archived(version).status = "archived" /\ Archived(version).content = version.content
         /\ Archived(version).approved = version.approved
BY DEF Version, Admitted, Promoted, Archived

LEMMA ReleasedVersion ==
  ASSUME NEW version \in Version, NEW b \in BOOLEAN
  PROVE  /\ Released(version, b).content = version.content
         /\ \/ Released(version, b) = version
            \/ /\ version.status = "publishing" /\ Released(version, b).status = "in_review"
               /\ Released(version, b).approved = version.approved
            \/ /\ version.status = "publishing" /\ Released(version, b).status = "draft"
               /\ ~Released(version, b).approved
BY DEF Version, Released

LEMMA WritesServed ==
  ASSUME Shape, PublishedIsPointer, NEW p \in Processes, CreateJob(p) \/ RecordBuild(p) \/ Finish(p),
         NEW id \in VersionIds
  PROVE  Served(id) /\ approvals' = approvals
<1>1. versions \in [VersionIds -> Version]
  BY DEF Shape, TypeOK, VersionsTypeOK
<1>2. approvals' = approvals
  BY DEF CreateJob, RecordBuild, Finish, FinalizeJob, FailChangedJob, FailJob
<1>3. CASE CreateJob(p)
  <2>1. PICK target \in VersionIds : target = procs[p].job.version
    BY <1>3, CreateClaims
  <2>2. \/ versions' = versions
        \/ versions' = [versions EXCEPT ![target] = Admitted(@)]
           /\ versions[target].status = "in_review" /\ versions[target].approved
    BY <1>3, <2>1 DEF CreateJob, CanAdmit, TargetUnchanged, CanTransition
  <2>3. \/ versions'[id] = versions[id]
        \/ versions'[id] = Admitted(versions[id]) /\ versions[id].status = "in_review"
           /\ versions[id].approved
    BY <1>1, <2>2
  <2> QED BY <1>1, <1>2, <2>3, ServedVersion DEF Served
<1>4. CASE RecordBuild(p)
  BY <1>4 DEF RecordBuild, Served
<1>5. CASE FinalizeJob(p)
  <2>1. PICK target \in VersionIds : target = jobs[procs[p].key].version
    BY <1>5, FinishFrees DEF Finish
  <2>2. versions[target].status \in {"publishing", "archived", "published"}
    BY <1>5, <2>1 DEF FinalizeJob, TargetMatchesJob
  <2>3. /\ id = target => versions'[id] = Promoted(versions[id])
        /\ id # target /\ id = pointer.version => versions'[id] = Archived(versions[id])
        /\ id # target /\ id # pointer.version => versions'[id] = versions[id]
    BY <1>5, <2>1 DEF FinalizeJob, Replaced
  <2>4. id = pointer.version => versions[id].status = "published"
    BY DEF PublishedIsPointer
  <2> QED BY <1>1, <1>2, <2>2, <2>3, <2>4, ServedVersion DEF Served
<1>6. CASE FailChangedJob(p) \/ FailJob(p)
  <2>1. PICK target \in VersionIds : target = jobs[procs[p].key].version
    BY <1>6, FinishFrees DEF Finish
  <2>2. PICK b \in BOOLEAN : versions' \in {versions, [versions EXCEPT ![target] = Released(@, b)]}
    BY <1>6, <2>1 DEF FailChangedJob, FailJob, TargetMatchesJob
  <2>3. versions'[id] = versions[id] \/ versions'[id] = Released(versions[id], b)
    BY <1>1, <2>2
  <2> QED BY <1>1, <1>2, <2>3, ReleasedVersion DEF Served
<1> QED BY <1>2, <1>3, <1>4, <1>5, <1>6 DEF Finish

LEMMA ReviewedStep == Shape /\ PublishedIsPointer /\ Reviewed /\ [Next]_vars => Reviewed'
<1> SUFFICES ASSUME Shape, PublishedIsPointer, Reviewed, [Next]_vars PROVE Reviewed'
  OBVIOUS
<1>1. versions \in [VersionIds -> Version]
  BY DEF Shape, TypeOK, VersionsTypeOK
<1>2. ASSUME approvals' = approvals, \A id \in VersionIds : Served(id) PROVE Reviewed'
  <2> SUFFICES ASSUME NEW id \in VersionIds
               PROVE  /\ versions'[id] = Absent \/ (versions'[id].status # "absent" /\ versions'[id].content \in Contents)
                      /\ versions'[id].approved => /\ versions'[id].status \notin {"absent", "draft"}
                                                   /\ <<id, versions'[id].content>> \in approvals'
                      /\ versions'[id].status \in {"publishing", "published", "archived"}
                           => versions'[id].approved
    BY DEF Reviewed
  <2>1. Served(id) /\ approvals' = approvals
    BY <1>2
  <2>2. versions[id] = Absent => ~versions[id].approved /\ versions[id].status = "absent"
    BY DEF Absent
  <2> QED BY <2>1, <2>2 DEF Reviewed, Served
<1>3. ASSUME NEW p \in Processes, CreateJob(p) \/ RecordBuild(p) \/ Finish(p) PROVE Reviewed'
  <2>1. approvals' = approvals
    BY <1>3 DEF CreateJob, RecordBuild, Finish, FinalizeJob, FailChangedJob, FailJob
  <2>2. \A id \in VersionIds : Served(id)
    BY <1>3, WritesServed
  <2> QED BY <1>2, <2>1, <2>2
<1>4. ASSUME NEW id \in VersionIds, EditContent(id) \/ ApproveContent(id) PROVE Reviewed'
  <2>1. /\ Edited(id) /\ approvals \subseteq approvals'
        /\ \A other \in VersionIds : other # id => versions'[other] = versions[other]
    BY <1>4, EditsOne, EditEffects
  <2>2. ASSUME NEW other \in VersionIds, other # id
        PROVE  /\ versions'[other] = versions[other]
               /\ <<other, versions[other].content>> \in approvals
                    => <<other, versions[other].content>> \in approvals'
    BY <2>1, <2>2
  <2>3. /\ versions'[id].status # "absent" /\ versions'[id].content \in Contents
        /\ versions'[id].approved => /\ versions'[id].status \notin {"absent", "draft"}
                                     /\ <<id, versions'[id].content>> \in approvals'
        /\ versions'[id].status \notin {"publishing", "published", "archived"}
    <3>1. \A source \in VersionIds : versions[source] # Absent => versions[source].content \in Contents
      BY DEF Reviewed
    <3>2. versions[id].status # "absent" => versions[id].content \in Contents
      BY <3>1 DEF Absent
    <3>3. versions[id].status = "draft" => ~versions[id].approved
      BY DEF Reviewed
    <3> QED BY <2>1, <3>1, <3>2, <3>3 DEF Edited
  <2> QED BY <2>2, <2>3 DEF Reviewed
<1>5. CASE UNCHANGED <<versions, jobs, pointer>>
  <2>1. approvals \subseteq approvals'
    BY DEF Next, HandleRequest, StartRequest, ResumeRequest, RefreshStatus, Reconcile, Step, ReadVersion,
       SaveSnapshot, CreateJob, RefuseJob, LookUpAgain, SubmitBuild, SubmitBuildFails, RecordBuild,
       RecordError, PollBuild, FinalizeJob, FailChangedJob, FailJob, AlreadyFinished, Abandon,
       BuildEnds, EditContent, ApproveContent, vars
  <2> QED BY <1>5, <2>1 DEF Reviewed
<1> QED BY <1>3, <1>4, <1>5, WritingSteps

----------------------------------------------------------------------------
\* While a job is active, its target is as frozen or back with the editors.

LEMMA FrozenOrWithdrawnStep ==
  Shape /\ OneActiveJob /\ TargetFrozenOrWithdrawn /\ [Next]_vars => TargetFrozenOrWithdrawn'
<1> SUFFICES ASSUME Shape, OneActiveJob, TargetFrozenOrWithdrawn, [Next]_vars
             PROVE  TargetFrozenOrWithdrawn'
  OBVIOUS
<1> DEFINE Attended(key) ==
      \/ TargetMatchesJob(jobs[key])
      \/ /\ jobs[key].op = "publish"
         /\ versions[jobs[key].version].revision > jobs[key].revision
         /\ versions[jobs[key].version].status \in {"draft", "in_review"}
<1>1. versions \in [VersionIds -> Version] /\ jobs \in [Keys -> Job]
  BY DEF Shape, TypeOK, VersionsTypeOK
<1>2. CASE UNCHANGED <<versions, jobs, pointer>>
  BY <1>2 DEF TargetFrozenOrWithdrawn, TargetMatchesJob, ActiveKeys, Active
<1>3. ASSUME NEW p \in Processes, CreateJob(p) PROVE TargetFrozenOrWithdrawn'
  <2>1. PICK key \in Keys : key = procs[p].key
    BY <1>3, CreateClaims
  <2> DEFINE request == procs[p].job
             target == versions[request.version]
             job == NewJob(request)
  <2>2. /\ request \in Job /\ request.version \in VersionIds /\ ActiveKeys' = {key} /\ jobs'[key] = job
        /\ target \in Version
    BY <1>1, <1>3, <2>1, CreateClaims
  <2>3. /\ job.op = request.op /\ job.version = request.version /\ job.content = request.content
        /\ job.revision = IF request.op = "publish" THEN request.revision + 1 ELSE request.revision
    BY <2>2, NewJobType
  <2>4. target.revision = request.revision /\ target.content = request.content
    BY <1>3 DEF CreateJob, CanAdmit, TargetUnchanged
  <2>5. request.op \in {"publish", "rollback"}
    BY <2>2 DEF Job
  <2>6. CASE request.op = "publish"
    <3>1. target.approved /\ versions'[request.version] = Admitted(target)
      BY <1>1, <1>3, <2>2, <2>6 DEF CreateJob, CanAdmit, TargetUnchanged, CanTransition
    <3>2. /\ versions'[request.version].status = "publishing" /\ versions'[request.version].approved
          /\ versions'[request.version].content = target.content
          /\ versions'[request.version].revision = target.revision + 1
      <4> HIDE DEF target
      <4>1. target \in Version
        BY <2>2
      <4>2. /\ Admitted(target).status = "publishing" /\ Admitted(target).approved = target.approved
            /\ Admitted(target).content = target.content /\ Admitted(target).revision = target.revision + 1
        BY <4>1 DEF Admitted, Version
      <4> QED BY <3>1, <4>2
    <3> HIDE DEF job, target, request
    <3> QED BY <2>2, <2>3, <2>4, <2>6, <3>2 DEF TargetFrozenOrWithdrawn, TargetMatchesJob
  <2>7. CASE request.op = "rollback"
    <3>1. target.status \in {"archived", "published"} /\ versions' = versions
      BY <1>3, <2>7 DEF CreateJob, CanAdmit, TargetUnchanged
    <3>2. versions'[request.version] = target
      BY <3>1
    <3> HIDE DEF job, target, request
    <3> QED BY <2>2, <2>3, <2>4, <2>7, <3>1, <3>2 DEF TargetFrozenOrWithdrawn, TargetMatchesJob
  <2> QED BY <2>5, <2>6, <2>7
<1>4. ASSUME NEW p \in Processes, RecordBuild(p) PROVE TargetFrozenOrWithdrawn'
  <2>1. versions' = versions /\ ActiveKeys' = ActiveKeys
    BY <1>4, RecordKeepsClaim DEF RecordBuild
  <2>2. ASSUME NEW key \in ActiveKeys
        PROVE  /\ jobs'[key].version = jobs[key].version /\ jobs'[key].content = jobs[key].content
               /\ jobs'[key].op = jobs[key].op /\ jobs'[key].revision = jobs[key].revision
    BY <2>2, JobStays DEF ActiveKeys, Active
  <2> QED BY <2>1, <2>2 DEF TargetFrozenOrWithdrawn, TargetMatchesJob
<1>5. ASSUME NEW p \in Processes, Finish(p) PROVE TargetFrozenOrWithdrawn'
  <2>1. ActiveKeys' = {}
    BY <1>5, FinishFrees DEF OneActiveJob
  <2> QED BY <2>1 DEF TargetFrozenOrWithdrawn
<1>6. ASSUME NEW id \in VersionIds, EditContent(id) \/ ApproveContent(id) PROVE TargetFrozenOrWithdrawn'
  <2>1. /\ jobs' = jobs /\ \A other \in VersionIds : other # id => versions'[other] = versions[other]
        /\ versions'[id].status \in {"draft", "in_review"}
        /\ versions[id].status \notin {"published", "archived"}
    BY <1>6, EditEffects
  <2>2. versions[id].status = "absent" \/ versions'[id].revision = versions[id].revision + 1
    BY <1>6, EditsOne DEF Edited
  <2> SUFFICES ASSUME NEW key \in Keys, Active(jobs[key]) PROVE Attended(key)'
    BY <2>1 DEF TargetFrozenOrWithdrawn, ActiveKeys, Active
  <2>3. jobs[key].version \in VersionIds /\ Attended(key)
    BY DEF Shape, JobHasVersion, TargetFrozenOrWithdrawn, ActiveKeys, Active
  <2>4. CASE jobs[key].version # id
    BY <2>1, <2>3, <2>4 DEF TargetMatchesJob
  <2>5. CASE jobs[key].version = id
    <3>1. /\ jobs[key].op = "publish" /\ versions[id].revision \in Nat /\ jobs[key].revision \in Nat
          /\ versions[id].revision >= jobs[key].revision /\ versions[id].status # "absent"
      BY <1>1, <2>1, <2>3, <2>5 DEF TargetMatchesJob, Version, Job
    <3>2. versions'[id].revision > jobs[key].revision
      BY <2>2, <3>1
    <3> QED BY <2>1, <2>5, <3>1, <3>2
  <2> QED BY <2>4, <2>5
<1> QED BY <1>2, <1>3, <1>4, <1>5, <1>6, WritingSteps

----------------------------------------------------------------------------
\* What the site has served, and what it serves.

\* A version that is published or archived was so before, of the same content,
\* or is the target of a job that just succeeded.
LEMMA BecomesLive ==
  ASSUME Shape, PublishedIsPointer, [Next]_vars,
         NEW id \in VersionIds, versions'[id].status \in {"published", "archived"}
  PROVE  \/ versions[id].status \in {"published", "archived"} /\ versions'[id].content = versions[id].content
         \/ \E p \in Processes :
              /\ FinalizeJob(p) /\ procs[p].key \in Keys
              /\ jobs[procs[p].key].version = id
              /\ jobs'[procs[p].key].status = "succeeded" /\ jobs'[procs[p].key].version = id
              /\ jobs'[procs[p].key].content = versions'[id].content
<1>1. versions \in [VersionIds -> Version] /\ jobs \in [Keys -> Job]
  BY DEF Shape, TypeOK, VersionsTypeOK
<1>3. ASSUME NEW other \in VersionIds, EditContent(other) \/ ApproveContent(other)
      PROVE  versions'[id] = versions[id]
  BY <1>3, EditEffects
<1>4. ASSUME NEW p \in Processes, CreateJob(p) \/ RecordBuild(p) \/ Finish(p)
      PROVE  /\ versions'[id].content = versions[id].content
             /\ \/ versions[id].status \in {"published", "archived"}
                \/ versions[id].status = "publishing" /\ versions'[id].status = "published"
  BY <1>4, WritesServed DEF Served
<1>5. ASSUME NEW p \in Processes, CreateJob(p) \/ RecordBuild(p) \/ Finish(p),
             versions[id].status = "publishing"
      PROVE  /\ FinalizeJob(p) /\ procs[p].key \in Keys
             /\ jobs[procs[p].key].version = id
             /\ jobs'[procs[p].key].status = "succeeded" /\ jobs'[procs[p].key].version = id
             /\ jobs'[procs[p].key].content = versions'[id].content
  <2>1. FinalizeJob(p) /\ jobs[procs[p].key].version = id
    <3>1. versions'[id].status = "published" /\ versions'[id] # versions[id]
      BY <1>4, <1>5
    <3>2. CASE CreateJob(p)
      <4>1. versions' = versions \/ versions' = [versions EXCEPT ![procs[p].job.version] = Admitted(@)]
        BY <3>2 DEF CreateJob
      <4>2. Admitted(versions[id]).status # "published"
        BY <1>1, ServedVersion
      <4> QED BY <1>1, <3>1, <4>1, <4>2
    <3>3. CASE RecordBuild(p)
      BY <3>1, <3>3 DEF RecordBuild
    <3>4. CASE FailChangedJob(p) \/ FailJob(p)
      <4>1. PICK b \in BOOLEAN :
              versions' \in {versions, [versions EXCEPT ![jobs[procs[p].key].version] = Released(@, b)]}
        BY <3>4 DEF FailChangedJob, FailJob, TargetMatchesJob
      <4>2. Released(versions[id], b).status # "published"
        BY <1>1, <1>5, ReleasedVersion
      <4> QED BY <1>1, <3>1, <4>1, <4>2
    <3>5. CASE FinalizeJob(p)
      <4>1. versions' = Replaced(jobs[procs[p].key].version)
        BY <3>5 DEF FinalizeJob
      <4>2. Archived(versions[id]).status # "published"
        BY <1>1, ServedVersion
      <4> QED BY <3>1, <3>5, <4>1, <4>2 DEF Replaced
    <3> QED BY <1>5, <3>2, <3>3, <3>4, <3>5 DEF Finish
  <2>2. PICK key \in Keys : key = procs[p].key
    BY <2>1 DEF Shape, BusyHasKey, FinalizeJob
  <2>3. /\ jobs'[key].status = "succeeded" /\ jobs'[key].version = jobs[key].version
        /\ jobs'[key].content = jobs[key].content
    BY <1>1, <2>1, <2>2 DEF FinalizeJob, Job
  <2>4. versions[id].content = jobs[key].content
    BY <2>1, <2>2 DEF FinalizeJob, TargetMatchesJob
  <2>5. versions'[id].content = versions[id].content
    BY <1>4, <1>5
  <2> QED BY <2>1, <2>2, <2>3, <2>4, <2>5
<1>6. CASE versions'[id] = versions[id]
  BY <1>6
<1> QED BY <1>3, <1>4, <1>5, <1>6, WritingSteps

LEMMA HistoryStep == Shape /\ PublishedIsPointer /\ HistoryIsPublished /\ [Next]_vars => HistoryIsPublished'
<1> SUFFICES ASSUME Shape, PublishedIsPointer, HistoryIsPublished, [Next]_vars,
                    NEW id \in VersionIds, versions'[id].status \in {"published", "archived"}
             PROVE  \E key \in Keys : /\ jobs'[key].status = "succeeded" /\ jobs'[key].version = id
                                      /\ jobs'[key].content = versions'[id].content
  BY DEF HistoryIsPublished
<1>1. CASE versions[id].status \in {"published", "archived"} /\ versions'[id].content = versions[id].content
  <2>1. PICK key \in Keys : /\ jobs[key].status = "succeeded" /\ jobs[key].version = id
                            /\ jobs[key].content = versions[id].content
    BY <1>1 DEF HistoryIsPublished
  <2>2. jobs'[key] = jobs[key]
    BY <2>1, JobStays DEF Terminal
  <2> QED BY <1>1, <2>1, <2>2
<1> QED BY <1>1, BecomesLive

\* What the pointer names is a version whose content was reviewed and stored.
PointerServes ==
  pointer # NoPointer =>
    /\ pointer.version \in VersionIds
    /\ <<pointer.version, pointer.content>> \in approvals
    /\ versions[pointer.version].content = pointer.content
    /\ pointer.content \in snapshots

LEMMA PointerServesStep ==
  Shape /\ PublishedIsPointer /\ Reviewed /\ Stored /\ PointerServes /\ [Next]_vars => PointerServes'
<1> SUFFICES ASSUME Shape, PublishedIsPointer, Reviewed, Stored, PointerServes, [Next]_vars
             PROVE  PointerServes'
  OBVIOUS
<1>1. snapshots \subseteq snapshots' /\ approvals \subseteq approvals'
  BY DEF Next, HandleRequest, StartRequest, ResumeRequest, RefreshStatus, Reconcile, Step, ReadVersion,
     SaveSnapshot, CreateJob, RefuseJob, LookUpAgain, SubmitBuild, SubmitBuildFails, RecordBuild,
     RecordError, PollBuild, FinalizeJob, FailChangedJob, FailJob, AlreadyFinished, Abandon,
     BuildEnds, EditContent, ApproveContent, vars
<1>2. ASSUME pointer' = pointer,
             \A id \in VersionIds : versions[id].status = "published"
                                      => versions'[id].content = versions[id].content
      PROVE  PointerServes'
  BY <1>1, <1>2 DEF PointerServes, PublishedIsPointer
<1>3. ASSUME NEW p \in Processes, FinalizeJob(p) PROVE PointerServes'
  <2>1. PICK key \in Keys : key = procs[p].key
    BY <1>3 DEF Shape, BusyHasKey, FinalizeJob
  <2>2. PICK id \in VersionIds : id = jobs[key].version
    BY <1>3, <2>1, FinishFrees DEF Finish
  <2>3. /\ pointer' = [version |-> id, content |-> jobs[key].content]
        /\ versions[id].content = jobs[key].content /\ jobs[key].status = "building"
        /\ versions[id].approved \/ versions[id].status \in {"archived", "published"}
    BY <1>3, <2>1, <2>2 DEF FinalizeJob, TargetMatchesJob
  <2>4. <<id, versions[id].content>> \in approvals /\ jobs[key].content \in snapshots
    BY <2>3 DEF Reviewed, Stored
  <2>5. versions'[id].content = versions[id].content
    BY <1>3, WritesServed DEF Finish, Served
  <2>6. pointer'.version = id /\ pointer'.content = versions[id].content
    BY <2>3
  <2> QED BY <1>1, <2>3, <2>4, <2>5, <2>6 DEF PointerServes
<1>4. ASSUME NEW p \in Processes, CreateJob(p) \/ RecordBuild(p) \/ FailChangedJob(p) \/ FailJob(p)
      PROVE  PointerServes'
  <2>1. pointer' = pointer
    BY <1>4 DEF CreateJob, RecordBuild, FailChangedJob, FailJob
  <2>2. \A id \in VersionIds : versions'[id].content = versions[id].content
    BY <1>4, WritesServed DEF Served, Finish
  <2> QED BY <1>2, <2>1, <2>2
<1>5. ASSUME NEW id \in VersionIds, EditContent(id) \/ ApproveContent(id) PROVE PointerServes'
  BY <1>2, <1>5, EditEffects
<1>6. CASE UNCHANGED <<versions, jobs, pointer>>
  BY <1>2, <1>6
<1> QED BY <1>3, <1>4, <1>5, <1>6, WritingSteps DEF Finish

----------------------------------------------------------------------------
\* How a job ends.

JobEnds(key) ==
  \/ jobs'[key].status = builds[key]
  \/ /\ jobs'[key].status = "failed" /\ builds[key] = "succeeded"
     /\ jobs[key].op = "publish"
     /\ versions[jobs[key].version].status \in {"draft", "in_review"}

\* Only a finishing step ends an active job, and that step polled its build.
LEMMA EndsPolledBuild ==
  ASSUME Shape, BuildsFollow, [Next]_vars, NEW key \in ActiveKeys, jobs'[key].status \in Terminal
  PROVE  \E p \in Processes : Finish(p) /\ procs[p].key = key /\ builds[key] = procs[p].run
<1>1. key \in Keys /\ jobs[key].status \in {"pending", "building"} /\ jobs[key] # NoJob
  BY DEF ActiveKeys, Active, NoJob
<1>2. PICK p \in Processes : JobMoves(p, key)
  BY <1>1, JobForward DEF Terminal
<1>3. Finish(p) /\ procs[p].key = key
  BY <1>1, <1>2 DEF JobMoves, Terminal
<1>4. procs[p].pc = "finish"
  BY <1>3 DEF Finish, FinalizeJob, FailChangedJob, FailJob
<1> QED BY <1>3, <1>4 DEF BuildsFollow

LEMMA JobsEndStep ==
  ASSUME Shape, BuildsFollow, TargetFrozenOrWithdrawn, [Next]_vars,
         NEW key \in ActiveKeys, jobs'[key].status \in Terminal
  PROVE  JobEnds(key)
<1>1. PICK p \in Processes : Finish(p) /\ procs[p].key = key /\ builds[key] = procs[p].run
  BY EndsPolledBuild
<1>2. key \in Keys /\ jobs \in [Keys -> Job] /\ jobs[key] \in Job
  BY DEF ActiveKeys, Shape, TypeOK
<1>3. CASE FinalizeJob(p)
  <2>1. jobs' = [jobs EXCEPT ![key].status = "succeeded"] /\ procs[p].run = "succeeded"
    BY <1>1, <1>3 DEF FinalizeJob
  <2> QED BY <1>1, <1>2, <2>1 DEF JobEnds, Job
<1>4. CASE FailJob(p)
  <2>1. jobs' = [jobs EXCEPT ![key].status = "failed"] /\ procs[p].run = "failed"
    BY <1>1, <1>4 DEF FailJob
  <2> QED BY <1>1, <1>2, <2>1 DEF JobEnds, Job
<1>5. CASE FailChangedJob(p)
  <2>1. /\ jobs' = [jobs EXCEPT ![key].status = "failed"] /\ procs[p].run = "succeeded"
        /\ ~TargetMatchesJob(jobs[key])
    BY <1>1, <1>5 DEF FailChangedJob
  <2>2. /\ jobs[key].op = "publish"
        /\ versions[jobs[key].version].status \in {"draft", "in_review"}
    BY <2>1 DEF TargetFrozenOrWithdrawn
  <2> QED BY <1>1, <1>2, <2>1, <2>2 DEF JobEnds, Job
<1> QED BY <1>1, <1>3, <1>4, <1>5 DEF Finish

----------------------------------------------------------------------------
\* Publishing is one slot.

Used == {key \in Keys : jobs[key] # NoJob}
Built == {key \in Keys : builds[key] = "succeeded"}

\* The slot is held by the one active job, if there is one.
LEMMA HeldByOne ==
  /\ ActiveKeys = {} => HeldBy = None
  /\ \A key \in Keys : ActiveKeys = {key} => HeldBy = key
BY DEF HeldBy

\* Steps that leave claims, jobs' frozen fields and the pointer alone.
LEMMA SlotStutters ==
  ASSUME Shape, OneActiveJob, [Next]_vars, ActiveKeys' = ActiveKeys, pointer' = pointer
  PROVE  [Slot!Next]_<<HeldBy, OfferOf(HeldBy), Used, Built, pointer>>
<1>1. builds \in [Keys -> {"none", "running"} \cup Terminal] /\ jobs \in [Keys -> Job]
      /\ None \notin Keys /\ jobs' \in [Keys -> Job]
  BY ShapeStep, PublishingAssumption DEF Shape, TypeOK
<1>2. HeldBy' = HeldBy /\ HeldBy \in Keys \cup {None} /\ (HeldBy # None => HeldBy \in ActiveKeys)
  <2>1. HeldBy' = HeldBy
    BY DEF HeldBy
  <2>2. CASE ActiveKeys = {}
    BY <2>1, <2>2, HeldByOne
  <2>3. CASE ActiveKeys # {}
    <3>1. PICK key \in ActiveKeys : ActiveKeys = {key}
      BY <2>3 DEF OneActiveJob
    <3>2. key \in Keys /\ HeldBy = key
      BY <3>1, HeldByOne DEF ActiveKeys
    <3> QED BY <2>1, <3>1, <3>2
  <2> QED BY <2>2, <2>3
<1>3. OfferOf(HeldBy)' = OfferOf(HeldBy)
  <2>1. CASE HeldBy = None
    BY <1>2, <2>1 DEF OfferOf
  <2>2. CASE HeldBy # None
    <3>1. PICK key \in Keys : key = HeldBy /\ jobs[key].status # "none"
      BY <1>2, <2>2 DEF ActiveKeys, Active
    <3>2. jobs'[key].version = jobs[key].version /\ jobs'[key].content = jobs[key].content
      BY <3>1, JobStays
    <3> QED BY <1>2, <2>2, <3>1, <3>2 DEF OfferOf
  <2> QED BY <2>1, <2>2
<1>4. Used' = Used
  <2>1. ASSUME NEW key \in Keys PROVE jobs'[key] = NoJob <=> jobs[key] = NoJob
    <3>1. CASE jobs[key].status # "none"
      BY <3>1, JobStays DEF NoJob
    <3>2. CASE jobs[key].status = "none"
      <4>1. jobs[key] = NoJob /\ ~Active(jobs[key])
        BY <3>2 DEF Shape, JobHasVersion, Active
      <4>2. ~Active(jobs'[key])
        BY <4>1 DEF ActiveKeys, Active
      <4> QED BY <4>1, <4>2, NewJobs, JobForward DEF Active
    <3> QED BY <3>1, <3>2
  <2> QED BY <2>1 DEF Used
<1>5. Built \subseteq Built'
  BY <1>1, BuildForward DEF Built, Terminal
<1>6. CASE Built' = Built
  BY <1>2, <1>3, <1>4, <1>6
<1>7. CASE Built' # Built
  BY <1>2, <1>3, <1>4, <1>5, <1>7 DEF Slot!Next, Slot!Build, Used, Built
<1> QED BY <1>6, <1>7

LEMMA SlotStep ==
  Shape /\ OneActiveJob /\ Reviewed /\ BuildsFollow /\ [Next]_vars
    => [Slot!Next]_<<HeldBy, OfferOf(HeldBy), Used, Built, pointer>>
<1> SUFFICES ASSUME Shape, OneActiveJob, Reviewed, BuildsFollow, [Next]_vars
             PROVE  [Slot!Next]_<<HeldBy, OfferOf(HeldBy), Used, Built, pointer>>
  OBVIOUS
<1>1. jobs \in [Keys -> Job] /\ None \notin Keys
  BY PublishingAssumption DEF Shape, TypeOK
<1>2. ASSUME NEW p \in Processes, CreateJob(p) PROVE Slot!Next
  <2>1. PICK key \in Keys : key = procs[p].key
    BY <1>2, CreateClaims
  <2> DEFINE request == procs[p].job
  <2>2. /\ ActiveKeys = {} /\ ActiveKeys' = {key} /\ request \in Job /\ request.version \in VersionIds
        /\ jobs' = [jobs EXCEPT ![key] = NewJob(request)] /\ jobs[key] = NoJob
        /\ UNCHANGED <<builds, pointer>>
    BY <1>2, <2>1, CreateClaims DEF CreateJob, CanAdmit
  <2>3. HeldBy = None /\ HeldBy' = key
    BY <2>2, HeldByOne DEF HeldBy
  <2>4. /\ jobs'[key] = NewJob(request) /\ NewJob(request) # NoJob
        /\ jobs'[key].version = request.version /\ jobs'[key].content = request.content
    BY <1>1, <2>2, NewJobType DEF NoJob
  <2>5. request.content \in Contents
    <3>1. /\ versions[request.version].content = request.content
          /\ versions[request.version].status # "absent"
      BY <1>2, <2>2 DEF CreateJob, CanAdmit, TargetUnchanged, CanTransition, Job
    <3>2. PICK id \in VersionIds : id = request.version
      BY <2>2
    <3>3. versions[id] # Absent
      BY <3>1, <3>2 DEF Absent
    <3> QED BY <3>1, <3>2, <3>3 DEF Reviewed
  <2>6. OfferOf(HeldBy)' = [version |-> request.version, content |-> request.content]
    BY <1>1, <2>3, <2>4 DEF OfferOf
  <2>7. Used' = Used \cup {key} /\ key \notin Used
    BY <1>1, <2>2, <2>4 DEF Used
  <2>8. Built' = Built
    BY <2>2 DEF Built
  <2>9. Slot!Claim(key)
    BY <2>2, <2>3, <2>5, <2>6, <2>7, <2>8 DEF Slot!Claim, Used, Built
  <2> QED BY <2>9 DEF Slot!Next
<1>3. ASSUME NEW p \in Processes, Finish(p) PROVE Slot!Next
  <2>1. PICK key \in Keys : key = procs[p].key
    BY <1>3 DEF Shape, BusyHasKey, Finish, FinalizeJob, FailChangedJob, FailJob
  <2>2. ActiveKeys = {key} /\ ActiveKeys' = {} /\ builds' = builds
    BY <1>3, <2>1, FinishFrees DEF OneActiveJob, Finish, FinalizeJob, FailChangedJob, FailJob, ActiveKeys
  <2>3. HeldBy = key /\ HeldBy' = None /\ OfferOf(HeldBy)' = NoPointer
    BY <2>2, HeldByOne DEF HeldBy, OfferOf
  <2>4. Used' = Used /\ Built' = Built
    <3>1. ASSUME NEW k \in Keys PROVE jobs'[k] = NoJob <=> jobs[k] = NoJob
      <4>1. CASE k # key
        BY <1>3, <2>1, <4>1, FinishFrees
      <4>2. CASE k = key
        BY <1>3, <2>1, <4>2, FinishFrees, JobStays DEF NoJob
      <4> QED BY <4>1, <4>2
    <3> QED BY <2>2, <3>1 DEF Used, Built
  <2>5. CASE FinalizeJob(p)
    <3>1. key \in Built
      BY <2>1, <2>5 DEF FinalizeJob, BuildsFollow, Built
    <3>2. pointer' = OfferOf(HeldBy)
      BY <1>1, <2>1, <2>3, <2>5 DEF FinalizeJob, OfferOf
    <3>3. Slot!Succeed
      BY <2>3, <2>4, <3>1, <3>2 DEF Slot!Succeed, Used, Built
    <3> QED BY <3>3 DEF Slot!Next
  <2>6. CASE FailChangedJob(p) \/ FailJob(p)
    <3>1. pointer' = pointer
      BY <2>6 DEF FailChangedJob, FailJob
    <3>2. Slot!Fail
      BY <1>1, <2>3, <2>4, <3>1 DEF Slot!Fail, Used, Built
    <3> QED BY <3>2 DEF Slot!Next
  <2> QED BY <1>3, <2>5, <2>6 DEF Finish
<1>4. ASSUME NEW p \in Processes, RecordBuild(p)
      PROVE  [Slot!Next]_<<HeldBy, OfferOf(HeldBy), Used, Built, pointer>>
  BY <1>4, RecordKeepsClaim, SlotStutters DEF RecordBuild
<1>5. ASSUME NEW id \in VersionIds, EditContent(id) \/ ApproveContent(id)
      PROVE  ActiveKeys' = ActiveKeys /\ pointer' = pointer
  BY <1>5, EditEffects DEF ActiveKeys, Active
<1>6. CASE UNCHANGED <<versions, jobs, pointer>>
  <2>1. ActiveKeys' = ActiveKeys
    BY <1>6 DEF ActiveKeys, Active
  <2> QED BY <1>6, <2>1, SlotStutters
<1> QED BY <1>2, <1>3, <1>4, <1>5, <1>6, SlotStutters, WritingSteps

----------------------------------------------------------------------------
\* The inductive invariant of what is released.
Faithful ==
  /\ Shape /\ OneActiveJob /\ PublishedIsPointer
  /\ Reviewed /\ Stored /\ BuildsFollow /\ SuccessIsBuilt
  /\ BuildsServeTheActiveJob /\ TargetFrozenOrWithdrawn /\ HistoryIsPublished /\ PointerServes

LEMMA ReleaseStep == Faithful /\ [Next]_vars => Faithful'
BY ShapeStep, OneActiveStep, PublishedIsPointerStep, ReviewedStep, StoredStep, BuildsFollowStep,
   SuccessIsBuiltStep, BuildsServe, FrozenOrWithdrawnStep, HistoryStep, PointerServesStep
   DEF Faithful

LEMMA ReleaseInit == Init => Faithful
<1> SUFFICES ASSUME Init PROVE Faithful
  OBVIOUS
<1>1. /\ Shape /\ OneActiveJob /\ PublishedIsPointer
      /\ \A id \in VersionIds : versions[id] = Absent
      /\ \A key \in Keys : jobs[key].status = "none" /\ builds[key] = "none"
      /\ \A p \in Processes : procs[p].pc = "idle"
      /\ pointer = NoPointer
  BY ShapeInit, ClaimsInit DEF Init, VersionsInit, NoJob, Idle
<1>2. Absent.status = "absent" /\ ~Absent.approved
  BY DEF Absent
<1>3. Reviewed /\ HistoryIsPublished
  BY <1>1, <1>2 DEF Reviewed, HistoryIsPublished
<1>4. Stored /\ BuildsFollow /\ SuccessIsBuilt /\ BuildsServeTheActiveJob /\ TargetFrozenOrWithdrawn
      /\ PointerServes
  BY <1>1 DEF Stored, BuildsFollow, SuccessIsBuilt, BuildsServeTheActiveJob, TargetFrozenOrWithdrawn, PointerServes,
     ActiveKeys, Active, Terminal
<1> QED BY <1>1, <1>3, <1>4 DEF Faithful

LEMMA ReleaseAlways == Spec => []Faithful
BY ReleaseInit, ReleaseStep, PTL DEF Spec

\* What the site serves was approved in a review of that version, is still its
\* content, and is stored, although every check of it is read before the slot
\* is locked and again after the build.
THEOREM ServesReviewed == Spec => []PointerServesReviewedContent
<1>1. Faithful => PointerServesReviewedContent
  BY DEF Faithful, PointerServes, PointerServesReviewedContent
<1> QED BY <1>1, ReleaseAlways, PTL

\* While its job is active a target is as frozen, or back with its editors.
THEOREM FrozenOrWithdrawn == Spec => []TargetFrozenOrWithdrawn
<1>1. Faithful => TargetFrozenOrWithdrawn
  BY DEF Faithful
<1> QED BY <1>1, ReleaseAlways, PTL

\* An archived or published version has been live with the content it has.
THEOREM HistoryPublished == Spec => []HistoryIsPublished
<1>1. Faithful => HistoryIsPublished
  BY DEF Faithful
<1> QED BY <1>1, ReleaseAlways, PTL

\* A build runs for the active job only, whose snapshot the worker can read.
THEOREM BuildsForActive == Spec => []BuildsServeTheActiveJob
<1>1. Faithful => BuildsServeTheActiveJob
  BY DEF Faithful
<1> QED BY <1>1, ReleaseAlways, PTL

\* A job ends as its build did, unless its editors took the target of a publish
\* back: a build that went live is then recorded as a failure.
THEOREM JobsEndLikeBuilds == Spec => JobsEndAsBuilt
<1> DEFINE AllEnd == \A key \in ActiveKeys : jobs'[key].status \in Terminal => JobEnds(key)
<1>1. Faithful /\ [Next]_vars => [AllEnd]_vars
  BY JobsEndStep DEF Faithful
<1>2. [][AllEnd]_vars => JobsEndAsBuilt
  BY DEF JobsEndAsBuilt, JobEnds
<1> HIDE DEF AllEnd
<1> QED BY <1>1, <1>2, ReleaseAlways, PTL DEF Spec

\* All requests, retries, abandoned calls and the reconciler together refine
\* one slot: claimed once per key, and released by a success that makes live
\* exactly what was frozen at the claim and was built, or by a failure.
THEOREM PublishingIsASlot == Spec => ImplementsSlot
<1>1. Init => Slot!Init
  <2>1. ASSUME Init PROVE ActiveKeys = {} /\ HeldBy = None
    BY <2>1 DEF Init, ActiveKeys, Active, NoJob, HeldBy
  <2> QED BY <2>1 DEF Init, Slot!Init, OfferOf
<1>2. Faithful /\ [Next]_vars => [Slot!Next]_<<HeldBy, OfferOf(HeldBy), Used, Built, pointer>>
  BY SlotStep DEF Faithful
<1> QED BY <1>1, <1>2, ReleaseAlways, PTL DEF Spec, ImplementsSlot, Slot!Spec, Slot!vars, Used, Built
----------------------------------------------------------------------------
(* The stack of a development process.  All but two of its steps are steps  *)
(* of Publishing: what differs is the trigger, whose builds have succeeded, *)
(* and the version that is frozen for a job that is then refused.           *)

\* createJob freezes the version although the key has a job.
Stray(p) == CreateJobInMemory(p) /\ jobs[procs[p].key] # NoJob

\* The index follows the jobs that succeed.
Finalizes(p) ==
  /\ FinalizeJob(p) /\ builds' = builds
  /\ successful' = [successful EXCEPT ![jobs[procs[p].key].version] = procs[p].key]
  /\ procs' = [procs EXCEPT ![p] = Idle]

\* Every other step submits nothing and makes no job succeed.
Quiet ==
  /\ UNCHANGED <<builds, successful>>
  /\ \A key \in Keys : jobs'[key].status = "succeeded" => jobs[key].status = "succeeded"
  /\ \A p \in Processes : procs'[p].pc = "record" => procs'[p] = procs[p]

\* A local build has succeeded when it is there, and its process knows.
LocalRuns ==
  /\ \A key \in Keys : builds[key] \in {"none", "succeeded"}
  /\ \A p \in Processes : /\ procs[p].pc = "record" => procs[p].run = "accepted"
                          /\ procs[p].pc = "finish" => procs[p].run = "succeeded"

Indexing == successful \in [VersionIds -> Keys \cup {None}] /\ HistoryIsIndexed

\* The memory finds what the database finds: an indexed version has a success.
LEMMA IndexedIsPublished ==
  ASSUME Indexing, NEW id \in VersionIds, versions[id].status \in {"published", "archived"}
  PROVE  PublishedBefore(id)
BY DEF Indexing, HistoryIsIndexed, Indexed, PublishedBefore

\* The steps of a process that only moves.
LEMMA QuietMove ==
  ASSUME Shape, NEW p \in Processes, NEW proc, proc.pc # "record",
         procs' = [procs EXCEPT ![p] = proc], UNCHANGED <<jobs, builds, successful>>
  PROVE  Quiet
BY DEF Shape, TypeOK, Quiet

LEMMA MemoryStepMoves ==
  ASSUME Shape, LocalRuns, Indexing, NEW p \in Processes, MemoryStep(p)
  PROVE  \/ [Next]_vars /\ Quiet
         \/ Finalizes(p) \/ Stray(p) \/ TriggerLocally(p)
<1>1. /\ procs \in [Processes -> Process] /\ jobs \in [Keys -> Job] /\ procs[p] \in Process
      /\ procs[p].pc # "idle" => procs[p].key \in Keys
      /\ Idle.pc = "idle"
  BY DEF Shape, TypeOK, BusyHasKey, Idle
<1>2. Step(p) => [Next]_vars
  BY DEF Next
<1>3. CASE ReadTarget(p)
  <2> DEFINE job == procs[p].job
             found == \/ job.op = "publish" /\ versions[job.version].status = "in_review"
                         /\ versions[job.version].approved
                      \/ /\ job.op = "rollback" /\ versions[job.version].status \in {"archived", "published"}
                         /\ Indexed(job.version)
             read == [procs[p] EXCEPT !.pc = "snapshot", !.job.content = versions[job.version].content,
                                      !.job.revision = versions[job.version].revision]
  <2>1. /\ procs[p].pc = "version" /\ job.version \in VersionIds
        /\ procs' = [procs EXCEPT ![p] = IF found THEN read ELSE Idle]
        /\ UNCHANGED <<versions, jobs, pointer, snapshots, builds, approvals, successful>>
    BY <1>3 DEF ReadTarget, Shape, RequestHasVersion
  <2>2. read.pc = "snapshot"
    BY <1>1 DEF Process
  <2>3. Quiet
    BY <1>1, <2>1, <2>2, QuietMove
  <2>4. CASE found
    <3>1. Publishable(job.op, job.version)
      BY <2>1, <2>4, IndexedIsPublished DEF Publishable
    <3>2. ReadVersion(p)
      BY <2>1, <2>4, <3>1 DEF ReadVersion
    <3> QED BY <1>2, <2>3, <3>2 DEF Step
  <2>5. CASE ~found
    <3>1. Abandon(p)
      BY <1>1, <2>1, <2>5 DEF Abandon
    <3> QED BY <1>2, <2>3, <3>1 DEF Step
  <2> QED BY <2>4, <2>5
<1>4. CASE PutSnapshot(p)
  <2>1. SaveSnapshot(p) /\ procs' = [procs EXCEPT ![p] = [procs[p] EXCEPT !.pc = "create"]]
        /\ UNCHANGED <<jobs, builds, successful>>
    BY <1>1, <1>4 DEF PutSnapshot, SaveSnapshot
  <2>2. [procs[p] EXCEPT !.pc = "create"].pc # "record"
    BY <1>1 DEF Process
  <2>3. Quiet
    BY <2>1, <2>2, QuietMove
  <2> QED BY <1>2, <2>1, <2>3 DEF Step
<1>5. CASE CreateJobInMemory(p) /\ jobs[procs[p].key] = NoJob
  <2> DEFINE key == procs[p].key
  <2>1. CreateJob(p) /\ key \in Keys /\ UNCHANGED <<builds, successful>>
        /\ procs' = [procs EXCEPT ![p] = At("trigger", key)]
    BY <1>1, <1>5 DEF CreateJobInMemory, Admissible, CreateJob, CanAdmit, UpdateVersion, CreatePublishJob
  <2>2. jobs'[key].status = "pending" /\ \A k \in Keys : k # key => jobs'[k] = jobs[k]
    BY <1>1, <2>1, CreateClaims, NewJobType DEF CreateJob
  <2>3. At("trigger", key).pc = "trigger"
    BY <2>1, AtType
  <2>4. Quiet
    BY <1>1, <2>1, <2>2, <2>3 DEF Quiet
  <2> QED BY <1>2, <2>1, <2>4 DEF Step
<1>6. CASE RefuseJobInMemory(p)
  <2>1. RefuseJob(p) /\ procs' = [procs EXCEPT ![p] = [procs[p] EXCEPT !.pc = "relookup"]]
        /\ UNCHANGED <<jobs, builds, successful>>
    BY <1>1, <1>6 DEF RefuseJobInMemory, RefuseJob, Admissible, CanAdmit
  <2>2. [procs[p] EXCEPT !.pc = "relookup"].pc # "record"
    BY <1>1 DEF Process
  <2>3. Quiet
    BY <2>1, <2>2, QuietMove
  <2> QED BY <1>2, <2>1, <2>3 DEF Step
<1>7. CASE LookUpAgain(p) /\ UNCHANGED successful
  <2>1. /\ UNCHANGED <<jobs, builds, successful>> /\ procs[p].key \in Keys
        /\ \E proc \in {At("trigger", procs[p].key), Idle} : procs' = [procs EXCEPT ![p] = proc]
    BY <1>1, <1>7 DEF LookUpAgain
  <2>2. At("trigger", procs[p].key).pc # "record" /\ Idle.pc # "record"
    BY <1>1, <2>1, AtType
  <2>3. Quiet
    BY <2>1, <2>2, QuietMove
  <2> QED BY <1>2, <1>7, <2>3 DEF Step
<1>8. CASE RecordRun(p)
  <2> DEFINE key == procs[p].key
  <2>1. /\ procs[p].pc = "record" /\ procs[p].run = "accepted" /\ key \in Keys
        /\ procs' = [procs EXCEPT ![p] = Idle]
        /\ UNCHANGED <<versions, pointer, snapshots, builds, approvals>>
    BY <1>1, <1>8 DEF RecordRun, LocalRuns
  <2>2. CASE jobs[key].status = "pending"
    <3>1. jobs' = [jobs EXCEPT ![key].status = "building"] /\ successful' = successful
      BY <1>8, <2>2 DEF RecordRun, UpdatePublishJob
    <3>2. RecordBuild(p)
      BY <1>1, <2>1, <2>2, <3>1 DEF RecordBuild
    <3>3. \A k \in Keys : jobs'[k].status = "succeeded" => jobs[k].status = "succeeded"
      BY <1>1, <2>1, <3>1 DEF Job
    <3>4. Quiet
      BY <1>1, <2>1, <3>1, <3>3 DEF Quiet
    <3> QED BY <1>2, <3>2, <3>4 DEF Step
  <2>3. CASE jobs[key].status # "pending"
    <3>1. UNCHANGED <<jobs, successful>>
      BY <1>8, <2>3 DEF RecordRun, UpdatePublishJob
    <3>2. Abandon(p)
      BY <1>1, <2>1, <3>1 DEF Abandon
    <3>3. Quiet
      BY <1>1, <2>1, <3>1, QuietMove
    <3> QED BY <1>2, <3>2, <3>3 DEF Step
  <2> QED BY <2>2, <2>3
<1>9. CASE PollBuild(p) /\ UNCHANGED successful
  <2> DEFINE polled == [procs[p] EXCEPT !.pc = "finish", !.run = builds[procs[p].key]]
  <2>1. /\ UNCHANGED <<jobs, builds, successful>>
        /\ \E proc \in {polled, Idle} : procs' = [procs EXCEPT ![p] = proc]
    BY <1>1, <1>9 DEF PollBuild
  <2>2. polled.pc # "record" /\ Idle.pc # "record"
    BY <1>1 DEF Process
  <2>3. Quiet
    BY <2>1, <2>2, QuietMove
  <2> QED BY <1>2, <1>9, <2>3 DEF Step
<1>10. CASE FinishInMemory(p)
  <2> DEFINE key == procs[p].key
             job == jobs[key]
  <2>1. /\ procs[p].pc = "finish" /\ procs[p].run = "succeeded" /\ key \in Keys
        /\ procs' = [procs EXCEPT ![p] = Idle]
        /\ UNCHANGED <<snapshots, builds, approvals>>
    BY <1>1, <1>10 DEF FinishInMemory, LocalRuns
  <2>2. CASE job.status = "building" /\ TargetMatchesJob(job)
    <3>1. /\ versions' = Replaced(job.version) /\ SetPublishPointer(job)
          /\ jobs' = [jobs EXCEPT ![key].status = "succeeded"]
          /\ successful' = [successful EXCEPT ![job.version] = key]
      BY <1>10, <2>2 DEF FinishInMemory, UpdatePublishJob
    <3>2. FinalizeJob(p)
      BY <2>1, <2>2, <3>1 DEF FinalizeJob, SetPublishPointer
    <3> QED BY <2>1, <3>1, <3>2 DEF Finalizes
  <2>3. CASE job.status = "building" /\ ~TargetMatchesJob(job)
    <3>1. /\ versions' = [versions EXCEPT ![job.version] = Released(versions[job.version], FALSE)]
          /\ jobs' = [jobs EXCEPT ![key].status = "failed"]
          /\ UNCHANGED <<pointer, successful>>
      BY <1>10, <2>3 DEF FinishInMemory, UpdatePublishJob, UpdateVersion
    <3>2. FailChangedJob(p)
      BY <2>1, <2>3, <3>1 DEF FailChangedJob
    <3>3. \A k \in Keys : jobs'[k].status = "succeeded" => jobs[k].status = "succeeded"
      BY <1>1, <2>1, <3>1 DEF Job
    <3>4. Quiet
      BY <1>1, <2>1, <3>1, <3>3 DEF Quiet
    <3> QED BY <1>2, <3>2, <3>4 DEF Step
  <2>4. CASE job.status # "building"
    <3>1. UNCHANGED <<versions, jobs, pointer, successful>>
      BY <1>10, <2>4 DEF FinishInMemory
    <3>2. AlreadyFinished(p)
      BY <2>1, <2>4, <3>1 DEF AlreadyFinished
    <3>3. Quiet
      BY <1>1, <2>1, <3>1, QuietMove
    <3> QED BY <1>2, <3>2, <3>3 DEF Step
  <2> QED BY <2>2, <2>3, <2>4
<1>11. CASE AbandonInMemory(p)
  <2>1. Abandon(p) /\ UNCHANGED <<jobs, builds, successful>> /\ procs' = [procs EXCEPT ![p] = Idle]
    BY <1>11 DEF AbandonInMemory, Abandon
  <2>2. Quiet
    BY <1>1, <2>1, QuietMove
  <2> QED BY <1>2, <2>1, <2>2 DEF Step
<1> QED
  BY <1>3, <1>4, <1>5, <1>6, <1>7, <1>8, <1>9, <1>10, <1>11 DEF MemoryStep, Stray

LEMMA MemoryMoves ==
  ASSUME Shape, LocalRuns, Indexing, [MemoryNext]_memoryVars
  PROVE  \/ [Next]_vars /\ Quiet
         \/ \E p \in Processes : Finalizes(p) \/ Stray(p) \/ TriggerLocally(p)
<1>1. /\ procs \in [Processes -> Process] /\ jobs \in [Keys -> Job]
      /\ Requests \subseteq Processes /\ Reconciler \in Processes
  BY DEF Shape, TypeOK, Processes
<1>2. ASSUME NEW p \in Requests, NEW key \in Keys, NEW op \in {"publish", "rollback"},
             NEW id \in VersionIds, NEW actor \in Actors, FindJob(p, key, RequestOf(op, id, actor))
      PROVE  [Next]_vars /\ Quiet
  <2> DEFINE request == RequestOf(op, id, actor)
             started == [At("version", key) EXCEPT !.job = request]
  <2>1. HandleRequest(p, key)
    BY <1>2 DEF FindJob, HandleRequest
  <2>2. /\ UNCHANGED <<jobs, builds, successful>>
        /\ \E proc \in {started, At("trigger", key)} : procs' = [procs EXCEPT ![p] = proc]
    BY <1>2 DEF FindJob, StartRequest, ResumeRequest
  <2>3. started.pc = "version" /\ At("trigger", key).pc = "trigger"
    BY AtType DEF Process
  <2>4. Quiet
    BY <1>1, <2>2, <2>3, QuietMove
  <2> QED BY <2>1, <2>4 DEF Next
<1>3. ASSUME NEW p \in Requests, NEW key \in Keys, RefreshStatus(p, key), UNCHANGED successful
      PROVE  [Next]_vars /\ Quiet
  <2>1. At("poll", key).pc = "poll"
    BY AtType
  <2>2. Quiet
    BY <1>1, <1>3, <2>1, QuietMove DEF RefreshStatus
  <2> QED BY <1>3, <2>2 DEF Next, HandleRequest
<1>4. ASSUME Reconcile, UNCHANGED successful PROVE [Next]_vars /\ Quiet
  <2>1. PICK key \in Keys : \E proc \in {At("trigger", key), At("poll", key)} :
                              procs' = [procs EXCEPT ![Reconciler] = proc]
    BY <1>4 DEF Reconcile, ActiveKeys
  <2>2. At("trigger", key).pc = "trigger" /\ At("poll", key).pc = "poll"
    BY AtType
  <2>3. Quiet
    BY <1>1, <1>4, <2>1, <2>2, QuietMove DEF Reconcile
  <2> QED BY <1>4, <2>3 DEF Next
<1>5. ASSUME NEW id \in VersionIds, ContentInMemory(id) PROVE [Next]_vars /\ Quiet
  <2>1. UNCHANGED <<jobs, builds, procs, successful>> /\ (EditContent(id) \/ ApproveContent(id))
    BY <1>5 DEF ContentInMemory, EditContent, ApproveContent
  <2> QED BY <2>1 DEF Next, Quiet
<1>6. ASSUME UNCHANGED memoryVars PROVE [Next]_vars /\ Quiet
  BY <1>6 DEF memoryVars, vars, Quiet
<1> QED
  BY <1>2, <1>3, <1>4, <1>5, <1>6, MemoryStepMoves DEF MemoryNext

\* What the two other steps do: the one freezes a version and nothing else, for
\* a key whose job has ended; the other starts a build that has succeeded.
LEMMA StrayEffects ==
  ASSUME Shape, NEW p \in Processes, Stray(p)
  PROVE  /\ UNCHANGED <<jobs, pointer, snapshots, builds, approvals, successful>>
         /\ procs[p].key \in Keys /\ jobs[procs[p].key].status \in Terminal
         /\ \E proc \in Process : /\ procs' = [procs EXCEPT ![p] = proc]
                                  /\ proc.pc = "relookup" /\ proc.key = procs[p].key
                                  /\ proc.job = procs[p].job
         /\ \/ versions' = versions
            \/ LET id == procs[p].job.version IN
               /\ id \in VersionIds
               /\ versions' = [versions EXCEPT ![id] = Admitted(versions[id])]
               /\ versions[id].status = "in_review" /\ versions[id].approved
<1> DEFINE key == procs[p].key
           request == procs[p].job
           again == [procs[p] EXCEPT !.pc = "relookup"]
<1>1. /\ procs \in [Processes -> Process] /\ jobs \in [Keys -> Job] /\ procs[p] \in Process
      /\ key \in Keys /\ request \in Job /\ request.version \in VersionIds
  BY DEF Shape, TypeOK, BusyHasKey, RequestHasVersion, Stray, CreateJobInMemory, Process
<1>2. /\ ActiveKeys = {} /\ TargetUnchanged(request) /\ jobs[key] # NoJob
      /\ jobs' = CreatePublishJob(key, NewJob(request))
      /\ procs' = [procs EXCEPT ![p] = again]
      /\ UNCHANGED <<pointer, snapshots, builds, approvals, successful>>
  BY <1>1 DEF Stray, CreateJobInMemory, Admissible
<1>3. jobs' = jobs
  BY <1>1, <1>2 DEF CreatePublishJob
<1>4. jobs[key].status \in Terminal
  BY <1>1, <1>2 DEF Shape, JobHasVersion, Job, ActiveKeys, Active, Terminal
<1>5. again \in Process /\ again.pc = "relookup" /\ again.key = key /\ again.job = request
  BY <1>1 DEF Process
<1>6. CASE request.op = "publish"
  <2>1. versions' = [versions EXCEPT ![request.version] = Admitted(versions[request.version])]
    BY <1>6 DEF Stray, CreateJobInMemory, UpdateVersion
  <2>2. versions[request.version].status = "in_review" /\ versions[request.version].approved
    BY <1>2, <1>6 DEF TargetUnchanged, CanTransition
  <2> HIDE DEF again
  <2> QED BY <1>1, <1>2, <1>3, <1>4, <1>5, <2>1, <2>2
<1>7. CASE request.op # "publish"
  <2>1. versions' = versions
    BY <1>7 DEF Stray, CreateJobInMemory
  <2> HIDE DEF again
  <2> QED BY <1>1, <1>2, <1>3, <1>4, <1>5, <2>1
<1> QED BY <1>6, <1>7

LEMMA LocalTriggerEffects ==
  ASSUME Shape, NEW p \in Processes, TriggerLocally(p)
  PROVE  /\ UNCHANGED <<versions, jobs, pointer, snapshots, approvals, successful>>
         /\ procs[p].key \in Keys /\ procs[p].pc = "trigger"
         /\ builds' = [builds EXCEPT ![procs[p].key] = "succeeded"]
         /\ \E proc \in Process : /\ procs' = [procs EXCEPT ![p] = proc]
                                  /\ proc.pc = "record" /\ proc.run = "accepted"
                                  /\ proc.key = procs[p].key
<1> DEFINE recording == [procs[p] EXCEPT !.pc = "record", !.run = "accepted"]
<1>1. procs \in [Processes -> Process] /\ procs[p] \in Process /\ procs[p].key \in Keys
  BY DEF Shape, TypeOK, BusyHasKey, TriggerLocally
<1>2. recording \in Process /\ recording.pc = "record" /\ recording.run = "accepted"
      /\ recording.key = procs[p].key
  BY <1>1 DEF Process
<1>3. procs' = [procs EXCEPT ![p] = recording]
  BY <1>1 DEF TriggerLocally
<1> HIDE DEF recording
<1> QED BY <1>1, <1>2, <1>3 DEF TriggerLocally

\* A stray version, in the form in which it is used below.
LEMMA StrayVersion ==
  ASSUME Shape, NEW p \in Processes, Stray(p), NEW id \in VersionIds
  PROVE  \/ versions'[id] = versions[id]
         \/ /\ versions[id].status = "in_review" /\ versions[id].approved
            /\ id = procs[p].job.version
            /\ versions'[id].status = "publishing" /\ versions'[id].approved
            /\ versions'[id].content = versions[id].content
<1>1. versions \in [VersionIds -> Version]
  BY DEF Shape, TypeOK, VersionsTypeOK
<1>2. CASE versions' = versions
  BY <1>2
<1>3. ASSUME NEW other \in VersionIds, other = procs[p].job.version,
             versions' = [versions EXCEPT ![other] = Admitted(versions[other])],
             versions[other].status = "in_review", versions[other].approved
      PROVE  \/ versions'[id] = versions[id]
             \/ /\ versions[id].status = "in_review" /\ versions[id].approved
                /\ id = procs[p].job.version
                /\ versions'[id].status = "publishing" /\ versions'[id].approved
                /\ versions'[id].content = versions[id].content
  <2>1. /\ Admitted(versions[other]).status = "publishing"
        /\ Admitted(versions[other]).content = versions[other].content
        /\ Admitted(versions[other]).approved = versions[other].approved
    BY <1>1, VersionEffects
  <2>2. CASE id = other
    BY <1>1, <1>3, <2>1, <2>2
  <2>3. CASE id # other
    BY <1>1, <1>3, <2>3
  <2> QED BY <2>2, <2>3
<1> QED BY <1>2, <1>3, StrayEffects

----------------------------------------------------------------------------
\* The invariants of Publishing hold over the memory too.

LEMMA ShapeOtherwise ==
  ASSUME Shape, NEW p \in Processes, Stray(p) \/ TriggerLocally(p)
  PROVE  Shape'
<1>1. CASE Stray(p)
  <2>1. PICK proc \in Process : /\ procs' = [procs EXCEPT ![p] = proc]
                                /\ proc.pc = "relookup" /\ proc.key = procs[p].key
                                /\ proc.job = procs[p].job
    BY <1>1, StrayEffects
  <2>2. procs[p].key \in Keys /\ procs[p].job.version \in VersionIds
    BY <1>1, StrayEffects DEF Shape, RequestHasVersion, Stray, CreateJobInMemory
  <2>3. procs' \in [Processes -> Process] /\ BusyHasKey' /\ RequestHasVersion'
    BY <2>1, <2>2, ProcessStep
  <2>4. VersionsTypeOK'
    <3>1. versions \in [VersionIds -> Version]
      BY DEF Shape, TypeOK, VersionsTypeOK
    <3>2. \A version \in Version : Admitted(version) \in Version
      BY VersionTypes
    <3>3. \/ versions' = versions
          \/ \E id \in VersionIds : versions' = [versions EXCEPT ![id] = Admitted(versions[id])]
      BY <1>1, StrayEffects
    <3> QED BY <3>1, <3>2, <3>3 DEF VersionsTypeOK
  <2>5. UNCHANGED <<jobs, pointer, snapshots, builds, approvals>>
    BY <1>1, StrayEffects
  <2> QED BY <2>3, <2>4, <2>5 DEF Shape, TypeOK, JobHasVersion
<1>2. CASE TriggerLocally(p)
  <2>1. PICK proc \in Process : /\ procs' = [procs EXCEPT ![p] = proc]
                                /\ proc.pc = "record" /\ proc.key = procs[p].key
    BY <1>2, LocalTriggerEffects
  <2>2. procs[p].key \in Keys
    BY <1>2, LocalTriggerEffects
  <2>3. procs' \in [Processes -> Process] /\ BusyHasKey' /\ RequestHasVersion'
    BY <2>1, <2>2, ProcessStep
  <2>4. builds' \in [Keys -> {"none", "running"} \cup Terminal]
    BY <1>2, LocalTriggerEffects DEF Shape, TypeOK, Terminal
  <2>5. UNCHANGED <<versions, jobs, pointer, snapshots, approvals>>
    BY <1>2, LocalTriggerEffects
  <2> QED BY <2>3, <2>4, <2>5 DEF Shape, TypeOK, JobHasVersion, VersionsTypeOK
<1> QED BY <1>1, <1>2

LEMMA ReviewsOtherwise ==
  ASSUME Shape, PublishedIsPointer, Reviewed, OneActiveJob,
         NEW p \in Processes, Stray(p) \/ TriggerLocally(p)
  PROVE  PublishedIsPointer' /\ Reviewed' /\ OneActiveJob'
<1>1. UNCHANGED <<jobs, pointer, approvals>>
  BY StrayEffects, LocalTriggerEffects
<1>2. OneActiveJob'
  BY <1>1 DEF OneActiveJob, ActiveKeys, Active
<1>3. ASSUME NEW id \in VersionIds
      PROVE  \/ versions'[id] = versions[id]
             \/ /\ versions[id].status = "in_review" /\ versions[id].approved
                /\ versions'[id].status = "publishing" /\ versions'[id].approved
                /\ versions'[id].content = versions[id].content
  BY StrayVersion, LocalTriggerEffects
<1>4. PublishedIsPointer'
  BY <1>1, <1>3 DEF PublishedIsPointer
<1>5. Absent.status = "absent"
  BY DEF Absent
<1>6. Reviewed'
  BY <1>1, <1>3, <1>5 DEF Reviewed
<1> QED BY <1>2, <1>4, <1>6

LEMMA BuildsFollowOtherwise ==
  ASSUME Shape, LocalRuns, BuildsFollow, NEW p \in Processes, Stray(p) \/ TriggerLocally(p)
  PROVE  BuildsFollow' /\ LocalRuns'
<1>1. procs \in [Processes -> Process] /\ builds \in [Keys -> {"none", "running"} \cup Terminal]
      /\ jobs' = jobs
  BY StrayEffects, LocalTriggerEffects DEF Shape, TypeOK
<1>2. CASE Stray(p)
  <2>1. builds' = builds /\ \E proc : procs' = [procs EXCEPT ![p] = proc] /\ proc.pc = "relookup"
    BY <1>2, StrayEffects
  <2>2. procs'[p].pc = "relookup" /\ \A q \in Processes : q # p => procs'[q] = procs[q]
    BY <1>1, <2>1
  <2> QED BY <1>1, <2>1, <2>2 DEF BuildsFollow, LocalRuns
<1>3. CASE TriggerLocally(p)
  <2> DEFINE key == procs[p].key
  <2>1. /\ key \in Keys /\ procs[p].pc = "trigger" /\ builds' = [builds EXCEPT ![key] = "succeeded"]
        /\ \E proc : /\ procs' = [procs EXCEPT ![p] = proc] /\ proc.key = key
                     /\ proc.pc = "record" /\ proc.run = "accepted"
    BY <1>3, LocalTriggerEffects
  <2>2. /\ procs'[p].pc = "record" /\ procs'[p].run = "accepted" /\ procs'[p].key = key
        /\ \A q \in Processes : q # p => procs'[q] = procs[q]
    BY <1>1, <2>1
  <2>3. builds'[key] = "succeeded" /\ \A k \in Keys : k # key => builds'[k] = builds[k]
    BY <1>1, <2>1
  <2>4. jobs[key].status # "none"
    BY <2>1 DEF BuildsFollow
  <2> HIDE DEF key
  <2>5. LocalRuns'
    BY <2>2, <2>3 DEF LocalRuns
  <2>6. \A k \in Keys : /\ jobs'[k].status \in {"building", "succeeded", "failed"} => builds'[k] # "none"
                        /\ jobs'[k].status \in Terminal => builds'[k] \in Terminal
    BY <1>1, <2>3 DEF BuildsFollow, Terminal
  <2>7. ASSUME NEW q \in Processes
        PROVE  /\ procs'[q].pc \in {"trigger", "record", "poll", "finish"} => jobs'[procs'[q].key].status # "none"
               /\ procs'[q].pc = "record" /\ procs'[q].run = "accepted" => builds'[procs'[q].key] # "none"
               /\ procs'[q].pc = "finish" => procs'[q].run \in Terminal /\ builds'[procs'[q].key] = procs'[q].run
    <3>1. CASE q = p
      BY <1>1, <2>2, <2>3, <2>4, <3>1
    <3>2. CASE q # p
      <4>1. procs'[q] = procs[q] /\ (procs[q].pc # "idle" => procs[q].key \in Keys)
        BY <2>2, <3>2 DEF Shape, BusyHasKey
      <4> QED BY <1>1, <2>3, <4>1 DEF BuildsFollow, LocalRuns
    <3> QED BY <3>1, <3>2
  <2> QED BY <2>5, <2>6, <2>7 DEF BuildsFollow
<1> QED BY <1>2, <1>3

\* The steps of Publishing that the memory takes start no build that runs.
LEMMA LocalRunsStep ==
  ASSUME Shape, LocalRuns, [Next]_vars, builds' = builds,
         \A p \in Processes : procs'[p].pc = "record" => procs'[p] = procs[p]
  PROVE  LocalRuns'
<1>1. ASSUME NEW p \in Processes, procs'[p].pc = "finish", procs'[p] # procs[p]
      PROVE  procs'[p].run = "succeeded"
  <2>1. /\ procs'[p].key = procs[p].key /\ procs[p].pc = "poll"
        /\ procs'[p].run \in Terminal /\ builds[procs'[p].key] = procs'[p].run
    BY <1>1, ProcessGoes DEF Goes, Idle
  <2>2. procs[p].key \in Keys
    BY <2>1 DEF Shape, BusyHasKey
  <2> QED BY <2>1, <2>2 DEF LocalRuns, Terminal
<1> QED BY <1>1 DEF LocalRuns

----------------------------------------------------------------------------
\* What the memory remembers: the index, and versions whose job is gone.

\* A version that was live stays published or archived.
LEMMA LiveStays ==
  ASSUME Shape, PublishedIsPointer, [Next]_vars,
         NEW id \in VersionIds, versions[id].status \in {"published", "archived"}
  PROVE  versions'[id].status \in {"published", "archived"}
<1>1. CASE UNCHANGED <<versions, jobs, pointer>>
  BY <1>1
<1>2. ASSUME NEW p \in Processes, CreateJob(p) \/ RecordBuild(p) \/ Finish(p)
      PROVE  versions'[id].status \in {"published", "archived"}
  BY <1>2, WritesServed DEF Served
<1>3. ASSUME NEW other \in VersionIds, EditContent(other) \/ ApproveContent(other)
      PROVE  versions'[id] = versions[id]
  BY <1>3, EditEffects
<1> QED BY <1>1, <1>2, <1>3, WritingSteps

\* The target of a job that succeeded is live or was.
SucceededIsLive ==
  \A key \in Keys : jobs[key].status = "succeeded"
    => versions[jobs[key].version].status \in {"published", "archived"}

LEMMA SucceededIsLiveStep ==
  ASSUME Shape, PublishedIsPointer, SucceededIsLive, [Next]_vars
  PROVE  SucceededIsLive'
<1> SUFFICES ASSUME NEW key \in Keys, jobs'[key].status = "succeeded"
             PROVE  versions'[jobs'[key].version].status \in {"published", "archived"}
  BY DEF SucceededIsLive
<1>1. versions \in [VersionIds -> Version] /\ jobs \in [Keys -> Job]
  BY DEF Shape, TypeOK, VersionsTypeOK
<1>2. CASE jobs[key].status = "succeeded"
  <2>1. PICK id \in VersionIds : id = jobs[key].version
    BY <1>2 DEF Shape, JobHasVersion
  <2>2. versions[id].status \in {"published", "archived"}
    BY <1>2, <2>1 DEF SucceededIsLive
  <2>3. jobs'[key].version = id
    BY <1>2, <2>1, JobStays
  <2> QED BY <2>2, <2>3, LiveStays
<1>3. CASE jobs[key].status # "succeeded"
  <2>1. PICK p \in Processes : JobMoves(p, key)
    BY <1>3, JobForward
  <2>2. Finish(p) /\ procs[p].key = key
    <3>1. NewJob(procs[p].job).status = "pending"
      BY <2>1, NewJobType DEF Shape, TypeOK, Process
    <3> QED BY <2>1, <3>1 DEF JobMoves
  <2>3. FinalizeJob(p)
    <3>1. ASSUME FailChangedJob(p) \/ FailJob(p) PROVE FALSE
      <4>1. jobs' = [jobs EXCEPT ![key].status = "failed"]
        BY <2>2, <3>1 DEF FailChangedJob, FailJob
      <4>2. jobs'[key].status = "failed"
        BY <1>1, <4>1 DEF Job
      <4> QED BY <4>2
    <3> QED BY <2>2, <3>1 DEF Finish
  <2>4. PICK id \in VersionIds : id = jobs[key].version
    BY <2>2, FinishFrees
  <2>5. versions' = Replaced(id) /\ jobs'[key].version = id
    BY <1>1, <2>2, <2>3, <2>4 DEF FinalizeJob, Job
  <2>6. versions'[id] = Promoted(versions[id])
    BY <2>5 DEF Replaced
  <2>7. Promoted(versions[id]).status = "published"
    BY <1>1, VersionEffects
  <2> QED BY <2>5, <2>6, <2>7
<1> QED BY <1>2, <1>3

LEMMA IndexingQuiet ==
  ASSUME Shape, PublishedIsPointer, Indexing, [Next]_vars, Quiet
  PROVE  Indexing'
<1>1. successful' = successful /\ successful \in [VersionIds -> Keys \cup {None}] /\ None \notin Keys
  BY PublishingAssumption DEF Indexing, Quiet
<1>2. ASSUME NEW id \in VersionIds, versions'[id].status \in {"published", "archived"}
      PROVE  /\ successful[id] # None
             /\ jobs'[successful[id]].status = "succeeded" /\ jobs'[successful[id]].version = id
             /\ jobs'[successful[id]].content = versions'[id].content
  <2>1. versions[id].status \in {"published", "archived"} /\ versions'[id].content = versions[id].content
    BY <1>2, BecomesLive DEF Quiet, FinalizeJob
  <2>2. PICK key \in Keys : key = successful[id]
    BY <1>1, <2>1 DEF Indexing, HistoryIsIndexed, Indexed
  <2>3. /\ jobs[key].status = "succeeded" /\ jobs[key].version = id
        /\ jobs[key].content = versions[id].content
    BY <2>1, <2>2 DEF Indexing, HistoryIsIndexed
  <2>4. jobs'[key] = jobs[key]
    BY <2>3, JobStays DEF Terminal
  <2> QED BY <1>1, <2>1, <2>2, <2>3, <2>4
<1> QED BY <1>1, <1>2 DEF Indexing, HistoryIsIndexed, Indexed

LEMMA IndexingFinalize ==
  ASSUME Shape, PublishedIsPointer, Indexing, [Next]_vars, NEW p \in Processes, Finalizes(p)
  PROVE  Indexing'
<1>1. PICK key \in Keys : key = procs[p].key
  BY FinishFrees DEF Finalizes, Finish, ActiveKeys
<1>2. PICK target \in VersionIds : target = jobs[key].version
  BY <1>1, FinishFrees DEF Finalizes, Finish
<1>3. /\ successful \in [VersionIds -> Keys \cup {None}] /\ None \notin Keys
      /\ successful' = [successful EXCEPT ![target] = key]
      /\ jobs \in [Keys -> Job] /\ jobs' = [jobs EXCEPT ![key].status = "succeeded"]
      /\ versions[target].content = jobs[key].content
  BY <1>1, <1>2, PublishingAssumption
     DEF Indexing, Finalizes, FinalizeJob, TargetMatchesJob, Shape, TypeOK
<1>4. successful' \in [VersionIds -> Keys \cup {None}]
  BY <1>3
<1>5. ASSUME NEW id \in VersionIds, versions'[id].status \in {"published", "archived"}
      PROVE  /\ successful'[id] # None
             /\ jobs'[successful'[id]].status = "succeeded" /\ jobs'[successful'[id]].version = id
             /\ jobs'[successful'[id]].content = versions'[id].content
  <2>1. versions'[id].content = versions[id].content
    BY WritesServed DEF Served, Finalizes, Finish
  <2>2. CASE id = target
    <3>1. successful'[id] = key
      BY <1>3, <2>2
    <3>2. /\ jobs'[key].status = "succeeded" /\ jobs'[key].version = target
          /\ jobs'[key].content = jobs[key].content
      BY <1>2, <1>3 DEF Job
    <3> QED BY <1>3, <2>1, <2>2, <3>1, <3>2
  <2>3. CASE id # target
    <3>1. successful'[id] = successful[id]
      BY <1>3, <2>3
    <3>2. versions[id].status \in {"published", "archived"}
      <4>1. ASSUME NEW q \in Processes, FinalizeJob(q), procs[q].key \in Keys,
                   jobs[procs[q].key].version = id
            PROVE  FALSE
        <5>1. jobs[procs[q].key].status = "building" /\ jobs'[procs[q].key].status = "succeeded"
          BY <1>3, <4>1 DEF FinalizeJob, Job
        <5>2. procs[q].key = key
          BY <1>3, <4>1, <5>1
        <5> QED BY <1>2, <2>3, <4>1, <5>2
      <4> QED BY <1>5, <4>1, BecomesLive
    <3>3. PICK other \in Keys : other = successful[id]
      BY <1>3, <3>2 DEF Indexing, HistoryIsIndexed, Indexed
    <3>4. /\ jobs[other].status = "succeeded" /\ jobs[other].version = id
          /\ jobs[other].content = versions[id].content
      BY <3>2, <3>3 DEF Indexing, HistoryIsIndexed
    <3>5. jobs'[other] = jobs[other]
      BY <3>4, JobStays DEF Terminal
    <3> QED BY <1>3, <2>1, <3>1, <3>3, <3>4, <3>5
  <2> QED BY <2>2, <2>3
<1> QED BY <1>4, <1>5 DEF Indexing, HistoryIsIndexed, Indexed

LEMMA HistoryOtherwise ==
  ASSUME Shape, Indexing, SucceededIsLive, NEW p \in Processes, Stray(p) \/ TriggerLocally(p)
  PROVE  Indexing' /\ SucceededIsLive'
<1>1. UNCHANGED <<jobs, successful>>
  BY StrayEffects, LocalTriggerEffects
<1>2. ASSUME NEW id \in VersionIds
      PROVE  \/ versions'[id] = versions[id]
             \/ versions[id].status = "in_review" /\ versions'[id].status = "publishing"
  BY StrayVersion, LocalTriggerEffects
<1>3. Indexing'
  BY <1>1, <1>2 DEF Indexing, HistoryIsIndexed, Indexed
<1>4. \A key \in Keys : jobs[key].status = "succeeded" => jobs[key].version \in VersionIds
  BY DEF Shape, JobHasVersion
<1>5. SucceededIsLive'
  BY <1>1, <1>2, <1>4 DEF SucceededIsLive
<1> QED BY <1>3, <1>5

\* A key that can strand a version of another job, or one that was withdrawn.
Reused(id) ==
  \E key \in Keys :
    jobs[key].status \in Terminal /\ (jobs[key].version = id => jobs[key].status = "failed")

Attended ==
  \A id \in VersionIds : versions[id].status = "publishing" =>
    (\E key \in Keys : Claims(key, id)) \/ Reused(id)

LEMMA AttendedMeaning == Attended <=> StrandedByReuse
BY DEF Attended, Reused, Claims, StrandedByReuse, TargetMatchesJob, ActiveKeys

LEMMA AttendedStep ==
  ASSUME Shape, OneActiveJob, Attended, [Next]_vars
  PROVE  Attended'
<1> SUFFICES ASSUME NEW id \in VersionIds, versions'[id].status = "publishing"
             PROVE  (\E key \in Keys : Claims(key, id)') \/ Reused(id)'
  BY DEF Attended
<1>1. CASE Reused(id)
  <2>1. PICK key \in Keys : jobs[key].status \in Terminal /\ (jobs[key].version = id => jobs[key].status = "failed")
    BY <1>1 DEF Reused
  <2>2. jobs'[key] = jobs[key]
    BY <2>1, JobStays DEF Terminal
  <2> QED BY <2>1, <2>2 DEF Reused
<1>2. CASE ~Reused(id)
  <2>1. versions[id].status = "publishing" => \E key \in Keys : Claims(key, id)
    BY <1>2 DEF Attended
  <2> QED BY <2>1, ClaimStays
<1> QED BY <1>1, <1>2

\* A stray version was not live, so its key has no success of it.
LEMMA AttendedOtherwise ==
  ASSUME Shape, SucceededIsLive, Attended, NEW p \in Processes, Stray(p) \/ TriggerLocally(p)
  PROVE  Attended'
<1> SUFFICES ASSUME NEW id \in VersionIds, versions'[id].status = "publishing"
             PROVE  (\E key \in Keys : Claims(key, id)') \/ Reused(id)'
  BY DEF Attended
<1>1. jobs' = jobs
  BY StrayEffects, LocalTriggerEffects
<1>2. CASE versions'[id] = versions[id]
  BY <1>1, <1>2 DEF Attended, Reused, Claims, ActiveKeys, Active
<1>3. CASE versions'[id] # versions[id]
  <2>1. Stray(p) /\ versions[id].status = "in_review"
    BY <1>3, StrayVersion, LocalTriggerEffects
  <2>2. PICK key \in Keys : key = procs[p].key /\ jobs[key].status \in Terminal
    BY <2>1, StrayEffects
  <2>3. jobs[key].version = id => jobs[key].status = "failed"
    BY <2>1, <2>2 DEF SucceededIsLive, Terminal
  <2> QED BY <1>1, <2>2, <2>3 DEF Reused
<1> QED BY <1>2, <1>3

----------------------------------------------------------------------------
\* The inductive invariant over the memory.
MemoryInv ==
  /\ Shape /\ OneActiveJob /\ PublishedIsPointer /\ Reviewed
  /\ BuildsFollow /\ LocalRuns /\ Indexing /\ SucceededIsLive /\ Attended

LEMMA MemoryStart == MemoryInit => MemoryInv
<1> SUFFICES ASSUME MemoryInit PROVE MemoryInv
  OBVIOUS
<1>1. Faithful
  BY ReleaseInit DEF MemoryInit
<1>2. /\ \A id \in VersionIds : versions[id].status = "absent"
      /\ \A key \in Keys : jobs[key].status = "none" /\ builds[key] = "none"
      /\ \A p \in Processes : procs[p].pc = "idle"
      /\ successful \in [VersionIds -> Keys \cup {None}]
  BY DEF MemoryInit, Init, VersionsInit, Absent, NoJob, Idle
<1>3. LocalRuns /\ Indexing /\ SucceededIsLive /\ Attended
  BY <1>2 DEF LocalRuns, Indexing, HistoryIsIndexed, SucceededIsLive, Attended
<1> QED BY <1>1, <1>3 DEF MemoryInv, Faithful

LEMMA MemoryKeeps == MemoryInv /\ [MemoryNext]_memoryVars => MemoryInv'
<1> SUFFICES ASSUME MemoryInv, [MemoryNext]_memoryVars PROVE MemoryInv'
  OBVIOUS
<1> USE DEF MemoryInv
<1>1. ASSUME [Next]_vars
      PROVE  Shape' /\ OneActiveJob' /\ PublishedIsPointer' /\ Reviewed' /\ BuildsFollow'
             /\ SucceededIsLive' /\ Attended'
  BY <1>1, ShapeStep, OneActiveStep, PublishedIsPointerStep, ReviewedStep, BuildsFollowStep,
     SucceededIsLiveStep, AttendedStep
<1>2. ASSUME [Next]_vars, Quiet PROVE LocalRuns' /\ Indexing'
  <2>1. builds' = builds /\ \A p \in Processes : procs'[p].pc = "record" => procs'[p] = procs[p]
    BY <1>2 DEF Quiet
  <2> QED BY <1>2, <2>1, LocalRunsStep, IndexingQuiet
<1>3. ASSUME NEW p \in Processes, Finalizes(p) PROVE [Next]_vars /\ LocalRuns' /\ Indexing'
  <2>1. [Next]_vars
    BY <1>3 DEF Finalizes, Next, Step
  <2>2. builds' = builds /\ \A q \in Processes : procs'[q].pc = "record" => procs'[q] = procs[q]
    BY <1>3 DEF Finalizes, Shape, TypeOK, Idle
  <2> QED BY <1>3, <2>1, <2>2, LocalRunsStep, IndexingFinalize
<1>4. ASSUME NEW p \in Processes, Stray(p) \/ TriggerLocally(p) PROVE MemoryInv'
  BY <1>4, ShapeOtherwise, ReviewsOtherwise, BuildsFollowOtherwise, HistoryOtherwise, AttendedOtherwise
<1> QED BY <1>1, <1>2, <1>3, <1>4, MemoryMoves

LEMMA MemoryAlways == MemorySpec => []MemoryInv
BY MemoryStart, MemoryKeeps, PTL DEF MemorySpec

\* One production job at a time over the memory too, where one mutex replaces
\* the slot lock.
THEOREM MemoryOneActive == MemorySpec => []OneActiveJob
<1>1. MemoryInv => OneActiveJob
  BY DEF MemoryInv
<1> QED BY <1>1, MemoryAlways, PTL

\* Over the memory a version is left in publishing only by a reused key, and
\* the index by version finds the successful job of whatever was live.
THEOREM MemoryStrandsByReuse == MemorySpec => [](StrandedByReuse /\ HistoryIsIndexed)
<1>1. MemoryInv => StrandedByReuse /\ HistoryIsIndexed
  BY AttendedMeaning DEF MemoryInv, Indexing
<1> QED BY <1>1, MemoryAlways, PTL

\* The memory moves jobs forward only.
THEOREM MemoryJobsForward == MemorySpec => JobsMoveForward
<1>1. MemoryInv /\ [MemoryNext]_memoryVars => [JobStepForward]_vars
  <2> SUFFICES ASSUME MemoryInv, [MemoryNext]_memoryVars PROVE [JobStepForward]_vars
    OBVIOUS
  <2>1. ASSUME [Next]_vars PROVE JobStepForward
    BY <2>1, JobsForward DEF MemoryInv
  <2>2. ASSUME NEW p \in Processes, Finalizes(p) PROVE [Next]_vars
    BY <2>2 DEF Finalizes, Next, Step
  <2>3. ASSUME NEW p \in Processes, Stray(p) \/ TriggerLocally(p) PROVE JobStepForward
    <3>1. jobs' = jobs /\ jobs \in [Keys -> Job]
      BY <2>3, StrayEffects, LocalTriggerEffects DEF MemoryInv, Shape, TypeOK
    <3> QED BY <3>1 DEF JobStepForward, Job
  <2> QED BY <2>1, <2>2, <2>3, MemoryMoves DEF MemoryInv
<1> QED BY <1>1, MemoryAlways, PTL DEF MemorySpec, JobsMoveForward, JobStepForward

\* The service over the memory, which starts a build at every call of the
\* trigger, implements the release slot all the same.
THEOREM MemoryIsASlot == MemorySpec => ImplementsSlot
<1>1. MemoryInit => Slot!Init
  <2>1. ASSUME MemoryInit PROVE ActiveKeys = {} /\ HeldBy = None
    BY <2>1 DEF MemoryInit, Init, ActiveKeys, Active, NoJob, HeldBy
  <2> QED BY <2>1 DEF MemoryInit, Init, Slot!Init, OfferOf
<1>2. MemoryInv /\ [MemoryNext]_memoryVars
        => [Slot!Next]_<<HeldBy, OfferOf(HeldBy), Used, Built, pointer>>
  <2> SUFFICES ASSUME MemoryInv, [MemoryNext]_memoryVars
               PROVE  [Slot!Next]_<<HeldBy, OfferOf(HeldBy), Used, Built, pointer>>
    OBVIOUS
  <2>1. ASSUME [Next]_vars PROVE [Slot!Next]_<<HeldBy, OfferOf(HeldBy), Used, Built, pointer>>
    BY <2>1, SlotStep DEF MemoryInv
  <2>2. ASSUME NEW p \in Processes, Finalizes(p) PROVE [Next]_vars
    BY <2>2 DEF Finalizes, Next, Step
  <2>3. ASSUME NEW p \in Processes, Stray(p) \/ TriggerLocally(p)
        PROVE  [Slot!Next]_<<HeldBy, OfferOf(HeldBy), Used, Built, pointer>>
    <3>1. /\ jobs' = jobs /\ pointer' = pointer
          /\ builds \in [Keys -> {"none", "running"} \cup Terminal]
          /\ \/ builds' = builds
             \/ \E key \in Keys : builds' = [builds EXCEPT ![key] = "succeeded"]
      BY <2>3, StrayEffects, LocalTriggerEffects DEF MemoryInv, Shape, TypeOK
    <3>2. HeldBy' = HeldBy /\ Used' = Used
      BY <3>1 DEF HeldBy, ActiveKeys, Used
    <3>3. OfferOf(HeldBy)' = OfferOf(HeldBy)
      BY <3>1, <3>2 DEF OfferOf
    <3>4. Built \subseteq Built'
      BY <3>1 DEF Built
    <3> QED BY <3>1, <3>2, <3>3, <3>4 DEF Slot!Next, Slot!Build, Used, Built
  <2> QED BY <2>1, <2>2, <2>3, MemoryMoves DEF MemoryInv
<1> QED BY <1>1, <1>2, MemoryAlways, PTL
        DEF MemorySpec, ImplementsSlot, Slot!Spec, Slot!vars, Used, Built

\* Over either stack no version waits for ever: in production it has the job
\* that releases it; in development, where a refused job leaves what it wrote,
\* only a reused key strands one, and a rollback finds what was live.
THEOREM TargetsAttended == RaceSpec => []TargetsStayAttended
<1> DEFINE Inv == /\ stack = "production" => Shape /\ OneActiveJob /\ Claimed
                  /\ stack # "production" => MemoryInv
<1>1. RaceInit => Inv
  BY ShapeInit, ClaimsInit, MemoryStart DEF RaceInit, MemoryInit
<1>2. Inv /\ [RaceNext]_<<memoryVars, stack>> => Inv'
  <2> SUFFICES ASSUME Inv, [RaceNext]_<<memoryVars, stack>> PROVE Inv'
    OBVIOUS
  <2>1. /\ stack' = stack
        /\ stack = "production" => [Next]_vars
        /\ stack # "production" => [MemoryNext]_memoryVars
    BY DEF RaceNext, memoryVars
  <2>2. CASE stack = "production"
    BY <2>1, <2>2, ShapeStep, OneActiveStep, ClaimedStep
  <2>3. CASE stack # "production"
    BY <2>1, <2>3, MemoryKeeps
  <2> QED BY <2>2, <2>3
<1>3. Inv => TargetsStayAttended
  BY ClaimedMeaning, AttendedMeaning DEF TargetsStayAttended, MemoryInv, Indexing
<1> HIDE DEF Inv
<1> QED BY <1>1, <1>2, <1>3, PTL DEF RaceSpec
============================================================================
