------------------------ MODULE DevelopmentPublishing ------------------------
(* The publish service of a development process (main.go,                    *)
(* developmentDependencies): the same service as Publishing, over the        *)
(* repositories in memory, the snapshots in memory and a build trigger whose *)
(* builds have succeeded when they start.  A transaction holds the one mutex *)
(* of the state, so it needs no slot lock; but what it wrote before an error *)
(* stays.  A restart forgets everything and is the initial state again.      *)
EXTENDS Publishing

VARIABLE successful   \* State.successfulByVersion: the key of the last success

memoryVars == <<vars, successful>>

----------------------------------------------------------------------------
\* The methods of memory.PublishRepository that write, inside a transaction
\* or as a statement of their own.

UpdateVersion(id, version) == [versions EXCEPT ![id] = version]

\* A key that has a job is a conflict.
CreatePublishJob(key, job) == [jobs EXCEPT ![key] = IF @ = NoJob THEN job ELSE @]

\* Compare the status, replace the job, and index a success by its version.
UpdatePublishJob(key, expected, status) ==
  IF jobs[key].status = expected
  THEN /\ jobs' = [jobs EXCEPT ![key].status = status]
       /\ successful' = IF status = "succeeded"
                        THEN [successful EXCEPT ![jobs[key].version] = key] ELSE successful
  ELSE UNCHANGED <<jobs, successful>>

SetPublishPointer(job) == pointer' = [version |-> job.version, content |-> job.content]

\* GetSuccessfulPublishByVersion asks the index.
Indexed(id) == successful[id] # None

----------------------------------------------------------------------------
\* The steps of the service that meet the memory.

FindJob(p, key, request) ==
  /\ StartRequest(p, key, request) \/ ResumeRequest(p, key, request)
  /\ UNCHANGED successful

ReadTarget(p) ==
  LET job == procs[p].job
      version == versions[job.version]
  IN
  /\ procs[p].pc = "version"
  /\ procs' = [procs EXCEPT ![p] =
       IF \/ job.op = "publish" /\ version.status = "in_review" /\ version.approved
          \/ /\ job.op = "rollback" /\ version.status \in {"archived", "published"}
             /\ Indexed(job.version)
       THEN [@ EXCEPT !.pc = "snapshot", !.job.content = version.content,
                      !.job.revision = version.revision]
       ELSE Idle]
  /\ UNCHANGED <<versions, jobs, pointer, snapshots, builds, approvals, successful>>

\* The first value of a snapshot's key is kept.
PutSnapshot(p) == SaveSnapshot(p) /\ UNCHANGED successful

\* Mutant of Admissible: the target read before the transaction is trusted.
AdmissibleStale(job) == ActiveKeys = {}

\* createJob's conditions before its first write.
Admissible(job) == ActiveKeys = {} /\ TargetUnchanged(job)

\* createJob freezes the target, then inserts the job.  WithinTransaction does
\* not undo the first when the second is refused.
CreateJobInMemory(p) ==
  LET key == procs[p].key
      request == procs[p].job
  IN
  /\ procs[p].pc = "create"
  /\ Admissible(request)
  /\ versions' = IF request.op = "publish"
                 THEN UpdateVersion(request.version, Admitted(versions[request.version]))
                 ELSE versions
  /\ jobs' = CreatePublishJob(key, NewJob(request))
  /\ procs' = [procs EXCEPT ![p] = IF jobs[key] = NoJob THEN At("trigger", key)
                                   ELSE [@ EXCEPT !.pc = "relookup"]]
  /\ UNCHANGED <<pointer, snapshots, builds, approvals, successful>>

RefuseJobInMemory(p) ==
  /\ procs[p].pc = "create"
  /\ ~Admissible(procs[p].job)
  /\ procs' = [procs EXCEPT ![p].pc = "relookup"]
  /\ UNCHANGED <<versions, jobs, pointer, snapshots, builds, approvals, successful>>

\* Every call of local.BuildTrigger is a new build, and it has succeeded.
TriggerLocally(p) ==
  LET key == procs[p].key IN
  /\ procs[p].pc = "trigger"
  /\ builds' = [builds EXCEPT ![key] = "succeeded"]
  /\ procs' = [procs EXCEPT ![p].pc = "record", ![p].run = "accepted"]
  /\ UNCHANGED <<versions, jobs, pointer, snapshots, approvals, successful>>

RecordRun(p) ==
  /\ procs[p].pc = "record"
  /\ UpdatePublishJob(procs[p].key, "pending", "building")
  /\ procs' = [procs EXCEPT ![p] = Idle]
  /\ UNCHANGED <<versions, pointer, snapshots, builds, approvals>>

\* The transaction of RefreshStatus.  The mutex is held: nothing of it fails.
FinishInMemory(p) ==
  LET key == procs[p].key
      job == jobs[key]
  IN
  /\ procs[p].pc = "finish"
  /\ \/ /\ job.status = "building" /\ TargetMatchesJob(job)
        /\ versions' = Replaced(job.version)
        /\ SetPublishPointer(job)
        /\ UpdatePublishJob(key, "building", "succeeded")
     \/ /\ job.status = "building" /\ ~TargetMatchesJob(job)
        /\ versions' = UpdateVersion(job.version, Released(versions[job.version], FALSE))
        /\ UpdatePublishJob(key, "building", "failed")
        /\ UNCHANGED pointer
     \/ /\ job.status # "building"
        /\ UNCHANGED <<versions, jobs, pointer, successful>>
  /\ procs' = [procs EXCEPT ![p] = Idle]
  /\ UNCHANGED <<snapshots, builds, approvals>>

\* A canceled request is noticed where a transaction begins, a refused target
\* or asset where it is read; the memory and the local trigger do not fail.
AbandonInMemory(p) ==
  /\ procs[p].pc \in {"version", "snapshot", "create", "finish"}
  /\ Abandon(p) /\ UNCHANGED successful

\* memory.ContentRepository does restore the versions of a failed transaction,
\* so an operation of the content service is one step or none.
ContentInMemory(id) ==
  /\ EditContent(id) \/ ApproveContent(id)
  /\ UNCHANGED successful

----------------------------------------------------------------------------
MemoryInit == Init /\ successful = [id \in VersionIds |-> None]

MemoryStep(p) ==
  \/ ReadTarget(p) \/ PutSnapshot(p) \/ CreateJobInMemory(p) \/ RefuseJobInMemory(p)
  \/ LookUpAgain(p) /\ UNCHANGED successful
  \/ TriggerLocally(p) \/ RecordRun(p)
  \/ PollBuild(p) /\ UNCHANGED successful
  \/ FinishInMemory(p) \/ AbandonInMemory(p)

MemoryNext ==
  \/ \E p \in Requests, key \in Keys :
       \/ \E op \in {"publish", "rollback"}, id \in VersionIds, actor \in Actors :
            FindJob(p, key, RequestOf(op, id, actor))
       \/ RefreshStatus(p, key) /\ UNCHANGED successful
  \/ Reconcile /\ UNCHANGED successful
  \/ \E p \in Processes : MemoryStep(p)
  \/ \E id \in VersionIds : ContentInMemory(id)

MemorySpec == MemoryInit /\ [][MemoryNext]_memoryVars

----------------------------------------------------------------------------
\* A rollback finds every version that was live: the index names a successful
\* job of that version, of the content the version still has.
HistoryIsIndexed ==
  \A id \in VersionIds : versions[id].status \in {"published", "archived"} =>
    /\ Indexed(id)
    /\ LET job == jobs[successful[id]] IN
       job.status = "succeeded" /\ job.version = id /\ job.content = versions[id].content

\* A version is left in "publishing" without its job only by a request whose
\* key has meanwhile got a job, and lost it: one of another version, or one of
\* this version that failed because editors had withdrawn it.  A retry of a job
\* that is active or has succeeded strands nothing, although nothing is rolled
\* back.
StrandedByReuse ==
  \A id \in VersionIds : versions[id].status = "publishing" =>
    \/ \E key \in ActiveKeys :
         jobs[key].op = "publish" /\ jobs[key].version = id /\ TargetMatchesJob(jobs[key])
    \/ \E key \in Keys :
         jobs[key].status \in Terminal /\ (jobs[key].version = id => jobs[key].status = "failed")
============================================================================
