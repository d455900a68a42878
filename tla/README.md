# Verification of JianHomePage

TLA+ specifications of the program logic of JianHomePage, their TLC
configurations, and proofs checked by TLAPS. The specifications follow the code
in `src/`; paths below are relative to it, and `server/` stands for
`apps/server/internal/`.

The subject is how content becomes the live site, and who may do it: an editor
logs in, edits a version with its media, has it reviewed and publishes it; the
version is admitted as the one production job, built and deployed by a durable
worker, and named by the publish pointer. Several HTTP requests, a reconciler
goroutine, several server processes, administrators' browsers and remote APIs
take part, and each may stop, retry or answer late.

## The system

| Component | State it keeps | Operations | Talks to |
| --- | --- | --- | --- |
| content service (`server/content`) | versions: status, revision, snapshot, approval | create, clone, update, submit, approve, reject | store |
| domain rules (`server/domain`) | none | `CanTransition`, statuses | used by content and publish |
| publish service (`server/publish`) | jobs, publish pointer, stored snapshots | `Publish`, `Rollback`, `RefreshStatus`, `Reconcile` | content rows, store, build trigger, assets |
| build worker (`server/publisher`) | builds by idempotency key and phase | `Trigger`, `Status`, `Reconcile`, `Recover` | store, Pages, site generation |
| asset library (`server/assets`) | asset rows, objects | create upload, complete, list, delete | object storage, versions that refer to assets |
| authentication (`server/auth`) | sessions, login flows, cached signing keys | login, callback, session check, logout | identity provider, session store |
| PostgreSQL store (`server/store/postgres`) | all tables, advisory locks | compare-and-swap updates, transactions, worker lock | |
| memory store (`server/store/memory`) | the same, in maps under one mutex | the same, publish transactions without rollback | |
| local provider (`server/providers/local`) | files, reservations, snapshots, builds | upload, read, delete, trigger, close | file system |
| other providers (`server/providers`) | remote: deployments, objects | deploy, poll, sign, notify | Pages, S3, EdgeOne |
| server process (`apps/server/cmd/api`) | database pool, blob store, reconciler goroutine | start, serve, reconcile every 15 s, drain, close | all services |
| HTTP API (`server/httpapi`) | none | handlers, decoding, error mapping | services |
| admin workspace (`apps/admin`) | editor, job shown, operation keys, asset list, upload | edit, publish, roll back, watch, page, upload | HTTP API |
| public site (`apps/web`) | audio player | play, pause, resume, toggle, close | browser media |
| schema, site generation, canonical snapshots | none | pure functions | |

How they interact. `content` and `publish` change the same version rows. Content
operations run in one transaction and send the revision the client read;
`publish` changes versions only under the transaction that also changes the job
and locks the production slot. `publish` knows the worker only through
`Trigger(key)` and `Status(build)`. The worker writes its own table only, under
an advisory lock held by a pinned database session, and is the only caller of
the creation request of Pages. The reconciler runs both services' `Reconcile`
in every server process, beside the HTTP requests. A request reaches a service
as the principal of a session cookie, for writes with the token of the page that
sends it. The administrator's page keeps copies of the job, of versions and of
assets, which it replaces with the answers it takes for current. In development
one process has all of it: stores in memory, files in a temporary directory,
builds that succeed at once.

What makes each correct:

- content: who updates holds what it replaces; an approval is of the content the
  reviewer read; published content never changes;
- publish: one active job; exactly the pointed version is published; a version
  frozen for publishing has the job that will release it; the pointer moves only
  with a successful build; an admitted job ends, as its build did;
- worker: one creation request per build; built by the configuration frozen with
  it; reported results agree with the deployment; an unknown outcome is left to
  a person; a queued build ends;
- assets: a row that is ready has its object; media that was published can be
  published again, whatever was deleted since; an asset's URL never changes;
- sessions: nothing acts on a session after its logout was answered, a login
  flow is used once, a session ends with its token, and a key the provider
  withdrew is not accepted for long;
- process: what a process opened is released once its users are gone, and a
  cancelled process ends; files and objects of the development store agree;
- admin workspace and player: a late answer never changes a newer context, a
  retry is the same operation, and reading page by page skips nothing; in the
  player, nothing sounds that the visitor cannot stop.

`PROJECT.json` lists the components with what is modelled of each, and the
hazards of the code at their lines.

## The modules

A module that starts with MC only gives another one a finite instance, or puts
two or three that share no state side by side in one run: it extends them (MCLive
instantiates them), and the first state says which *half* runs. Modules that may
be put side by side prefix their specification (`LoginSpec`, `KeysSpec`,
`DeskSpec`, `ListSpec`, `SiteSpec`). Definitions called a mutant of another one are not used
by any specification; they are plausible bugs that a property of the runs is
known to catch.

### ContentVersions

The version rows and the operations on one version, without a behaviour of its
own. `versions[id]` is a row of `content_versions`; `Absent` is no row. Every
operation of `content.Service` is one transaction ending in a compare-and-swap
on the revision, so it is one action: `Mutate` carries the comparison and
`revision + 1`. A snapshot is a member of `Contents` and stands for its
canonical JSON, checksum and storage key together, which are functions of each
other in the code. `Admitted`, `Promoted`, `Archived` and `Released` are what the
publish service writes to a version in its own transactions.

### ReviewWorkflow

Editors and reviewers (`Clients`) on these versions. `views[c]` is what a client
last read; its next operation sends that revision. `Answered` lets the answer be
lost, so that clients retry with old revisions. `PublishService` is what
`Publishing` does to versions, without its jobs: `Admit`, `Release` and `Promote`,
the last with the version it replaces, which one transaction archives.
`WrittenRevisions` bounds the revisions it writes. `reviewed` is history: what was
on the reviewer's screen.

### Publishing

The publish service. `Processes` are concurrent HTTP requests and the
reconciler; `procs[p].pc` is the step between two database or trigger calls at
which `p` stands, named after the next call. Actions follow the code in order:
`StartRequest` / `ResumeRequest` (`existingJob`), `ReadVersion`, `SaveSnapshot`
(outside any transaction), `CreateJob` / `RefuseJob` (the transaction that locks
the slot, reads the target again and freezes it), `LookUpAgain` (after a
conflict), `SubmitBuild` / `SubmitBuildFails`, `RecordBuild` / `RecordError`,
`PollBuild`, and the finalizing transaction, one action per outcome:
`FinalizeJob`, `FailChangedJob`, `FailJob`, `AlreadyFinished`. `Abandon` stops a
process between any two of them. `EditContent` and `ApproveContent` are the
content service, with any revision a client may hold. `builds` is what the
trigger reports.

A transaction that takes the slot lock, or holds one statement, is one action. A
failed transaction is an `Abandon`: PostgreSQL rolls it back. That a transaction
commits as a whole is assumed of PostgreSQL and not checked; over the development
stores, which roll nothing back, DevelopmentPublishing shows what a refused job leaves.

### DevelopmentPublishing

The same service as a development process wires it
(`cmd/api/main.go:393-422`), on the variables of Publishing and `successful`, the
index of successful jobs that `GetSuccessfulPublishByVersion` asks there.
`FindJob`, `ReadTarget`, `PutSnapshot`, `CreateJobInMemory` / `RefuseJobInMemory`,
`TriggerLocally`, `RecordRun` and `FinishInMemory` are the service's steps over
the methods of `memory.PublishRepository`, which have operators of their own. A
transaction holds the mutex and cannot fail half-way but for one case, in which
nothing is undone: `CreateJobInMemory` freezes the version although the insert of
the job is refused. `local.BuildTrigger` starts another build at every call, so
this stack does not use the trigger as BuildTrigger promises; the ids of those
builds are left out, since every one of them has succeeded.

### ReleaseSlot

What publishing promises, in thirty lines: a slot claimed by one key at a time,
at most once per key, and a live release that changes only when a claim
succeeds, to what was offered when it was claimed and only after that was built.
`Publishing!ImplementsSlot` maps the active key to `claim`, its frozen version and
content to `offer`, the pointer to `live`, the keys with a job to `used` and those
with a successful build to `built`. It holds over both stacks.

### Publisher

The worker. `tasks[key]` is a row of `publisher_builds`; `lock` is the process
whose session holds the advisory lock; `procs` are the worker loops of several
servers and the recovery requests of administrators. `cloud[key]` is the
deployment at Pages of that build and `flying` the creation requests sent but
not yet arrived. The phases of `Reconcile` are separate actions because every
statement commits on its own: `TakeTask`, then by phase `ReportDrift`,
`StartBuild`, `FailBuild`, `PrepareDeployment` (record `submitting`),
`FailPreparation`, `CallCreate`, `RecordDeployed` / `RecordUncertain`,
`ReportUncertain`, `Poll`, `PollFails`, `RecordPoll`. A recovery is `Look` (the
administrator sees the task in the panel and checks Pages), `TakeRecovery` /
`RefuseRecovery`, `Resolve` / `RefuseResolution`. The environment stops
processes, breaks sessions (`LoseSession`), restarts a server with another
configuration, delivers or loses a creation request and ends a deployment.

`Verified` is the one assumption about people: who confirms that nothing was
created has looked at Pages and no request is under way, and who names a
deployment names one that exists, though perhaps that of another build.
`apps/server/README.md:237-255` asks for this.

### BuildTrigger

What `publish` may assume of the trigger: one build per key, one running at a
time, a result that never changes. `Publisher!ImplementsTrigger` shows that the
worker provides it. The environment of Publishing (`Enqueued`, `BuildEnds`) takes
it for granted; that the worker in its place is such an environment is what EndToEnd
shows (`PartsAsSpecified`).

### EndToEnd

A production site as `buildProductionDependencies` wires it (`cmd/api/main.go:286-320`):
the actions of ReviewWorkflow, Publishing and Publisher over one database. The
version rows are one variable, changed by `People` (the clients of ReviewWorkflow)
and by `Publish` (the publish service). `builds` of Publishing is no variable here
but `Reported`: what `Status` answers about the worker's own `tasks`. `Trigger`
queues a task in the step of the publish service that calls it, with the
configuration of the server that handles the call; `Build` is every step of the
worker, of its recovery and of Pages. `JobKeys` and `HttpRequests` are the `Keys` and
`Requests` of Publishing. What a module alone leaves to its environment
is gone: `EditContent` and `ApproveContent` of Publishing are here what a client does
with what it has read, `BuildEnds` is a worker that records a result, and
`PublishService` of ReviewWorkflow is the service with its jobs.

`LiveWasReadAndBuilt` is what the whole is for, and no part can say: what the pointer
names is the content its reviewer had on the screen, and Pages reports the
deployment made of it as a success. `PartsAsSpecified` says that each of the three
modules describes its part of the whole, so that what they show alone holds here.

### PublishDesk

One administrator's page as it publishes, rolls back and retries: `call` is its
one write (`busy`), `poll` the one status read of the monitor, `opKeys` and
`retryKeys` the keys that make a repeated press the same operation, `view` the
job it shows. A write that the page has given up may still reach the server
(`late`, `LateHandled`). The API is what Publishing does, in one step per write;
other administrators create jobs too, and jobs end. `SessionEnds`, `SignIn`,
`SignOut` and `Reload` are the ends and beginnings of what the page may remember.
`refreshPublish`, which the studio page does not use, and the recovery form are
left out.

### Assets

The media library. `rows[id]` is a row of `assets`, `objects` the bucket and
`signed` the uploads whose URL has not expired. `procs` are concurrent requests;
their steps are separated where the code calls the object store or leaves a
transaction: `StartComplete`, `StatUpload`, `ResolveUrl`, `FinishUpload` or
`RepairUrl` (`CompleteUpload`), `StartList`, `EnsureUrl` (`List`), `StartDelete`,
`MarkDeleted`, `DeleteObject` (`Delete`), and `StartPublish`, `StatReference`: the
publish service's validation of one media reference. `Abandon` ends a request
between any two of them. A URL is the public base it was made from, the rest of
it being a function of the asset. `answers` and `published` are history.

`CreateWithoutUrl` and `CompleteWithoutUrl` are instances that do not know
`source_url`, which may run during a rolling upgrade. `EndUpgrade` is the duty of
the operators in `apps/server/README.md:275-276`: the public base is changed only
when no such instance is left and every row has its URL. A signed upload stores
only the object that was declared, which the signature makes the object store
enforce.

### AssetLibrary

The asset list of the admin page (`useAssetWorkspace.ts`) over the pages of
`GET /api/v1/assets`. `listing` is the last list call, handled by one statement
(`ListHandled`: the rows of the filter after the cursor in descending order of
creation time and id, one more than the page to know whether there is a next)
and taken in later (`ListArrives`); `older` is an answer on its way to a call
that was replaced. The upload of the page is completed, confirmed and taken in
(`FinishUpload`) while list calls are in flight, other pages create, complete and
delete assets, and the filter changes. A cursor is the asset it names: its
creation time and id never change, though its row may be gone from the filter.
`since` and `confirmed` are history. `Overtaken` names the one asset that is not
shown although it matches: under the filter of deleted assets, `finishUpload`
drops an upload that was deleted before this page was told that it is ready.

### Sessions

Login and cookie sessions (`server/auth/session.go`). `tabs[t]` is a tab of the
browser, the session its page was loaded under and the request it waits for,
whose steps are `CheckFlow`, `SpendFlow`, `Exchange`, `Enrich`, `ReplaceSession`
and `CreateSession` (the callback), `AcceptLogout` and `Revoke`, `LoadPage`.
Any other request reads its session once, changes nothing and is left out. `jar`
is what the tabs share. A flow's number stands for its
state, nonce and verifier, which nobody can guess. `StoreFails` fails a statement
before or after it took effect; `Abandon` loses an answer; `Tick` lets flows,
tokens and sessions expire.

### SigningKeys

The cache of the provider's signing keys in one server (`server/auth/oidc.go:255-360`),
which holds its mutex during a fetch. The provider rotates its keys at any time
and fails at any time; tokens name any key, also keys that never were.

### LocalBlobs

The development blob store (`server/providers/local/blob.go`), one step per
section under `store.mu` or between two calls of the file system: reserving,
checking, writing a temporary file, publishing it as an object, settling the
reservation; reading; deleting; and `Close`, which marks the store, waits for the
counted operations and removes the directory. A connected client may take for
ever (`TransferEnds`), a disconnected one may not. Removing the directory is assumed
to succeed: `Close` hands its error to `run`, which reports it and goes on.

### ServerProcess

`run` of `cmd/api/main.go` around LocalBlobs: opening and setting up with a
failure at any step, the reconciler goroutine, requests, a signal or a listener
that fails, the drain and its timeout, and the deferred clean-up in its order. A
process that exited starts again. Closing the database is assumed to succeed too.

### AudioPlayer

The preview player of the public site. An element is named by the media
generation that made it. `Play`, `Pause`, `Resume`, `Toggle`, `Move` and `Close`
are the functions of the controller up to their first `await`; the code after an
`await` and the listeners are `Deliver`, which takes the next task of an element's
queue. The browser (`Start`, `ReadMetadata`, `Fail`, `Refuse`, `End`) follows the
HTML standard as far as the player can tell: promises of `play()` settle together
and in order with the events, pausing or reloading rejects them, and setting `src`
drops queued events. The position inside a track (`seek`) and the contents of the
queue are left out. So is a browser that pauses an element by itself: the player
has no listener for it and its button would not follow.

### The modules of proofs

`Publishing_proofs` (Publishing and DevelopmentPublishing), `ReviewWorkflow_proofs`,
`Publisher_proofs`, `EndToEnd_proofs`, `Assets_proofs`, `Studio_proofs` (Sessions,
SigningKeys and, with ReviewWorkflow, MCStudio), `ServerProcess_proofs` (with
LocalBlobs) and `Pages_proofs` (PublishDesk, AudioPlayer, AssetLibrary and MCPages)
hold the theorems, see below.

## The runs

| Run | Question | Bounds |
| --- | --- | --- |
| `assets` | Do uploads, deletions, URL repair and publishing race safely, during and after an upgrade? | 2 assets, 2 public bases, 3 requests |
| `studio` | Are reviews and updates of concurrent clients sound? Do logins, logouts and reloads of two tabs keep sessions sound? Do key rotations and outages? | 2 versions, 2 contents, 2 clients, revisions to 6; 2 tabs, 2 logins, time to 2; 2 keys, time to 7 |
| `publish_race` | Do concurrent requests and the reconciler keep one job, in order, over either stack? Does publishing implement the slot there? | 2 versions, 2 keys, 2 requests + reconciler, 1 content; revisions to 6, edited to 4 in production |
| `publish` | Is what is served what was reviewed, through edits, publish, publish again and rollback? Does a job end as its build did? | 2 versions, 2 contents, 3 keys, 1 request + reconciler, revisions to 5 |
| `live` | Does every admitted job end, every queued build, and every wait of the player? | 1 version, 2 keys, 1 request + reconciler; 2 builds, 1 server, 1 administrator, breaking sessions; 2 tracks, 3 presses |
| `publisher` | Do crashes, broken sessions and upgrades keep the worker safe? Does it implement the trigger? | 2 builds, 2 configurations, 2 servers, 1 administrator |
| `server` | Does a process release what it holds, in order, and end? Do files and objects agree? Is what is live what was read, and was it built? Do the parts of a site fit? | 2 requests at a time, 1 object, restarts for ever; 1 version, 2 contents, 1 client, 1 key, 1 request + reconciler, 1 server, revisions to 4 |
| `pages` | Does only the shown track sound, and does the button tell the truth? Are retries one operation, and late answers harmless? Does paging skip nothing? | 2 tracks, 4 presses; 1 version, 2 keys, 2 jobs, 1 sign-out or reload; 2 assets of one creation time, pages of 1, 2 uploads, 4 filters |
| `publishing_unfrozen` | Is a target frozen while it is published? No. | 2 versions, 1 key |
| `publishing_stranded` | Has a version in publishing its job in development? No. | 2 versions, 1 key, 2 requests |
| `publisher_unlocked` | Does every step of the worker happen under its lock? No. | 1 build, 1 server |
| `desk_keys` | Is an operation's key kept until its job ended? No. | 1 version, 2 keys, 2 jobs |

Some properties are conjunctions of named parts, each stated beside its code:
`SessionsEnd` (`SessionEndsWithToken`, `ReplacedIsRevoked`, `LogoutIsFinal`),
`KeysFollowTheProvider` (`OldKeysOnlyInOutages`, `NewKeysSoonFound`),
`TargetsStayAttended` (`PublishingHasJob` in production, `StrandedByReuse` and
`HistoryIsIndexed` in development), `ResultsAreReal`
(`ResultIsTheDeployments`, `FailedBuildStaysOff`), `FilesMatchObjects`
(`ObjectsReadable`, `NoOrphanFile`, `RetiredStaysAway`), `ReleasedInOrder`
(`StoresOutliveUsers`, `DirectoryOutlivesUse`, `NothingLeft`), `OneKeyPerAttempt`
(`RetriedOnce`, `EndedKeyIsForgotten`) and `ShownIsCurrent` (`ShownMatchesFilter`,
`ReadyStaysReady`).

Why the bounds suffice. Every race of the publish service is between two
processes over one slot, so two requests and the reconciler make each of them;
a third key gives publish, publish, rollback, the shortest history in which the
pointer returns to a version it left. Two contents are enough to tell what was
reviewed from what was not. `MaxRevision` stops content operations only, never a
step of the publish service; six covers create, update, submit, approve, admit,
release and another round, and it is what a version needs to be withdrawn from its
job and approved again. In `publish_race` the last revision of editors in
production is lower (`ProductionEdits`): the lost and late answers of the
trigger are what that half is about. In the worker two servers and two
configurations make a drift, and a second build is what a wrong recovery could
bind. In the library three requests let a completion, a deletion and a publish
(or two views of a missing URL and a repair) overlap on one asset; assets do not
interact, the second shows it. A second login is what replaces a session, and two
tabs are two callbacks of one flow, or a stale page beside a new login; two units
of time let a flow expire before a session and a token before or with it. The key
cache runs to the seventh second with a lifetime of four, a cooldown of two and a
fetch of one, so that two fetches, a rotation and an outage fit. Two uploads, or
an upload and a deletion, of one object are all that meet in the blob store. The
whole site is small, one version and one build with crashes, a broken session and a
creation request that is lost: it is there to show that the parts fit and that the
pointer is reached, each part has larger bounds in its own run, and what is said of
the whole is proved for every size. Four revisions are create, update, submit and
approve; what the publish service writes has no bound. Two assets of one creation
time are read in two pages, so that the cursor's id has to
break the tie and the asset it names may be gone. In the player four presses give
two switches with a pause, resume or close among them (three in `live`, two plays
and an interruption); on the desk two jobs are
an old and a new one of one operation. Identifiers are symmetric in most
safety runs (the configurations say which), never in runs with liveness.

`CHECK_DEADLOCK FALSE` except in `server`: keys, version ids and presses are used
up, after which a system with nothing to do rests. That it does not rest too
early is what the liveness properties state. A server process restarts and never
rests, so there a deadlock would be an error; the site beside it may rest
(`ServerNext`).

### Fairness

`Publishing!Fairness` assumes nothing of HTTP requests. The reconciler ticks
every 15 seconds for the life of the process (`cmd/api/main.go:424-445`) and
retries whatever failed, so `Reconcile` is weakly fair, and each of its calls
that is possible again and again succeeds in the end (strong fairness: no outage
recurs at the same call forever). The worker ends every build, which is
`BuildsEnd` of Publisher.

`Publisher!Fairness` is the same for the worker loop. It further assumes that
sessions break, and administrators name a wrong deployment, finitely often; that
a process whose session broke returns; that Pages decides about what it received;
and that an administrator resolves an uncertain submission rightly in the end,
because no action of the worker leads out of that state.

`ServerProcess!Fairness` schedules the main goroutine, the reconciler and
handlers that wait for no client. A transfer ends only for a client that the
server has disconnected; a connected one may be slow for ever. The reconciler's
`select` may take the timer although the context is cancelled, but not always
(strong fairness of `LoopReturns`).

`AudioPlayer!Fairness` assumes that the browser answers every `play()` and runs
every queued task, as the HTML standard has it, and nothing of the visitor. The
desk and the asset list assume no fairness at all, nor does EndToEnd. In `live` and
`server` each half has its own fairness only.

### What disagrees with the documentation

- `publishing_unfrozen`: a version that is being published can be submitted for
  review (`server/content/service.go:176`), since `CanTransition` has a row
  publishing → in_review for the release of a failed job. The version leaves its
  job, which then fails although the deployment may already be live. The README's
  "PostgreSQL 冻结发布目标" and the test that calls a publishing version frozen say
  otherwise. What does hold is `TargetFrozenOrWithdrawn`: the version is back
  with its editors, it is never swapped for another; and `JobsEndAsBuilt`: no other
  job ends otherwise than its build did.
- `publisher_unlocked`: "Reconcile advances a task while holding the
  cross-process publishing lock" (`server/publisher/publisher.go:222`) is not true
  of the creation request once the lock's session has broken. The statement that
  follows is refused, so the table stays right (run `publisher`, with breaking
  sessions), but the request is out. `FailedBuildStaysOff` therefore is stated
  for histories without broken sessions and changed configurations (`steady`).
- `desk_keys`: the monitor settles the key of an operation with any ended job of
  that version and operation (`useAdminWorkspace.ts:106`), also with an older one.
  A publish is sent and its answer lost; a poll that read the latest job before the
  write took effect shows the older job's end; the key goes, and the next press
  makes a second job although "重试响应丢失后复用同一键" (`admin-workspace.test.ts:140`).
  The server admits one job at a time, so the second press is refused while the
  first job runs, but it publishes again afterwards. Keys of retries are not
  affected (`RetriedOnce`, a part of `OneKeyPerAttempt`).
- `publishing_stranded`: `createJob` freezes the version and then inserts the job;
  the memory store does not undo the first when the second is refused
  (`server/store/memory/store.go:247`). It takes a request whose key was given a
  job after the request found none: a job of another version, or one of the same
  version that editors withdrew while it was published, and approved again, so
  that the job failed. `StrandedByReuse` (in `TargetsStayAttended`) shows that
  nothing else strands a version: a retry while its job is active, or after it has
  succeeded, does not. The second way was found by its proof, at one revision more
  than the run then allowed.

Observed while modelling, without a property of their own: when a write is
answered with a job that has ended and the reads after it fail, nothing repeats
those reads (`EndIsSynced` excepts it); a poll that was under way when the same
key is pressed again may show the job a step earlier for a moment; `clear()` of
the workspace forgets the keys of retries and not those of operations, which the
next user's press of the same operation then reuses.

## The proofs

Eight modules of proofs, for every number of versions, contents, clients, keys,
requests, servers, assets, pages, tabs and tracks, and every bound; alone, for the
runs that put components side by side, and for the whole site.

| Module | Theorem | Statement |
| --- | --- | --- |
| `Publishing_proofs` | `TypeCorrect` | `Spec => []TypeOK` |
| | `OneActive` | `Spec => []OneActiveJob` |
| | `PublishedPointer` | `Spec => []PublishedIsPointer` |
| | `PublishingClaimed` | `Spec => []PublishingHasJob` |
| | `JobsOnlyForward` | `Spec => JobsMoveForward` |
| | `ServesReviewed` | `Spec => []PointerServesReviewedContent` |
| | `FrozenOrWithdrawn` | `Spec => []TargetFrozenOrWithdrawn` |
| | `HistoryPublished` | `Spec => []HistoryIsPublished` |
| | `BuildsForActive` | `Spec => []BuildsServeTheActiveJob` |
| | `JobsEndLikeBuilds` | `Spec => JobsEndAsBuilt` |
| | `PublishingIsASlot` | `Spec => ImplementsSlot` |
| | `MemoryOneActive` | `MemorySpec => []OneActiveJob` |
| | `MemoryJobsForward` | `MemorySpec => JobsMoveForward` |
| | `MemoryStrandsByReuse` | `MemorySpec => [](StrandedByReuse /\ HistoryIsIndexed)` |
| | `MemoryIsASlot` | `MemorySpec => ImplementsSlot` |
| | `TargetsAttended` | `RaceSpec => []TargetsStayAttended` |
| `ReviewWorkflow_proofs` | `TypeCorrect` | `Spec => []TypeOK` |
| | `ApprovalsAreInformed` | `Spec => []ApprovedContentWasRead` |
| | `RevisionsNameContent` | `Spec => []RevisionNamesContent` |
| | `NoUpdateIsLost` | `Spec => NoLostUpdate` |
| | `PublishedIsFinal` | `Spec => PublishedContentIsFinal` |
| `Publisher_proofs` | `TypeCorrect` | `Spec => []TypeOK` |
| | `OneCreation` | `Spec => []NoSecondCreation` |
| | `FrozenTargets` | `Spec => []BuiltByFrozenTarget` |
| | `RealResults` | `Spec => []ResultsAreReal` |
| | `WorkerImplementsTrigger` | `Spec => ImplementsTrigger` |
| `Assets_proofs` | `TypeCorrect` | `Spec => []TypeOK` |
| | `ReadyIsStored` | `Spec => []ReadyHasObject` |
| | `PublishedMediaIsKept` | `Spec => []PublishedMediaStays` |
| | `UrlIsFrozen` | `Spec => []AnsweredUrlIsFinal` |
| | `DeletedForGood` | `Spec => DeletionIsFinal` |
| `EndToEnd_proofs` | `PartsGoOn` | `SiteSpec => PartsAsSpecified` |
| | `LiveIsReadAndBuilt` | `SiteSpec => []LiveWasReadAndBuilt` |
| | `PartsStaySafe` | `SiteSpec =>` what was proved of the parts |
| `Studio_proofs` | `LoginTypeCorrect` | `LoginSpec => []LoginTypeOK` |
| | `ExchangedOnce` | `LoginSpec => []FlowSpentOnce` |
| | `EndIsFinal` | `LoginSpec => []SessionsEnd` |
| | `KeysTypeCorrect` | `KeysSpec => []KeysTypeOK` |
| | `KeysFollow` | `KeysSpec => []KeysFollowTheProvider` |
| | `StudioTypeCorrect` | `StudioSpec => []StudioTypeOK` |
| | `StudioCorrect` | `StudioSpec =>` the other properties of the run |
| `ServerProcess_proofs` | `TypeCorrect` | `Spec => []TypeOK` |
| | `FilesFollowObjects` | `Spec => []FilesMatchObjects` |
| | `ReleasesInOrder` | `Spec => []ReleasedInOrder` |
| `Pages_proofs` | `DeskTypeCorrect` | `DeskSpec => []DeskTypeOK` |
| | `RetriedWithOneKey` | `DeskSpec => []OneKeyPerAttempt` |
| | `EndsAreSynced` | `DeskSpec => []EndIsSynced` |
| | `ShownIsAskedFor` | `DeskSpec => ShownWasAskedFor` |
| | `TypeCorrect` | `Spec => []TypeOK` |
| | `OnlyShownSounds` | `Spec => []OneSounding` |
| | `ButtonTellsTruth` | `Spec => []ButtonIsTrue` |
| | `ListTypeCorrect` | `ListSpec => []ListTypeOK` |
| | `PagingSkipsNothing` | `ListSpec => []NothingSkipped` |
| | `ListIsCurrent` | `ListSpec => []ShownIsCurrent` |
| | `PagesTypeCorrect` | `PagesSpec => []PagesTypeOK` |
| | `PagesCorrect` | `PagesSpec =>` the other properties of the run |

The assumptions are those the modules name: `PublishingAssumption`,
`NoContentAssumption`, `MaxRevisionAssumption`, `PublisherAssumption`,
`AssetsAssumption`, `LocalBlobsAssumption` and `AudioPlayerAssumption`, and, for
modules that are put side by side, `Parameters` (ReviewWorkflow), `LoginParameters`,
`KeysParameters`, `DeskParameters` and `ListParameters`, which `StudioAssumption` and
`PagesAssumption` put together. `EndToEndParameters` implies what the parts of
EndToEnd assume (`PartsAssumptions`) and is `ServerAssumption`. Nearly all say that a null
value is none of the real ones and that a bound is a number. Three say more: the
cooldown between two fetches of the signing keys is positive and not longer than
their lifetime (`server/auth/oidc.go:28-29`), a page of the asset list holds at
least one asset, and assets are finite and their identifiers ordered (numbers). TLC
evaluates all of them on the instances of the runs.

Publishing. `Shape` is `TypeOK` with three facts that make it inductive: a busy
process has a key (`BusyHasKey`), a job names a version (`JobHasVersion`), and so
does the job a process is about to create (`RequestHasVersion`). Without them a
step could write outside the tables. `PublishedIsPointer` and `OneActiveJob` are
each inductive together with `Shape`. `PublishingHasJob` is not: the step that ends
a job releases or publishes the target of that job, which is the frozen version
only if no other job is active; so it is proved with `OneActiveJob`, in the form
`Claimed` that spells `TargetMatchesJob` out for a publish. What is released needs
more (`Faithful`): an approval is of the content the version has and survives until
editors get it back (`Reviewed`), a snapshot is stored before its job (`Stored`),
the build of a key is never behind its job (`BuildsFollow`), and a job that
succeeded has a build that did (`SuccessIsBuilt`). `JobsEndAsBuilt` is then about one
step: what ends a job has polled its build (`EndsPolledBuild`), and the target that
no longer matches is one its editors withdrew (`TargetFrozenOrWithdrawn`), which a
rollback's never is. The slot is refined
step by step: creating a job claims it, its finalizing transaction succeeds or
fails, and everything else is a stutter or adds to `built`.

DevelopmentPublishing. Every step over the memory but two is a step of Publishing
(`MemoryMoves`): the index finds a success whenever the database would
(`Indexing`), a local build has succeeded when it is there (`LocalRuns`), so
reading the target, recording and finishing agree. So all that was proved of those
steps is used again. The two others are `Stray`, which freezes a version for a
refused job, and `TriggerLocally`. That a stray version is one of `StrandedByReuse`
rests on `SucceededIsLive`: the target of a job that succeeded stays published or
archived, and can not be frozen again.

Publisher. The inductive invariant `Durable` adds to the shape of the rows and of the
processes: nothing of a build is on Pages or on its way before its one request, and
only one worker stands between recording `submitting` and sending it (`AskedOnce`);
from the comparison with the frozen target to the request the worker keeps its
configuration and the row its target (`BuildsFrozen`); what was read of an ended
deployment is still so (`ResultsHold`); one build is active (`OneTask`); a recovery
is of a submission (`LookedAt`); and, as long as the history is `steady`, one
process works at a time and the recoveries and rows are right (`Steady`). A task that
succeeded names a deployment that Pages serves (`SuccessIsDeployed`). Every step
of a process writes no row but that of the task it holds the lock for, which moves
forward (`RowsKept`, `RowMoves`): each conjunct is shown to survive any such step.

ReviewWorkflow. The invariant `IInv` adds to the type that each row is sound (a
row that is absent is empty, one that is there has a snapshot, a draft is not
approved), and that views were once true: a client holds at most the current
revision, and if it holds the current one it holds the current content. That is
what makes `ApprovedContentWasRead` inductive, since an approval compares
revisions and not contents. Every operation is an *edit*: one row goes to its next
revision. What an edit keeps is proved once, and each operation shown to be one;
the two action properties follow from `IInv` and the same lemmas. `NoLostUpdate`
speaks of the client that updates: its revision is compared, and by `IInv` its
content is then that of the version.

EndToEnd. The parts share what they write, so the proof goes in a circle that the
invariants break. `Joint` is the three inductive invariants together (`Faithful` of
Publishing, `Durable` of Publisher, `IInv` of ReviewWorkflow). Under it every step
of the whole is a step of each part, or a stutter: a client's operation is an
`EditContent` or an `ApproveContent`, since a view is of a revision that exists and
names one content (`ViewsName`); what the service writes to versions is an `Admit`,
a `Release` or a `Promote`, since it changes only targets of its jobs
(`CreateAdmits`, `EndReleases`, `EndPromotes`); and what the worker does to its table
is seen by the service as nothing or as a `BuildEnds` (`WorkerEnds`). So each
invariant survives every step by the step lemma of its own module, cited through
INSTANCE, and `Joint` is inductive (`JointStep`). That gives `PartsGoOn`, and with it
the theorems of the parts hold in the whole (`PartsStaySafe`). `LiveIsReadAndBuilt`
joins their ends: the pointer is of a job that succeeded, its build was reported as a
success (`SuccessIsBuilt`), so the worker's task has a deployment that Pages serves
(`SuccessIsDeployed`); its content is the version's, which is approved, and was on the
screen of the reviewer.

Assets. `IInv` is the type, that an absent asset has no object, signature, answer
or reference, the three safety invariants together, and `Knows(proc)` for each
request: what its step has read that is still true when it takes the next one, for
example that the URL it is about to write is the row's if the row has one. Every
step `Moves` the library: rows only go forward, a URL once set stays, and an object
disappears only if its row is deleted and not retained. Each conjunct of `IInv` is
shown to survive any such move, and each action to be one.

Sessions. A flow is `Over` when it was spent and no request will write its session
any more; a session that has a row or is in the cookie is of a flow that is over, and
so is one that was left for good (`WrittenIsOver`). One request acts on a flow
(`OneActs`), and `Carries` is what it relies on at each of its steps. Each action
`Moves(t)`, and `Carries` is shown to survive the moves of the others. SigningKeys.
`KeysInv` relates the four times of the cache: a fetch under way is the last attempt
(`Fetching`), a cached key that was withdrawn was published when its document was
read (`Cached`), and after an attempt a published key is either cached, or was
published later, or the attempt failed (`Tried`).

ServerProcess and LocalBlobs. `OwnFiles`, `InDirectory` and `Spent` say which upload a
file without an object belongs to; `Modes`, `Phases` and `Closes` say, for where `run`
and `Close` stand, who may still run and what is released.

PublishDesk. A key was drawn for one operation of one version or for the retry of
one job, wherever it is: held by the page, on the wire, given up, or in a job
(`KeyOwners`). `Retries` says that a retried job keeps its retry's key until a job was
made of it, and is never shown again after that. Steps other than a press draw no
key (`Passes`), so both survive them. `Synced` names the ways in which the reads after
an ended job are still due.

AudioPlayer. `Told` is what `ButtonIsTrue` says before the browser has told all: the
last task that will set the status sets it to what the element does. It is
inductive with `Answers`, that a pending `play()` of the element in use belongs to the
present request, and `Disused`, that an element that was disposed of is silent and
its answers are stale. Setting `src` drops the events of the queue and keeps the
settled promises (`Promises`, a recursive function over the queue); what it keeps is
proved by a least counterexample (`LeastNumber`), since the induction theorems of the
library can not be applied here.

AssetLibrary. `Brings` says what the answer under way owes: of a first page all
that matched since it was asked for, of a later one what is after the cursor; it
has it, or leaves it after its next cursor, or the page has noted it
(`uploadsDuringList`). The order of creation time and id is total, and a page is
shown to be its beginning by counting the assets before each one.

Each step proof has one case per action; what a family of actions has in common
is a lemma. `RevisionsNameContent`, `PublishedIsFinal`, `DeletedForGood` and some type
invariants are proved and in no run: the proof says more than a small instance
would.

The type invariants of Publisher and of ServerProcess are in no run for the same
reason. Not proved, and model-checked on the instances above, is liveness (`JobsEnd`,
`BuildsEnd`, `ShutdownEnds`, `LoadingEnds`), which is out of reach of the provers.

## Not modelled

Pure computation and I/O: JSON canonicalisation and validation, rendering of the
site, signing of uploads, verification of tokens and encryption of cookies, role
tables, HTTP decoding, configuration, logging, migrations. The asset validation
before a publish is a step that may fail. The notification after a publish
changes no state.

Of the admin workspace the editor's text with its import and export, the list of
versions (guarded like the list of assets) and the recovery form are left out; of
the public site everything but the player.

EndToEnd is the composition of the production environment; the browser pages and
the asset library are not in it. The panel's view of a task whose servers have
several configurations is not checked: `Look` is that of servers that agree.
