----------------------------- MODULE PublishDesk -----------------------------
(***************************************************************************)
(* One administrator's page publishes and rolls back versions              *)
(* (useAdminWorkspace, usePublishMonitor, the operation keys of            *)
(* idempotency.ts) through an API whose answers may be late or lost, while *)
(* other administrators use it too.                                        *)
(*                                                                         *)
(* The page makes one write at a time (busy) and one status read           *)
(* (the monitor aborts a read it no longer wants, and would not know its   *)
(* answer).  What the API does with a write is one step here: Publishing   *)
(* has its steps.                                                          *)
(***************************************************************************)
EXTENDS Naturals, Sequences

CONSTANTS Versions,
          MaxKeys,  \* keys the page draws
          MaxJobs,  \* jobs of all administrators
          MaxLives  \* sign-outs and reloads of the page

DeskParameters == {MaxKeys, MaxJobs, MaxLives} \subseteq Nat

VARIABLES
  released,    \* the server's status of each version
  jobs,        \* the server's jobs in the order they were created
  call,        \* the page's write: request, and where it stands
  late,        \* writes that the page has given up and the server has not seen
  poll,        \* the status read under way (refreshing)
  signed,      \* session.active
  view,        \* publishJob: the job shown, as it was read
  opKeys,      \* operationKeys, 0 for none
  retryKeys,   \* retryKeys by failed job, 0 for none
  lastKey,     \* keys drawn so far
  syncPending, \* of the monitor
  error,       \* of the monitor
  life,        \* history: sign-outs and reloads so far
  unread       \* history: the page shows a job's end and has not read its versions

server == <<released, jobs>>
keyring == <<opKeys, retryKeys, lastKey>>
monitor == <<syncPending, error, unread>>
deskVars == <<server, call, late, poll, signed, view, keyring, monitor, life>>

Ops == {"publish", "rollback"}
JobIds == 1 .. MaxJobs
KeyIds == 0 .. MaxKeys
Ended(status) == status \in {"succeeded", "failed"}
NoJob == [job |-> 0, status |-> "none"]
NoCall == [op |-> "none", version |-> "none", key |-> 0, of |-> 0, life |-> 0, net |-> "none", seen |-> NoJob]

Busy == call # NoCall
NoPoll == [first |-> FALSE, latest |-> FALSE, expected |-> 0, life |-> 0, at |-> "none", seen |-> NoJob]
Fetching == poll # NoPoll
\* While the page initializes, it shows no button.
Idle == signed /\ ~Busy /\ ~poll.first
Request(op, v, key, of) ==
  [op |-> op, version |-> v, key |-> key, of |-> of, life |-> life, net |-> "wire", seen |-> NoJob]
Read(latest) == [first |-> FALSE, latest |-> latest, expected |-> view.job, life |-> life, at |-> "wire", seen |-> NoJob]

DeskInit ==
  /\ released = [v \in Versions |-> "approved"] /\ jobs = <<>>
  /\ call = NoCall /\ late = {} /\ poll = NoPoll
  /\ signed = FALSE /\ view = NoJob
  /\ opKeys = [o \in Ops |-> [v \in Versions |-> 0]] /\ retryKeys = [j \in JobIds |-> 0] /\ lastKey = 0
  /\ syncPending = FALSE /\ error = FALSE
  /\ life = 0 /\ unread = FALSE

(***************************************************************************)
(* The API: createPublish and createRollback, and the end of a job.        *)
(***************************************************************************)
Seen(j) == [job |-> j, status |-> jobs[j].status]
Answered(seen) == call' = [call EXCEPT !.net = "answered", !.seen = seen]
ByKey(key) == {j \in DOMAIN jobs : key # 0 /\ jobs[j].key = key}
Admissible(op, v) ==
  /\ \A j \in DOMAIN jobs : Ended(jobs[j].status)
  /\ released[v] \in (IF op = "publish" THEN {"approved"} ELSE {"published", "archived"})

Create(r) ==
  /\ Admissible(r.op, r.version) /\ Len(jobs) < MaxJobs
  /\ jobs' = Append(jobs, [key |-> r.key, op |-> r.op, version |-> r.version,
                           of |-> r.of, status |-> "active"])
  /\ released' = IF r.op = "publish" THEN [released EXCEPT ![r.version] = "publishing"] ELSE released

\* The key finds its job, else a job is created.  A refusal changes nothing on
\* the server and is a failed call to the page, as a lost request.
CallHandled ==
  /\ call.net = "wire" /\ call.op \in Ops
  /\ \/ \E j \in ByKey(call.key) : Answered(Seen(j)) /\ UNCHANGED server
     \/ ByKey(call.key) = {} /\ Create(call) /\ Answered([job |-> Len(jobs) + 1, status |-> "active"])
  /\ UNCHANGED <<late, poll, signed, view, keyring, monitor, life>>

\* A write the page no longer waits for arrives after all; repeated or refused
\* it changes nothing.
LateHandled(r) ==
  /\ r \in late /\ late' = late \ {r}
  /\ ByKey(r.key) = {} /\ Create(r)
  /\ UNCHANGED <<call, poll, signed, view, keyring, monitor, life>>

OtherAdministrator(op, v) ==
  /\ Create([op |-> op, version |-> v, key |-> 0, of |-> 0])
  /\ UNCHANGED <<call, late, poll, signed, view, keyring, monitor, life>>

JobEnds(j, status) ==
  /\ jobs[j].status = "active"
  /\ jobs' = [jobs EXCEPT ![j].status = status]
  /\ released' =
       IF status = "succeeded"
       THEN [v \in Versions |-> IF v = jobs[j].version THEN "published"
                                ELSE IF released[v] = "published" THEN "archived" ELSE released[v]]
       ELSE IF jobs[j].op = "publish" THEN [released EXCEPT ![jobs[j].version] = "approved"] ELSE released
  /\ UNCHANGED <<call, late, poll, signed, view, keyring, monitor, life>>

(***************************************************************************)
(* Writes: publish, rollback, retryPublish and runPublishJob.  An edit     *)
(* stands for every other write that makes the page busy.                  *)
(***************************************************************************)
\* settle: the key of the operation and version of an ended job.
Settle(seen) ==
  LET op == jobs[seen.job].op
      v == jobs[seen.job].version
  IN IF Ended(seen.status)
     THEN opKeys' = [opKeys EXCEPT ![op][v] = 0]
     ELSE UNCHANGED opKeys

Press(op, v) ==
  /\ Idle
  /\ IF opKeys[op][v] # 0
     THEN call' = Request(op, v, opKeys[op][v], 0) /\ UNCHANGED <<opKeys, lastKey>>
     ELSE /\ lastKey < MaxKeys /\ lastKey' = lastKey + 1
          /\ opKeys' = [opKeys EXCEPT ![op][v] = lastKey']
          /\ call' = Request(op, v, lastKey', 0)
  /\ UNCHANGED <<server, late, poll, signed, view, retryKeys, monitor, life>>

\* Mutant of RetryPublish: every retry draws a key.
RetryAnew ==
  /\ Idle /\ ~Fetching /\ view.status = "failed"
  /\ lastKey < MaxKeys /\ lastKey' = lastKey + 1
  /\ retryKeys' = [retryKeys EXCEPT ![view.job] = lastKey']
  /\ call' = Request(jobs[view.job].op, jobs[view.job].version, lastKey', view.job)
  /\ UNCHANGED <<server, late, poll, signed, view, opKeys, monitor, life>>

\* The panel locks the confirmation while a read is on its way.
RetryPublish ==
  /\ Idle /\ ~Fetching /\ view.status = "failed"
  /\ LET j == view.job
         kept == retryKeys[j] # 0
         key == IF kept THEN retryKeys[j] ELSE lastKey + 1
     IN /\ kept \/ lastKey < MaxKeys
        /\ lastKey' = IF kept THEN lastKey ELSE key
        /\ retryKeys' = [retryKeys EXCEPT ![j] = key]
        /\ call' = Request(jobs[j].op, jobs[j].version, key, j)
  /\ UNCHANGED <<server, late, poll, signed, view, opKeys, monitor, life>>

\* The answer is shown at once and its versions are read next.
Accept ==
  /\ call.net = "answered"
  /\ view' = call.seen
  /\ Settle(call.seen) /\ unread' = Ended(call.seen.status)
  /\ retryKeys' = IF call.of # 0 THEN [retryKeys EXCEPT ![call.of] = 0] ELSE retryKeys
  /\ call' = [NoCall EXCEPT !.op = call.op, !.net = "sync"]
  /\ UNCHANGED <<server, late, poll, signed, lastKey, syncPending, error, life>>

\* The versions are read, or their read fails and nothing repeats it.
CallSynced ==
  /\ call.net = "sync" /\ call' = NoCall /\ unread' = FALSE
  /\ UNCHANGED <<server, late, poll, signed, view, keyring, syncPending, error, life>>

GivenUp == IF call.net = "wire" /\ call.op \in Ops THEN late \cup {[call EXCEPT !.life = 0]} ELSE late

\* A refusal, or no answer: the latest job is read, unless a read is under way.
CallFails ==
  /\ call.net \in {"wire", "answered"} /\ call.op \in Ops
  /\ late' = GivenUp /\ call' = NoCall
  /\ poll' = IF Fetching THEN poll ELSE Read(TRUE)
  /\ UNCHANGED <<server, signed, view, keyring, monitor, life>>

Edit ==
  /\ Idle
  /\ call' = [NoCall EXCEPT !.op = "edit", !.net = "wire"]
  /\ UNCHANGED <<server, late, poll, signed, view, keyring, monitor, life>>

EditEnds ==
  /\ call.op = "edit" /\ call' = NoCall
  /\ UNCHANGED <<server, late, poll, signed, view, keyring, monitor, life>>

(***************************************************************************)
(* The monitor: fetchStatus.                                               *)
(***************************************************************************)
\* Mutant of Refresh: the job is read by its id also when none is shown.
RefreshById ==
  /\ Idle /\ ~Fetching
  /\ poll' = Read(FALSE)
  /\ UNCHANGED <<server, call, late, signed, view, keyring, monitor, life>>

\* Every five seconds while the job is active or its versions are to be read,
\* and whenever the button is pressed.
Refresh ==
  /\ Idle /\ ~Fetching
  /\ poll' = Read(view = NoJob)
  /\ UNCHANGED <<server, call, late, signed, view, keyring, monitor, life>>

PollRead ==
  /\ poll.at = "wire"
  /\ LET j == IF poll.latest THEN Len(jobs) ELSE poll.expected
     IN poll' = [poll EXCEPT !.at = "read", !.seen = IF j = 0 THEN NoJob ELSE Seen(j)]
  /\ UNCHANGED <<server, call, late, signed, view, keyring, monitor, life>>

Syncing(j) == [NoPoll EXCEPT !.first = poll.first, !.expected = j, !.life = poll.life, !.at = "sync"]
Current == signed /\ ~Busy /\ poll.expected = view.job

\* Mutant of PollApplied: the versions are read, and not remembered as unread.
PollForgetful ==
  /\ poll.at = "read" /\ Current
  /\ view' = poll.seen
  /\ error' = FALSE /\ unread' = Ended(poll.seen.status) /\ UNCHANGED syncPending
  /\ IF poll.seen = NoJob
     THEN poll' = NoPoll /\ UNCHANGED opKeys
     ELSE poll' = Syncing(poll.seen.job) /\ Settle(poll.seen)
  /\ UNCHANGED <<server, call, late, signed, retryKeys, lastKey, life>>

PollApplied ==
  /\ poll.at = "read" /\ Current
  /\ view' = poll.seen
  /\ error' = FALSE /\ unread' = Ended(poll.seen.status) /\ syncPending' = Ended(poll.seen.status)
  /\ IF poll.seen = NoJob
     THEN poll' = NoPoll /\ UNCHANGED opKeys
     ELSE poll' = Syncing(poll.seen.job) /\ Settle(poll.seen)
  /\ UNCHANGED <<server, call, late, signed, retryKeys, lastKey, life>>

PollSynced ==
  /\ poll.at = "sync" /\ Current
  /\ poll' = NoPoll /\ syncPending' = FALSE /\ unread' = FALSE
  /\ UNCHANGED <<server, call, late, signed, view, keyring, error, life>>

\* The answer, or the versions, come too late to count.
PollDropped ==
  /\ poll.at \in {"read", "sync"} /\ ~Current
  /\ poll' = NoPoll
  /\ UNCHANGED <<server, call, late, signed, view, keyring, monitor, life>>

\* No answer within fifteen seconds, or a failed read.
PollFails ==
  /\ Fetching /\ poll' = NoPoll
  /\ error' = (error \/ Current)
  /\ UNCHANGED <<server, call, late, signed, view, keyring, syncPending, unread, life>>

(***************************************************************************)
(* The session and the page.                                               *)
(***************************************************************************)
\* A 401 or the expiry: what is shown stays, what is awaited no longer counts.
SessionEnds ==
  /\ signed /\ signed' = FALSE
  /\ late' = GivenUp /\ call' = NoCall
  /\ poll' = NoPoll /\ syncPending' = FALSE
  /\ UNCHANGED <<server, view, keyring, error, unread, life>>

\* initialize restores the session and then the latest job.
SignIn ==
  /\ ~signed /\ signed' = TRUE
  /\ poll' = IF Fetching THEN poll ELSE [Read(TRUE) EXCEPT !.first = TRUE]
  /\ UNCHANGED <<server, call, late, view, keyring, monitor, life>>

\* A new life of the page: its former retries are history.
Begin(requests) ==
  /\ life < MaxLives /\ life' = life + 1
  /\ jobs' = [j \in DOMAIN jobs |-> [jobs[j] EXCEPT !.of = 0]]
  /\ late' = {[r EXCEPT !.of = 0] : r \in requests}
  /\ view' = NoJob /\ retryKeys' = [j \in JobIds |-> 0]
  /\ signed' = FALSE /\ unread' = FALSE /\ UNCHANGED <<released, lastKey>>

\* Mutant of SignOut: the monitor is not stopped.
SignOutPolling ==
  /\ Idle /\ Begin(late)
  /\ UNCHANGED <<call, poll, opKeys, syncPending, error>>

\* clear() forgets the job and the keys of retries, not those of operations.
SignOut ==
  /\ Idle /\ Begin(late)
  /\ poll' = NoPoll /\ syncPending' = FALSE
  /\ UNCHANGED <<call, opKeys, error>>

\* The page is loaded again: all its memory is new.
Reload ==
  /\ Begin(GivenUp)
  /\ call' = NoCall /\ poll' = NoPoll /\ syncPending' = FALSE /\ error' = FALSE
  /\ opKeys' = [o \in Ops |-> [v \in Versions |-> 0]]

DeskNext ==
  \/ \E op \in Ops, v \in Versions : Press(op, v) \/ OtherAdministrator(op, v)
  \/ RetryPublish \/ Edit \/ EditEnds
  \/ CallHandled \/ Accept \/ CallSynced \/ CallFails
  \/ \E r \in late : LateHandled(r)
  \/ \E j \in DOMAIN jobs, status \in {"succeeded", "failed"} : JobEnds(j, status)
  \/ Refresh
  \/ PollRead \/ PollApplied \/ PollSynced \/ PollDropped \/ PollFails
  \/ SessionEnds \/ SignIn \/ SignOut \/ Reload

DeskSpec == DeskInit /\ [][DeskNext]_deskVars

(***************************************************************************)
(* Properties.                                                             *)
(***************************************************************************)
DeskTypeOK ==
  /\ released \in [Versions -> {"approved", "publishing", "published", "archived"}]
  /\ Len(jobs) \leq MaxJobs
  /\ view.job \in 0 .. Len(jobs) /\ view.status \in {"none", "active", "succeeded", "failed"}
  /\ Fetching => poll.latest \/ poll.expected # 0
  /\ opKeys \in [Ops -> [Versions -> KeyIds]] /\ retryKeys \in [JobIds -> KeyIds]
  /\ signed \in BOOLEAN /\ syncPending \in BOOLEAN /\ error \in BOOLEAN

\* A failed job is retried once: however often the button is pressed, and
\* whether answers are lost or the session ends in between, the requests of the
\* presses carry one key, so that the API makes one job of them (retryKeys, kept
\* until the retry is accepted, 309-318 of useAdminWorkspace; test
\* admin-workspace 140).
RetriedOnce ==
  LET asked == late \cup {call} \cup {jobs[j] : j \in DOMAIN jobs}
  IN \A r, s \in asked : r.of = s.of /\ r.of # 0 => r.key = s.key

\* What the page shows was asked for since the last sign-out: an answer to the
\* former user's request is not shown to the next (stop 23-31, clear 368-386).
ShownWasAskedFor ==
  [][(view' # view /\ view' # NoJob)
       => (IF call.net = "answered" THEN call.life ELSE poll.life) = life]_deskVars

\* A page at rest that shows a job's end, and no error, has read the versions
\* that end concerns, also when reads were overtaken by writes or the session
\* came and went (syncPending, 66-72 of usePublishMonitor).  An end that a write
\* was answered with is excepted: when the reads after it fail nothing repeats
\* them.
EndIsSynced ==
  (signed /\ ~Busy /\ ~Fetching /\ ~syncPending /\ ~error) => ~unread

\* The key of a job whose end is shown is forgotten, so that the next press
\* makes a new job and is not answered with the old one (settle 27-31).
EndedKeyIsForgotten ==
  Ended(view.status) => jobs[view.job].key \notin {opKeys[o][v] : o \in Ops, v \in Versions} \ {0}

\* A key is kept as long as its outcome may be unknown, and no longer.
OneKeyPerAttempt == RetriedOnce /\ EndedKeyIsForgotten

\* "rotates a key only after the publish task reaches a terminal state" (test
\* idempotency.test.ts 29): the job that a dropped key has made has ended.
KeyOutlivesOutcome ==
  [][\A o \in Ops, v \in Versions :
       (opKeys[o][v] # 0 /\ opKeys'[o][v] = 0 /\ life' = life)
         => \A j \in ByKey(opKeys[o][v]) : Ended(jobs[j].status)]_deskVars
==============================================================================
