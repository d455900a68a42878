--------------------------- MODULE Pages_proofs ---------------------------
(* Proofs about the pages: the publish page of the admin workspace, for     *)
(* every set of versions and any number of keys, jobs and lives of the      *)
(* page; the player of the public site, for every set of tracks and number  *)
(* of presses and every order in which a browser starts, fails, answers and *)
(* delivers; and the asset list of the admin page, for every set of assets, *)
(* order of their creation and length of a page.                            *)
(*                                                                          *)
(* The publish page.  A key was drawn for one operation or one retry        *)
(* (KeyOwners), a retried job keeps its key until a job was made of it      *)
(* (Retries), and the reads after an ended job are due (Synced).            *)
(*                                                                          *)
(* The player.  Only the element made last can do anything (InUse,          *)
(* Disused); what it still has to tell ends with the truth (Told), or its   *)
(* answer to the present request is pending (Answers).  What is queued for  *)
(* a disposed element answers an earlier request (Stale).                   *)
(*                                                                          *)
(* The list.  A page brings what it owes or leaves it for the next (Brings),*)
(* because creation time and id order the assets without a tie and a page   *)
(* is an upper part of that order.                                          *)
EXTENDS MCPages, FiniteSetTheorems, WellFoundedInduction, TLAPS

----------------------------------------------------------------------------
(* The publish page.                                                        *)

JobStatuses == {"active", "succeeded", "failed"}
Job == [key : Nat, op : Ops, version : Versions, of : Nat, status : JobStatuses]
Shown == [job : Nat, status : JobStatuses \cup {"none"}]
Write == [op : Ops \cup {"none", "edit"}, version : Versions \cup {"none"}, key : Nat, of : Nat,
          life : Nat, net : {"none", "wire", "answered", "sync"}, seen : Shown]
Poll == [first : BOOLEAN, latest : BOOLEAN, expected : Nat, life : Nat,
         at : {"none", "wire", "read", "sync"}, seen : Shown]

\* A job that was read: one of the list, or none.
IsSeen(seen) == IF seen.status = "none" THEN seen = NoJob ELSE seen.job \in DOMAIN jobs

\* A write that the API has not answered, or whose answer is on its way.
Asking == call.op \in Ops /\ call.net \in {"wire", "answered"}

Shape ==
  /\ released \in [Versions -> {"approved", "publishing", "published", "archived"}]
  /\ jobs \in Seq(Job) /\ Len(jobs) <= MaxJobs
  /\ call \in Write /\ late \subseteq Write /\ poll \in Poll /\ view \in Shown
  /\ opKeys \in [Ops -> [Versions -> KeyIds]] /\ retryKeys \in [JobIds -> KeyIds]
  /\ lastKey \in KeyIds /\ life \in Nat
  /\ signed \in BOOLEAN /\ syncPending \in BOOLEAN /\ error \in BOOLEAN /\ unread \in BOOLEAN
  /\ IsSeen(view) /\ IsSeen(call.seen) /\ IsSeen(poll.seen) /\ poll.expected <= Len(jobs)

\* The page writes while it is signed in, for its present life.
Writes ==
  /\ ~signed => call = NoCall
  /\ call.net = "none" => call = NoCall
  /\ call.op = "edit" => call.net = "wire"
  /\ call.net = "answered" => call.op \in Ops
  /\ ~Asking => call.key = 0 /\ call.of = 0
  /\ Asking =>
       /\ call.version \in Versions /\ call.key # 0 /\ call.life = life
       /\ call.of # 0 => call.of = view.job /\ ~Fetching
  /\ call.net = "answered" => call.seen.job \in DOMAIN jobs /\ jobs[call.seen.job].key = call.key

\* So it reads, the job that is shown or the latest.
Polls ==
  Fetching =>
    /\ signed /\ poll.life = life /\ poll.at # "none"
    /\ poll.latest \/ poll.expected # 0
    /\ poll.at = "read" /\ ~poll.latest => poll.seen.job = poll.expected
    /\ poll.first => call = NoCall /\ poll.expected = view.job

Requests ==
  /\ Writes /\ Polls
  /\ \A r \in late : r.op \in Ops /\ r.version \in Versions /\ r.key # 0

\* The versions an end concerns are read, or will be.
Synced == signed /\ unread => syncPending \/ error \/ call.net = "sync" \/ poll.first

----------------------------------------------------------------------------
\* What was asked of the API, and what jobs were asked for.
Requested == late \cup {call} \cup {jobs[j] : j \in DOMAIN jobs}

OpKeys == {opKeys[o][v] : o \in Ops, v \in Versions} \ {0}

\* A key is of one request: it was drawn for an operation of a version, or for
\* the retry of a job.
KeyOwners ==
  /\ \A r \in Requested : r.key <= lastKey /\ r.of <= Len(jobs)
  /\ \A j \in DOMAIN jobs : jobs[j].of < j
  /\ \A r, s \in Requested : r.key = s.key /\ r.key # 0 => r.of = s.of
  /\ \A o \in Ops, v \in Versions : opKeys[o][v] # 0 =>
       /\ opKeys[o][v] <= lastKey
       /\ \A r \in Requested : r.key = opKeys[o][v] => r.of = 0 /\ r.op = o /\ r.version = v
       /\ \A p \in Ops, w \in Versions : opKeys[p][w] = opKeys[o][v] => p = o /\ w = v
  /\ \A i \in JobIds : retryKeys[i] # 0 =>
       /\ retryKeys[i] <= lastKey /\ retryKeys[i] \notin OpKeys
       /\ \A r \in Requested : r.key = retryKeys[i] => r.of = i
       /\ \A k \in JobIds : retryKeys[k] = retryKeys[i] => k = i
  /\ Asking => call.key = IF call.of = 0 THEN opKeys[call.op][call.version] ELSE retryKeys[call.of]

\* The job has been retried.
Retried(j) == j # 0 /\ \E r \in Requested : r.of = j

\* A retried job keeps its retry's key until the retry is accepted.  Then a job
\* was made of it, and the page never shows the retried job again: nor the one
\* that this is itself a retry of.
Retries ==
  /\ RetriedOnce
  /\ \A r \in Requested : r.of # 0 /\ retryKeys[r.of] # 0 => r.key = retryKeys[r.of]
  /\ \A j \in DOMAIN jobs : Retried(j) =>
       /\ jobs[j].key \notin OpKeys
       /\ jobs[j].of # 0 => view.job # jobs[j].of
       /\ jobs[j].of # 0 /\ poll.at = "read" /\ poll.latest => poll.seen.job # jobs[j].of
       /\ retryKeys[j] = 0 =>
            /\ view.job # j /\ (\E n \in DOMAIN jobs : jobs[n].of = j)
            /\ poll.at = "read" /\ poll.latest => poll.seen.job # j

IInv == Shape /\ Requests /\ Synced /\ KeyOwners /\ Retries /\ EndedKeyIsForgotten

----------------------------------------------------------------------------
Blank(r) == r.key = 0 /\ r.of = 0
Like(r, s) == r.key = s.key /\ r.of = s.of /\ r.op = s.op /\ r.version = s.version

\* Keys are forgotten one by one, and none is drawn.
KeysDropped ==
  /\ lastKey' = lastKey
  /\ opKeys' \in [Ops -> [Versions -> KeyIds]] /\ retryKeys' \in [JobIds -> KeyIds]
  /\ \A o \in Ops, v \in Versions : opKeys'[o][v] \in {opKeys[o][v], 0}
  /\ \A i \in JobIds : retryKeys'[i] \in {retryKeys[i], 0}

\* What a step without a press may do: what is asked for is what was asked for.
Passes ==
  /\ \A r \in Requested' : Blank(r) \/ \E s \in Requested : Like(r, s)
  /\ Len(jobs) <= Len(jobs') /\ \A j \in DOMAIN jobs : Like(jobs'[j], jobs[j])
  /\ KeysDropped
  /\ Asking' => Asking /\ Like(call', call) /\ UNCHANGED keyring

----------------------------------------------------------------------------
LEMMA AskedAre ==
  \A r : r \in Requested <=> r \in late \/ r = call \/ \E j \in DOMAIN jobs : r = jobs[j]
BY DEF Requested

AskedFacts ==
  /\ \A r \in Requested : r.key \in Nat /\ r.of \in Nat
  /\ DOMAIN jobs = 1 .. Len(jobs) /\ Len(jobs) \in Nat
  /\ \A j \in DOMAIN jobs : jobs[j] \in Job /\ jobs[j] \in Requested
  /\ call \in Requested

LEMMA AskedShape == Shape => AskedFacts
<1> SUFFICES ASSUME Shape PROVE AskedFacts
  OBVIOUS
<1>1. /\ DOMAIN jobs = 1 .. Len(jobs) /\ Len(jobs) \in Nat
      /\ \A j \in DOMAIN jobs : jobs[j] \in Job
  BY DEF Shape
<1>2. call \in Write /\ \A r \in late : r \in Write
  BY DEF Shape
<1>3. \A r \in Write : r.key \in Nat /\ r.of \in Nat
  BY DEF Write
<1>4. \A r \in Job : r.key \in Nat /\ r.of \in Nat
  BY DEF Job
<1> QED
  BY <1>1, <1>2, <1>3, <1>4, AskedAre DEF AskedFacts

LEMMA OpKeysAre ==
  \A k : k \in OpKeys <=> k # 0 /\ \E o \in Ops, v \in Versions : k = opKeys[o][v]
BY DEF OpKeys

\* Keys keep their owners when nothing new is asked for.
LEMMA PassKeepsOwners ==
  ASSUME DeskParameters, Shape, Shape', KeyOwners, RetriedOnce, Passes
  PROVE  KeyOwners' /\ RetriedOnce'
<1> USE DEF Like, Blank
<1>1. /\ \A r \in Requested : r.key \in Nat /\ r.of \in Nat
      /\ DOMAIN jobs = 1 .. Len(jobs) /\ Len(jobs) \in Nat
      /\ \A j \in DOMAIN jobs : jobs[j] \in Requested
  BY AskedShape DEF AskedFacts
<1>2. /\ \A r \in Requested' : r.key \in Nat /\ r.of \in Nat
      /\ DOMAIN jobs' = 1 .. Len(jobs') /\ Len(jobs') \in Nat
      /\ \A j \in DOMAIN jobs' : jobs'[j] \in Requested'
  <2>1. AskedFacts'
    BY AskedShape, PTL
  <2> QED
    BY <2>1 DEF AskedFacts
<1>3. /\ \A r \in Requested' : Blank(r) \/ \E s \in Requested : Like(r, s)
      /\ Len(jobs) <= Len(jobs') /\ \A j \in DOMAIN jobs : Like(jobs'[j], jobs[j])
      /\ lastKey' = lastKey /\ lastKey \in Nat
      /\ \A o \in Ops, v \in Versions : opKeys'[o][v] \in {opKeys[o][v], 0}
      /\ \A i \in JobIds : retryKeys'[i] \in {retryKeys[i], 0}
  BY DEF Passes, KeysDropped, Shape, KeyIds, DeskParameters
<1>4. /\ \A r \in Requested : r.key <= lastKey /\ r.of <= Len(jobs)
      /\ \A j \in DOMAIN jobs : jobs[j].of < j
      /\ \A r, s \in Requested : r.key = s.key /\ r.key # 0 => r.of = s.of
  BY DEF KeyOwners
<1>5. \A r \in Requested' : r.key <= lastKey' /\ r.of <= Len(jobs)
  BY <1>1, <1>3, <1>4
<1>6. \A j \in DOMAIN jobs' : jobs'[j].of < j
  <2> SUFFICES ASSUME NEW j \in DOMAIN jobs' PROVE jobs'[j].of < j
    OBVIOUS
  <2>1. CASE j \in DOMAIN jobs
    BY <2>1, <1>3, <1>4
  <2>2. CASE j \notin DOMAIN jobs
    BY <2>2, <1>1, <1>2, <1>5
  <2> QED
    BY <2>1, <2>2
<1>7. \A r, s \in Requested' : r.key = s.key /\ r.key # 0 => r.of = s.of
  BY <1>3, <1>4
<1>8. ASSUME NEW o \in Ops, NEW v \in Versions, opKeys'[o][v] # 0
      PROVE  /\ opKeys'[o][v] <= lastKey'
             /\ \A r \in Requested' : r.key = opKeys'[o][v] => r.of = 0 /\ r.op = o /\ r.version = v
             /\ \A p \in Ops, w \in Versions : opKeys'[p][w] = opKeys'[o][v] => p = o /\ w = v
  <2>1. opKeys'[o][v] = opKeys[o][v]
    BY <1>3, <1>8
  <2>2. /\ opKeys[o][v] <= lastKey
        /\ \A r \in Requested : r.key = opKeys[o][v] => r.of = 0 /\ r.op = o /\ r.version = v
        /\ \A p \in Ops, w \in Versions : opKeys[p][w] = opKeys[o][v] => p = o /\ w = v
    BY <1>8, <2>1 DEF KeyOwners
  <2> QED
    BY <1>3, <1>8, <2>1, <2>2
<1>9. ASSUME NEW i \in JobIds, retryKeys'[i] # 0
      PROVE  /\ retryKeys'[i] <= lastKey' /\ retryKeys'[i] \notin OpKeys'
             /\ \A r \in Requested' : r.key = retryKeys'[i] => r.of = i
             /\ \A k \in JobIds : retryKeys'[k] = retryKeys'[i] => k = i
  <2>1. retryKeys'[i] = retryKeys[i]
    BY <1>3, <1>9
  <2>2. /\ retryKeys[i] <= lastKey /\ retryKeys[i] \notin OpKeys
        /\ \A r \in Requested : r.key = retryKeys[i] => r.of = i
        /\ \A k \in JobIds : retryKeys[k] = retryKeys[i] => k = i
    BY <1>9, <2>1 DEF KeyOwners
  <2>3. retryKeys'[i] \notin OpKeys'
    BY <1>3, <1>9, <2>1, <2>2 DEF OpKeys
  <2> QED
    BY <1>3, <1>9, <2>1, <2>2, <2>3
<1>10. Asking' => call'.key = IF call'.of = 0 THEN opKeys'[call'.op][call'.version] ELSE retryKeys'[call'.of]
  BY DEF Passes, KeyOwners, keyring
<1>11. KeyOwners'
  <2>1. \A r \in Requested' : r.key <= lastKey' /\ r.of <= Len(jobs')
    BY <1>1, <1>2, <1>3, <1>5
  <2> QED
    BY <2>1, <1>6, <1>7, <1>8, <1>9, <1>10 DEF KeyOwners
<1>12. RetriedOnce'
  BY <1>3 DEF RetriedOnce, Requested
<1> QED
  BY <1>11, <1>12

\* A job is retried after the step if it was before.
LEMMA PassKeepsRetried ==
  ASSUME Shape, Shape', KeyOwners, Passes, NEW j \in DOMAIN jobs', Retried(j)'
  PROVE  Retried(j) /\ j \in DOMAIN jobs
<1>1. PICK r \in Requested' : j # 0 /\ r.of = j
  BY DEF Retried
<1>2. PICK s \in Requested : s.of = j
  BY <1>1 DEF Passes, Like, Blank
<1>3. DOMAIN jobs = 1 .. Len(jobs) /\ DOMAIN jobs' = 1 .. Len(jobs')
  BY DEF Shape
<1>4. j \in Nat /\ j # 0 /\ j <= Len(jobs) /\ Len(jobs) \in Nat
  BY <1>1, <1>2, <1>3, AskedShape DEF AskedFacts, KeyOwners, Shape
<1> QED
  BY <1>1, <1>2, <1>3, <1>4 DEF Retried

\* A step that shows nothing else keeps what Retries says, if the latest job is
\* read no earlier than now.
LEMMA PassKeepsRetries ==
  ASSUME DeskParameters, Shape, Shape', KeyOwners, Retries, Passes, retryKeys' = retryKeys,
         view'.job \in {view.job, 0},
         poll'.at = "read" /\ poll'.latest =>
           \/ poll.at = "read" /\ poll.latest /\ poll'.seen = poll.seen
           \/ poll'.seen.job = Len(jobs)
  PROVE  Retries'
<1> USE DEF Like, Blank
<1>1. RetriedOnce'
  BY PassKeepsOwners DEF Retries
<1>2. ASSUME NEW r \in Requested', r.of # 0, retryKeys'[r.of] # 0
      PROVE  r.key = retryKeys'[r.of]
  BY <1>2 DEF Retries, Passes
<1>3. ASSUME NEW j \in DOMAIN jobs', Retried(j)'
      PROVE  /\ jobs'[j].key \notin OpKeys'
             /\ jobs'[j].of # 0 => view'.job # jobs'[j].of
             /\ jobs'[j].of # 0 /\ poll'.at = "read" /\ poll'.latest => poll'.seen.job # jobs'[j].of
             /\ retryKeys'[j] = 0 =>
                  /\ view'.job # j /\ (\E n \in DOMAIN jobs' : jobs'[n].of = j)
                  /\ poll'.at = "read" /\ poll'.latest => poll'.seen.job # j
  <2>1. Retried(j) /\ j \in DOMAIN jobs
    BY <1>3, PassKeepsRetried
  <2>2. /\ jobs[j].key \notin OpKeys
        /\ jobs[j].of # 0 => view.job # jobs[j].of
        /\ jobs[j].of # 0 /\ poll.at = "read" /\ poll.latest => poll.seen.job # jobs[j].of
        /\ retryKeys[j] = 0 =>
             /\ view.job # j /\ (\E n \in DOMAIN jobs : jobs[n].of = j)
             /\ poll.at = "read" /\ poll.latest => poll.seen.job # j
    BY <2>1 DEF Retries
  <2>3. /\ DOMAIN jobs = 1 .. Len(jobs) /\ DOMAIN jobs' = 1 .. Len(jobs') /\ Len(jobs') \in Nat
        /\ \A i \in DOMAIN jobs : jobs[i].of < i /\ jobs[i] \in Requested
        /\ jobs[j].of \in Nat /\ jobs'[j].of = jobs[j].of /\ Len(jobs) \in Nat
        /\ \A i \in DOMAIN jobs : jobs[i].of \in Nat /\ jobs'[i].of = jobs[i].of /\ i \in DOMAIN jobs'
    BY <2>1, AskedShape DEF AskedFacts, KeyOwners, Passes, Shape
  <2>4. j \in Nat /\ j # 0 /\ j <= Len(jobs)
    BY <2>1, <2>3
  <2>5. jobs'[j].key \notin OpKeys'
    BY <2>1, <2>2 DEF Passes, KeysDropped, OpKeys
  <2>6. jobs'[j].of # 0 => view'.job # jobs'[j].of
    BY <2>2, <2>3
  <2>7. ASSUME jobs'[j].of # 0, poll'.at = "read", poll'.latest PROVE poll'.seen.job # jobs'[j].of
    BY <2>7, <2>2, <2>3, <2>4
  <2>8. ASSUME retryKeys'[j] = 0
        PROVE  /\ view'.job # j /\ (\E n \in DOMAIN jobs' : jobs'[n].of = j)
               /\ poll'.at = "read" /\ poll'.latest => poll'.seen.job # j
    <3>1. PICK n \in DOMAIN jobs : jobs[n].of = j
      BY <2>2, <2>8
    <3>2. n \in Nat /\ j < n /\ n <= Len(jobs) /\ n \in DOMAIN jobs' /\ jobs'[n].of = j
      BY <2>3, <2>4, <3>1
    <3>3. view'.job # j
      BY <2>2, <2>4, <2>8
    <3>4. poll'.at = "read" /\ poll'.latest => poll'.seen.job # j
      BY <2>2, <2>4, <2>8, <3>2, <2>3
    <3> QED
      BY <3>2, <3>3, <3>4
  <2> QED
    BY <2>5, <2>6, <2>7, <2>8
<1> QED
  BY <1>1, <1>2, <1>3 DEF Retries

\* The key of an ended job stays forgotten while the same job is shown.
LEMMA PassKeepsForgotten ==
  ASSUME Shape, EndedKeyIsForgotten, Passes, view' \in {view, NoJob}
  PROVE  EndedKeyIsForgotten'
<1>1. ASSUME Ended(view'.status)
      PROVE  view' = view /\ view.job \in DOMAIN jobs
  BY <1>1 DEF Ended, NoJob, Shape, IsSeen
<1> QED
  BY <1>1 DEF EndedKeyIsForgotten, Passes, KeysDropped, Like, Ended

----------------------------------------------------------------------------
\* What the server does.
LEMMA CreateMakes ==
  ASSUME DeskParameters, Shape, NEW r, r.key \in Nat, r.op \in Ops, r.version \in Versions, r.of \in Nat,
         Create(r)
  PROVE  /\ released' \in [Versions -> {"approved", "publishing", "published", "archived"}]
         /\ jobs' \in Seq(Job) /\ Len(jobs') = Len(jobs) + 1 /\ Len(jobs') <= MaxJobs
         /\ \A j \in DOMAIN jobs : j \in DOMAIN jobs' /\ jobs'[j] = jobs[j]
         /\ \A j \in DOMAIN jobs' : j \in DOMAIN jobs \/ j = Len(jobs) + 1
         /\ Len(jobs) + 1 \in DOMAIN jobs' /\ Like(jobs'[Len(jobs) + 1], r)
<1> DEFINE new == [key |-> r.key, op |-> r.op, version |-> r.version, of |-> r.of, status |-> "active"]
<1>1. new \in Job /\ Like(new, r)
  BY DEF Job, JobStatuses, Like
<1>2. jobs' = Append(jobs, new) /\ Len(jobs) < MaxJobs /\ jobs \in Seq(Job) /\ MaxJobs \in Nat
  BY DEF Create, Shape, DeskParameters
<1>3. released' \in [Versions -> {"approved", "publishing", "published", "archived"}]
  BY DEF Create, Shape
<1> HIDE DEF new
<1> QED
  BY <1>1, <1>2, <1>3

\* The server's step is one of these, seen from what was asked.
LEMMA HandledPasses ==
  ASSUME DeskParameters, Shape, late' \subseteq late, Blank(call') \/ Like(call', call), UNCHANGED keyring,
         Asking' => Asking /\ Like(call', call),
         NEW r, Blank(r) \/ r \in Requested,
         Len(jobs) <= Len(jobs'),
         \A j \in DOMAIN jobs : Like(jobs'[j], jobs[j]),
         \A j \in DOMAIN jobs' : j \in DOMAIN jobs \/ Like(jobs'[j], r)
  PROVE  Passes
<1>1. \A q \in Requested' : q \in late' \/ q = call' \/ \E j \in DOMAIN jobs' : q = jobs'[j]
  BY DEF Requested
<1>2. \A q : q \in late \/ q = call \/ (\E j \in DOMAIN jobs : q = jobs[j]) => q \in Requested
  BY DEF Requested
<1>3. ASSUME NEW q \in Requested' PROVE Blank(q) \/ \E s \in Requested : Like(q, s)
  <2>1. CASE q \in late'
    BY <2>1, <1>2 DEF Like
  <2>2. CASE q = call'
    BY <2>2, <1>2
  <2>3. ASSUME NEW j \in DOMAIN jobs', q = jobs'[j] PROVE Blank(q) \/ \E s \in Requested : Like(q, s)
    <3>1. CASE j \in DOMAIN jobs
      BY <2>3, <3>1, <1>2
    <3>2. CASE Like(jobs'[j], r)
      BY <2>3, <3>2 DEF Blank, Like
    <3> QED
      BY <3>1, <3>2
  <2> QED
    BY <1>1, <2>1, <2>2, <2>3
<1>4. KeysDropped
  BY DEF KeysDropped, keyring, Shape
<1> QED
  BY <1>3, <1>4 DEF Passes

\* What is kept when the page shows the same and draws or forgets no key.
LEMMA SameViewKeeps ==
  ASSUME DeskParameters, IInv, Shape', Requests', Synced', Passes, view' = view, retryKeys' = retryKeys,
         poll'.at = "read" /\ poll'.latest =>
           \/ poll.at = "read" /\ poll.latest /\ poll'.seen = poll.seen
           \/ poll'.seen.job = Len(jobs)
  PROVE  IInv'
<1>1. KeyOwners'
  BY PassKeepsOwners DEF IInv, Retries
<1>2. Retries'
  BY PassKeepsRetries DEF IInv
<1>3. EndedKeyIsForgotten'
  BY PassKeepsForgotten DEF IInv
<1> QED
  BY <1>1, <1>2, <1>3 DEF IInv

\* The page's write is answered with what it made, or has made before.
Handled(seen) ==
  /\ seen \in Shown /\ call' = [call EXCEPT !.net = "answered", !.seen = seen]
  /\ jobs' \in Seq(Job) /\ Len(jobs) <= Len(jobs') /\ Len(jobs') <= MaxJobs
  /\ released' \in [Versions -> {"approved", "publishing", "published", "archived"}]
  /\ \A j \in DOMAIN jobs : j \in DOMAIN jobs' /\ jobs'[j] = jobs[j]
  /\ \A j \in DOMAIN jobs' : j \in DOMAIN jobs \/ Like(jobs'[j], call)
  /\ seen.status # "none" /\ seen.job \in DOMAIN jobs' /\ jobs'[seen.job].key = call.key

LEMMA CallHandledKeeps ==
  ASSUME DeskParameters, IInv, CallHandled
  PROVE  IInv'
<1>1. /\ Asking /\ call.key \in Nat /\ call.op \in Ops /\ call.version \in Versions /\ call.of \in Nat
      /\ call \in Write /\ call # NoCall /\ call.net = "wire" /\ call.key # 0 /\ signed
  BY DEF IInv, CallHandled, Asking, Requests, Writes, Shape, Write, NoCall
<1>2. UNCHANGED <<late, poll, signed, view, keyring, monitor, life>>
  BY DEF CallHandled
<1>3. PICK seen : Handled(seen)
  <2>1. ASSUME NEW j \in ByKey(call.key), Answered(Seen(j)), UNCHANGED server
        PROVE  Handled(Seen(j))
    <3>1. j \in DOMAIN jobs /\ jobs[j].key = call.key /\ jobs[j] \in Job /\ j \in Nat
      BY <2>1 DEF ByKey, IInv, Shape
    <3>2. Seen(j) \in Shown /\ Seen(j).status # "none" /\ Seen(j).job = j
      BY <3>1 DEF Seen, Shown, Job, JobStatuses
    <3>3. jobs' = jobs /\ released' = released /\ jobs \in Seq(Job) /\ Len(jobs) <= MaxJobs
          /\ released \in [Versions -> {"approved", "publishing", "published", "archived"}]
          /\ Len(jobs) <= Len(jobs)
      BY <2>1 DEF server, IInv, Shape
    <3> HIDE DEF Seen
    <3> QED
      BY <2>1, <3>1, <3>2, <3>3 DEF Answered, Handled
  <2>2. ASSUME Create(call), Answered([job |-> Len(jobs) + 1, status |-> "active"])
        PROVE  Handled([job |-> Len(jobs) + 1, status |-> "active"])
    <3> DEFINE answer == [job |-> Len(jobs) + 1, status |-> "active"]
    <3>1. Len(jobs) \in Nat
      BY DEF IInv, Shape
    <3>2. answer \in Shown /\ answer.status # "none" /\ answer.job = Len(jobs) + 1
      BY <3>1 DEF Shown, JobStatuses
    <3>3. /\ released' \in [Versions -> {"approved", "publishing", "published", "archived"}]
          /\ jobs' \in Seq(Job) /\ Len(jobs') = Len(jobs) + 1 /\ Len(jobs') <= MaxJobs
          /\ \A j \in DOMAIN jobs : j \in DOMAIN jobs' /\ jobs'[j] = jobs[j]
          /\ \A j \in DOMAIN jobs' : j \in DOMAIN jobs \/ j = Len(jobs) + 1
          /\ Len(jobs) + 1 \in DOMAIN jobs' /\ Like(jobs'[Len(jobs) + 1], call)
      BY <1>1, <2>2, CreateMakes DEF IInv
    <3>4. call' = [call EXCEPT !.net = "answered", !.seen = answer]
      BY <2>2 DEF Answered
    <3> HIDE DEF answer
    <3>5. Handled(answer)
      BY <3>1, <3>2, <3>3, <3>4 DEF Like, Handled
    <3> QED
      BY <3>5 DEF answer
  <2> QED
    BY <2>1, <2>2 DEF CallHandled
<1>4. /\ call' \in Write /\ call'.net = "answered" /\ call'.seen = seen /\ Like(call', call)
      /\ call'.op = call.op /\ call'.life = call.life
  BY <1>1, <1>3 DEF Write, Like, Handled
<1>5. Shape'
  <2>1. IsSeen(call.seen)' /\ IsSeen(view)' /\ IsSeen(poll.seen)'
    BY <1>2, <1>3, <1>4 DEF IInv, Shape, IsSeen, Handled
  <2>2. poll'.expected <= Len(jobs')
    BY <1>2, <1>3 DEF IInv, Shape, Poll, Handled
  <2> QED
    BY <1>2, <1>3, <1>4, <2>1, <2>2 DEF IInv, Shape, keyring, monitor, Handled
<1>6. Requests'
  <2>1. Asking' /\ call'.version = call.version /\ call'.key = call.key /\ call'.of = call.of
    BY <1>1, <1>4 DEF Asking, Like
  <2>2. Writes'
    BY <1>1, <1>2, <1>3, <1>4, <2>1 DEF IInv, Requests, Writes, Handled, Fetching, Ops
  <2>3. Polls'
    BY <1>1, <1>2 DEF IInv, Requests, Polls, Fetching
  <2> QED
    BY <1>2, <2>2, <2>3 DEF IInv, Requests
<1>7. Synced'
  BY <1>1, <1>2 DEF IInv, Synced, monitor
<1>8. Passes
  <2>1. Asking' => Asking /\ Like(call', call)
    BY <1>1, <1>4
  <2>2. call \in Requested
    BY DEF Requested
  <2>3. \A j \in DOMAIN jobs : Like(jobs'[j], jobs[j])
    BY <1>3 DEF Like, Handled
  <2> QED
    BY <1>2, <1>3, <1>4, <2>1, <2>2, <2>3, HandledPasses DEF IInv, Handled
<1> QED
  BY <1>2, <1>5, <1>6, <1>7, <1>8, SameViewKeeps DEF keyring

\* A step of the server that does not concern the page.
LEMMA ServerStepKeeps ==
  ASSUME DeskParameters, IInv, UNCHANGED <<call, poll, signed, view, keyring, monitor, life>>, late' \subseteq late,
         NEW r, Blank(r) \/ r \in Requested,
         released' \in [Versions -> {"approved", "publishing", "published", "archived"}],
         jobs' \in Seq(Job), Len(jobs') <= MaxJobs, Len(jobs) <= Len(jobs'),
         \A j \in DOMAIN jobs : j \in DOMAIN jobs' /\ Like(jobs'[j], jobs[j]),
         \A j \in DOMAIN jobs' : j \in DOMAIN jobs \/ Like(jobs'[j], r)
  PROVE  IInv'
<1>1. Shape'
  <2>1. IsSeen(call.seen)' /\ IsSeen(view)' /\ IsSeen(poll.seen)'
    BY DEF IInv, Shape, IsSeen
  <2>2. poll'.expected <= Len(jobs')
    BY DEF IInv, Shape, Poll
  <2> QED
    BY <2>1, <2>2 DEF IInv, Shape, keyring, monitor
<1>2. Requests'
  <2>1. Writes'
    BY DEF IInv, Requests, Writes, Asking, Fetching, Like
  <2>2. Polls'
    BY DEF IInv, Requests, Polls, Fetching
  <2> QED
    BY <2>1, <2>2 DEF IInv, Requests
<1>3. Synced'
  BY DEF IInv, Synced, monitor
<1>4. Like(call', call) /\ (Asking' => Asking)
  BY DEF Like, Asking
<1>5. Passes
  BY <1>4, HandledPasses DEF IInv
<1> QED
  BY <1>1, <1>2, <1>3, <1>5, SameViewKeeps DEF keyring

LEMMA LateHandledKeeps ==
  ASSUME DeskParameters, IInv, NEW r \in late, LateHandled(r)
  PROVE  IInv'
<1>1. /\ r.key \in Nat /\ r.of \in Nat /\ r.op \in Ops /\ r.version \in Versions /\ r \in Requested
  BY DEF IInv, Shape, Requests, Write, Requested
<1>2. /\ released' \in [Versions -> {"approved", "publishing", "published", "archived"}]
      /\ jobs' \in Seq(Job) /\ Len(jobs') = Len(jobs) + 1 /\ Len(jobs') <= MaxJobs
      /\ \A j \in DOMAIN jobs : j \in DOMAIN jobs' /\ jobs'[j] = jobs[j]
      /\ \A j \in DOMAIN jobs' : j \in DOMAIN jobs \/ j = Len(jobs) + 1
      /\ Len(jobs) + 1 \in DOMAIN jobs' /\ Like(jobs'[Len(jobs) + 1], r)
  BY <1>1, CreateMakes DEF LateHandled, IInv
<1>3. /\ \A j \in DOMAIN jobs : Like(jobs'[j], jobs[j])
      /\ \A j \in DOMAIN jobs' : j \in DOMAIN jobs \/ Like(jobs'[j], r)
  BY <1>2 DEF Like
<1>4. Len(jobs) \in Nat
  BY DEF IInv, Shape
<1>5. UNCHANGED <<call, poll, signed, view, keyring, monitor, life>> /\ late' \subseteq late
  BY DEF LateHandled
<1> QED
  BY <1>1, <1>2, <1>3, <1>4, <1>5, ServerStepKeeps

LEMMA OtherAdministratorKeeps ==
  ASSUME DeskParameters, IInv, NEW op \in Ops, NEW v \in Versions, OtherAdministrator(op, v)
  PROVE  IInv'
<1> DEFINE r == [op |-> op, version |-> v, key |-> 0, of |-> 0]
<1>1. r.key \in Nat /\ r.of \in Nat /\ r.op \in Ops /\ r.version \in Versions /\ Blank(r)
  BY DEF Blank
<1>2. Create(r) /\ UNCHANGED <<call, poll, signed, view, keyring, monitor, life>> /\ late' \subseteq late
  BY DEF OtherAdministrator
<1> HIDE DEF r
<1>3. /\ released' \in [Versions -> {"approved", "publishing", "published", "archived"}]
      /\ jobs' \in Seq(Job) /\ Len(jobs') = Len(jobs) + 1 /\ Len(jobs') <= MaxJobs
      /\ \A j \in DOMAIN jobs : j \in DOMAIN jobs' /\ jobs'[j] = jobs[j]
      /\ \A j \in DOMAIN jobs' : j \in DOMAIN jobs \/ j = Len(jobs) + 1
      /\ Len(jobs) + 1 \in DOMAIN jobs' /\ Like(jobs'[Len(jobs) + 1], r)
  BY <1>1, <1>2, CreateMakes DEF IInv
<1>4. /\ \A j \in DOMAIN jobs : Like(jobs'[j], jobs[j])
      /\ \A j \in DOMAIN jobs' : j \in DOMAIN jobs \/ Like(jobs'[j], r)
  BY <1>3 DEF Like
<1>5. Len(jobs) \in Nat
  BY DEF IInv, Shape
<1> QED
  BY <1>1, <1>2, <1>3, <1>4, <1>5, ServerStepKeeps

LEMMA JobEndsKeeps ==
  ASSUME DeskParameters, IInv, NEW j \in DOMAIN jobs, NEW result \in {"succeeded", "failed"}, JobEnds(j, result)
  PROVE  IInv'
<1>1. /\ jobs \in Seq(Job) /\ jobs[j] \in Job /\ released \in [Versions -> {"approved", "publishing", "published", "archived"}]
      /\ jobs[j].version \in Versions /\ Len(jobs) <= MaxJobs /\ Len(jobs) \in Nat
  <2>1. /\ jobs \in Seq(Job) /\ released \in [Versions -> {"approved", "publishing", "published", "archived"}]
        /\ Len(jobs) <= MaxJobs /\ Len(jobs) \in Nat
    BY DEF IInv, Shape
  <2>2. jobs[j] \in Job
    BY <2>1
  <2> QED
    BY <2>1, <2>2 DEF Job
<1>2. released' \in [Versions -> {"approved", "publishing", "published", "archived"}]
  BY <1>1 DEF JobEnds
<1>3. [jobs[j] EXCEPT !.status = result] \in Job /\ Like([jobs[j] EXCEPT !.status = result], jobs[j])
  BY <1>1 DEF Job, JobStatuses, Like
<1>4. jobs' = [jobs EXCEPT ![j] = [jobs[j] EXCEPT !.status = result]]
  BY DEF JobEnds
<1>5. jobs' \in Seq(Job) /\ Len(jobs') = Len(jobs) /\ DOMAIN jobs' = DOMAIN jobs
  BY <1>1, <1>3, <1>4
<1>6. \A i \in DOMAIN jobs : Like(jobs'[i], jobs[i])
  BY <1>1, <1>3, <1>4 DEF Like
<1>7. UNCHANGED <<call, poll, signed, view, keyring, monitor, life>> /\ late' \subseteq late /\ call \in Requested
  BY DEF JobEnds, Requested
<1> QED
  BY <1>1, <1>2, <1>5, <1>6, <1>7, ServerStepKeeps

----------------------------------------------------------------------------
\* A step of the page that shows the same and asks for nothing new.
LEMMA PageStepKeeps ==
  ASSUME DeskParameters, IInv, Shape', Requests', Synced', UNCHANGED <<server, view, keyring>>,
         call' = call \/ Blank(call'), late' \subseteq late \cup {[call EXCEPT !.life = 0]},
         poll'.at = "read" /\ poll'.latest =>
           \/ poll.at = "read" /\ poll.latest /\ poll'.seen = poll.seen
           \/ poll'.seen.job = Len(jobs)
  PROVE  IInv'
<1>1. call \in Write
  BY DEF IInv, Shape
<1>2. Like([call EXCEPT !.life = 0], call)
  BY <1>1 DEF Like, Write
<1>3. ASSUME NEW r \in Requested' PROVE Blank(r) \/ \E s \in Requested : Like(r, s)
  <2>1. r \in late \/ r = [call EXCEPT !.life = 0] \/ Blank(r) \/ r = call \/ \E j \in DOMAIN jobs : r = jobs[j]
    BY <1>3 DEF Requested, server
  <2> QED
    BY <2>1, <1>2 DEF Requested, Like
<1>4. Asking' => call' = call /\ Asking
  BY DEF Requests, Writes, Blank, Asking
<1>5. Passes
  <2>1. KeysDropped
    BY DEF KeysDropped, keyring, IInv, Shape
  <2>2. jobs' = jobs /\ Len(jobs) \in Nat
    BY DEF server, IInv, Shape
  <2> QED
    BY <1>3, <1>4, <2>1, <2>2 DEF Passes, Like
<1> QED
  BY <1>5, SameViewKeeps DEF keyring

LEMMA Blanks ==
  ASSUME Shape
  PROVE  /\ NoCall \in Write /\ Blank(NoCall) /\ NoCall.net = "none" /\ NoCall.op = "none" /\ NoCall.seen = NoJob
         /\ NoPoll \in Poll /\ NoPoll.at = "none" /\ ~NoPoll.first /\ NoPoll.seen = NoJob /\ NoPoll.expected = 0
         /\ \A latest \in BOOLEAN :
              /\ Read(latest) \in Poll /\ Read(latest) # NoPoll /\ Read(latest).at = "wire"
              /\ Read(latest).latest = latest /\ Read(latest).life = life /\ ~Read(latest).first
              /\ Read(latest).expected = view.job /\ Read(latest).seen = NoJob
         /\ view.job \in Nat /\ view.job <= Len(jobs) /\ life \in Nat
         /\ IsSeen(NoJob)
<1>1. view \in Shown /\ life \in Nat /\ IsSeen(view) /\ Len(jobs) \in Nat /\ DOMAIN jobs = 1 .. Len(jobs)
  BY DEF Shape
<1>2. NoJob \in Shown
  BY DEF NoJob, Shown, JobStatuses
<1>3. view.job \in Nat /\ view.job <= Len(jobs)
  BY <1>1 DEF Shown, IsSeen, NoJob
<1>4. NoCall \in Write /\ Blank(NoCall) /\ NoCall.net = "none" /\ NoCall.op = "none" /\ NoCall.seen = NoJob
  BY <1>2 DEF NoCall, Write, Blank
<1>5. NoPoll \in Poll /\ NoPoll.at = "none" /\ ~NoPoll.first /\ NoPoll.seen = NoJob /\ NoPoll.expected = 0
  BY <1>2 DEF NoPoll, Poll
<1>6. ASSUME NEW latest \in BOOLEAN
      PROVE  /\ Read(latest) \in Poll /\ Read(latest) # NoPoll /\ Read(latest).at = "wire"
             /\ Read(latest).latest = latest /\ Read(latest).life = life /\ ~Read(latest).first
             /\ Read(latest).expected = view.job /\ Read(latest).seen = NoJob
  BY <1>1, <1>2, <1>3 DEF Read, Poll, NoPoll
<1>7. IsSeen(NoJob)
  BY DEF IsSeen, NoJob
<1> QED
  BY <1>1, <1>3, <1>4, <1>5, <1>6, <1>7

\* The types, when server, view and keys are as they were.
LEMMA PageShape ==
  ASSUME Shape, UNCHANGED <<server, view, keyring, life>>,
         call' \in Write, call'.seen \in {call.seen, NoJob},
         late' \subseteq late \cup {[call EXCEPT !.life = 0]},
         poll' \in Poll, IsSeen(poll'.seen), poll'.expected <= Len(jobs),
         signed' \in BOOLEAN, syncPending' \in BOOLEAN, error' \in BOOLEAN, unread' \in BOOLEAN
  PROVE  Shape'
<1>1. [call EXCEPT !.life = 0] \in Write /\ late \subseteq Write
  BY DEF Shape, Write
<1>2. IsSeen(call.seen)' /\ IsSeen(view)' /\ IsSeen(poll.seen)'
  BY DEF Shape, IsSeen, NoJob, server
<1> QED
  BY <1>1, <1>2 DEF Shape, server, keyring

\* What the page gives up was asked for.
LEMMA GivenUpAsked ==
  ASSUME Shape, Requests
  PROVE  /\ GivenUp \subseteq late \cup {[call EXCEPT !.life = 0]}
         /\ \A r \in GivenUp : r.op \in Ops /\ r.version \in Versions /\ r.key # 0
<1>1. call \in Write
  BY DEF Shape
<1>2. call.net = "wire" /\ call.op \in Ops => call.version \in Versions /\ call.key # 0
  BY DEF Requests, Writes, Asking
<1>3. /\ [call EXCEPT !.life = 0].op = call.op /\ [call EXCEPT !.life = 0].version = call.version
      /\ [call EXCEPT !.life = 0].key = call.key
  BY <1>1 DEF Write
<1>4. \A r \in late : r.op \in Ops /\ r.version \in Versions /\ r.key # 0
  BY DEF Requests
<1> QED
  BY <1>2, <1>3, <1>4 DEF GivenUp

LEMMA CallSyncedKeeps ==
  ASSUME DeskParameters, IInv, CallSynced
  PROVE  IInv'
<1>1. /\ UNCHANGED <<server, view, keyring, life, late, poll, signed, syncPending, error>>
      /\ call' = NoCall /\ unread' = FALSE
  BY DEF CallSynced
<1>2. Shape
  BY DEF IInv
<1>3. Shape'
  <2>1. IsSeen(poll.seen) /\ poll \in Poll /\ poll.expected <= Len(jobs) /\ signed \in BOOLEAN
        /\ syncPending \in BOOLEAN /\ error \in BOOLEAN
    BY <1>2 DEF Shape
  <2> QED
    BY <1>1, <1>2, <2>1, Blanks, PageShape
<1>4. Requests'
  <2>1. Writes'
    BY <1>1, <1>2, Blanks DEF Writes, Asking, Ops, Blank
  <2>2. Polls'
    BY <1>1 DEF IInv, Requests, Polls, Fetching
  <2> QED
    BY <1>1, <2>1, <2>2 DEF IInv, Requests
<1>5. Synced'
  BY <1>1 DEF Synced
<1> QED
  BY <1>1, <1>2, <1>3, <1>4, <1>5, Blanks, PageStepKeeps

LEMMA CallFailsKeeps ==
  ASSUME DeskParameters, IInv, CallFails
  PROVE  IInv'
<1>1. /\ UNCHANGED <<server, view, keyring, life, signed, syncPending, error, unread>>
      /\ call' = NoCall /\ late' = GivenUp /\ Asking /\ poll' \in {poll, Read(TRUE)}
      /\ Fetching => poll' = poll
  BY DEF CallFails, monitor, Asking
<1>2. Shape /\ Requests /\ signed
  BY <1>1, Blanks DEF IInv, Requests, Writes, Asking, Ops
<1>3. Shape'
  <2>1. IsSeen(poll.seen) /\ poll \in Poll /\ poll.expected <= Len(jobs) /\ signed \in BOOLEAN
        /\ syncPending \in BOOLEAN /\ error \in BOOLEAN /\ unread \in BOOLEAN
    BY <1>2 DEF Shape
  <2> QED
    BY <1>1, <1>2, <2>1, Blanks, PageShape, GivenUpAsked
<1>4. Requests'
  <2>1. Writes'
    BY <1>1, <1>2, Blanks DEF Writes, Asking, Ops, Blank
  <2>2. Polls'
    BY <1>1, <1>2, Blanks DEF Requests, Polls, Fetching
  <2> QED
    BY <1>1, <1>2, <2>1, <2>2, GivenUpAsked DEF Requests
<1>5. Synced'
  <2>1. ~Fetching => ~poll.first
    BY <1>2, Blanks DEF Fetching
  <2>2. call.net # "sync"
    BY <1>1 DEF Asking
  <2> QED
    BY <1>1, <1>2, <2>1, <2>2 DEF IInv, Synced, Requests, Polls
<1>6. poll'.at = "read" => poll' = poll
  BY <1>1, <1>2, Blanks
<1> QED
  BY <1>1, <1>2, <1>3, <1>4, <1>5, <1>6, Blanks, GivenUpAsked, PageStepKeeps

\* An edit makes the page busy, and is over.
LEMMA EditKeeps ==
  ASSUME DeskParameters, IInv, Edit \/ EditEnds
  PROVE  IInv'
<1>1. /\ UNCHANGED <<server, view, keyring, life, signed, syncPending, error, unread, late, poll>>
      /\ call.net # "sync"
      /\ \/ signed /\ ~poll.first /\ call' = [NoCall EXCEPT !.op = "edit", !.net = "wire"]
         \/ call' = NoCall
  BY Blanks DEF Edit, EditEnds, monitor, Idle, Busy, IInv, Requests, Writes
<1>2. Shape /\ Requests
  BY DEF IInv
<1>3. /\ call' \in Write /\ Blank(call') /\ call'.seen = NoJob
      /\ \/ call' = NoCall
         \/ signed /\ ~poll.first /\ call'.op = "edit" /\ call'.net = "wire"
  BY <1>1, <1>2, Blanks DEF NoCall, Write, Blank
<1>4. Shape'
  <2>1. IsSeen(poll.seen) /\ poll \in Poll /\ poll.expected <= Len(jobs) /\ signed \in BOOLEAN
        /\ syncPending \in BOOLEAN /\ error \in BOOLEAN /\ unread \in BOOLEAN
    BY <1>2 DEF Shape
  <2> QED
    BY <1>1, <1>2, <1>3, <2>1, PageShape
<1>5. Requests'
  <2>1. Writes'
    BY <1>1, <1>2, <1>3, Blanks DEF Writes, Asking, Ops, Blank
  <2>2. Polls'
    BY <1>1, <1>2, <1>3 DEF Requests, Polls, Fetching
  <2> QED
    BY <1>1, <1>2, <2>1, <2>2 DEF Requests
<1>6. Synced'
  BY <1>1 DEF IInv, Synced
<1> QED
  BY <1>1, <1>3, <1>4, <1>5, <1>6, PageStepKeeps

\* What a step of the monitor leaves to be shown about its read.
LEMMA PollStepKeeps ==
  ASSUME DeskParameters, IInv, UNCHANGED <<server, call, late, signed, view, keyring, life>>,
         poll' \in Poll, IsSeen(poll'.seen), poll'.expected <= Len(jobs),
         syncPending' \in BOOLEAN, error' \in BOOLEAN, unread' \in BOOLEAN,
         Polls', Synced', Fetching' => Fetching \/ ~Busy,
         poll'.at = "read" /\ poll'.latest =>
           \/ poll.at = "read" /\ poll.latest /\ poll'.seen = poll.seen
           \/ poll'.seen.job = Len(jobs)
  PROVE  IInv'
<1>1. Shape /\ Requests
  BY DEF IInv
<1>2. Shape'
  <2>1. call \in Write /\ signed \in BOOLEAN /\ late \subseteq Write
    BY <1>1 DEF Shape
  <2> QED
    BY <1>1, <2>1, PageShape
<1>3. Writes'
  <2>1. Asking => Busy
    BY <1>1, Blanks DEF Asking, Busy, Ops
  <2> QED
    BY <1>1, <2>1 DEF Requests, Writes, Asking, Fetching, server
<1>4. Requests'
  BY <1>1, <1>3 DEF Requests
<1> QED
  BY <1>2, <1>4, PageStepKeeps

LEMMA RefreshKeeps ==
  ASSUME DeskParameters, IInv, Refresh
  PROVE  IInv'
<1>1. /\ UNCHANGED <<server, call, late, signed, view, keyring, life, syncPending, error, unread>>
      /\ signed /\ ~Busy /\ ~Fetching /\ poll' = Read(view = NoJob)
  BY DEF Refresh, monitor, Idle
<1>2. Shape /\ Requests
  BY DEF IInv
<1>3. view # NoJob => view.job # 0
  BY <1>2 DEF Shape, IsSeen, NoJob
<1>4. /\ poll' \in Poll /\ IsSeen(poll'.seen) /\ poll'.expected <= Len(jobs) /\ poll'.at = "wire"
      /\ poll'.latest \/ poll'.expected # 0
      /\ poll'.life = life /\ ~poll'.first
  BY <1>1, <1>2, <1>3, Blanks
<1>5. Polls'
  BY <1>1, <1>4 DEF Polls
<1>6. Synced'
  BY <1>1, <1>2, Blanks DEF IInv, Synced, Fetching
<1>7. syncPending \in BOOLEAN /\ error \in BOOLEAN /\ unread \in BOOLEAN
  BY <1>2 DEF Shape
<1> QED
  BY <1>1, <1>4, <1>5, <1>6, <1>7, PollStepKeeps

LEMMA PollReadKeeps ==
  ASSUME DeskParameters, IInv, PollRead
  PROVE  IInv'
<1> DEFINE j == IF poll.latest THEN Len(jobs) ELSE poll.expected
           read == IF j = 0 THEN NoJob ELSE Seen(j)
<1>1. /\ UNCHANGED <<server, call, late, signed, view, keyring, life, syncPending, error, unread>>
      /\ poll.at = "wire" /\ poll' = [poll EXCEPT !.at = "read", !.seen = read]
  BY DEF PollRead, monitor
<1>2. Shape /\ Requests /\ poll \in Poll /\ Fetching
  BY <1>1, Blanks DEF IInv, Shape, Fetching
<1>3. j \in Nat /\ j <= Len(jobs) /\ Len(jobs) \in Nat /\ (~poll.latest => j = poll.expected /\ j # 0)
  BY <1>2 DEF Shape, Poll, Requests, Polls
<1> HIDE DEF j
<1>4. read \in Shown /\ IsSeen(read) /\ read.job = j
  <2>1. CASE j = 0
    BY <2>1 DEF NoJob, Shown, IsSeen, JobStatuses
  <2>2. CASE j # 0
    <3>1. j \in DOMAIN jobs /\ jobs[j] \in Job
      BY <1>2, <1>3, <2>2 DEF Shape
    <3> QED
      BY <1>3, <2>2, <3>1 DEF Seen, Shown, IsSeen, Job, JobStatuses
  <2> QED
    BY <2>1, <2>2
<1> HIDE DEF read
<1>5. /\ poll' \in Poll /\ poll'.seen = read /\ poll'.at = "read" /\ poll'.expected = poll.expected
      /\ poll'.latest = poll.latest /\ poll'.first = poll.first /\ poll'.life = poll.life
  BY <1>1, <1>2, <1>4 DEF Poll
<1>6. Polls'
  BY <1>1, <1>2, <1>3, <1>4, <1>5 DEF Requests, Polls
<1>7. Synced'
  BY <1>1, <1>5 DEF IInv, Synced
<1>8. syncPending \in BOOLEAN /\ error \in BOOLEAN /\ unread \in BOOLEAN /\ poll.expected <= Len(jobs)
  BY <1>2 DEF Shape
<1>9. poll'.latest => poll'.seen.job = Len(jobs)
  BY <1>4, <1>5 DEF j
<1> QED
  BY <1>1, <1>2, <1>4, <1>5, <1>6, <1>7, <1>8, <1>9, PollStepKeeps

LEMMA PollOverKeeps ==
  ASSUME DeskParameters, IInv, PollSynced \/ PollDropped \/ PollFails
  PROVE  IInv'
<1>1. /\ UNCHANGED <<server, call, late, signed, view, keyring, life>> /\ poll' = NoPoll
      /\ poll.at # "none"
  BY Blanks DEF IInv, PollSynced, PollDropped, PollFails, monitor, Requests, Polls
<1>2. Shape /\ Requests /\ Fetching
  BY <1>1, Blanks DEF IInv, Fetching
<1>3. syncPending' \in BOOLEAN /\ error' \in BOOLEAN /\ unread' \in BOOLEAN
  BY <1>2 DEF Shape, PollSynced, PollDropped, PollFails, monitor, Current, Busy
<1>4. Polls'
  BY <1>1 DEF Polls, Fetching
<1>5. poll.first => Current
  BY <1>2 DEF Requests, Polls, Current, Busy
<1>6. Synced'
  <2>1. CASE PollSynced
    BY <2>1 DEF PollSynced, Synced
  <2>2. CASE PollDropped
    BY <1>5, <2>2 DEF PollDropped, Synced, monitor, IInv
  <2>3. CASE PollFails
    BY <1>5, <2>3 DEF PollFails, Synced, IInv
  <2> QED
    BY <2>1, <2>2, <2>3
<1>7. ~Fetching' /\ poll'.at # "read" /\ poll' \in Poll /\ IsSeen(poll'.seen) /\ poll'.expected <= Len(jobs)
  <2>1. Len(jobs) \in Nat
    BY <1>2 DEF Shape
  <2> QED
    BY <1>1, <1>2, <2>1, Blanks DEF Fetching
<1> QED
  BY <1>1, <1>3, <1>4, <1>6, <1>7, PollStepKeeps

----------------------------------------------------------------------------
LEMMA SessionEndsKeeps ==
  ASSUME DeskParameters, IInv, SessionEnds
  PROVE  IInv'
<1>1. /\ UNCHANGED <<server, view, keyring, error, unread, life>>
      /\ signed' = FALSE /\ late' = GivenUp /\ call' = NoCall /\ poll' = NoPoll /\ syncPending' = FALSE
  BY DEF SessionEnds
<1>2. Shape /\ Requests
  BY DEF IInv
<1>3. Shape'
  <2>1. error \in BOOLEAN /\ unread \in BOOLEAN /\ Len(jobs) \in Nat
    BY <1>2 DEF Shape
  <2>2. poll' \in Poll /\ IsSeen(poll'.seen) /\ poll'.expected <= Len(jobs)
    BY <1>1, <1>2, <2>1, Blanks
  <2>3. call' \in Write /\ call'.seen = NoJob
    BY <1>1, <1>2, Blanks
  <2>4. late' \subseteq late \cup {[call EXCEPT !.life = 0]}
    BY <1>1, <1>2, GivenUpAsked
  <2> QED
    BY <1>1, <1>2, <2>1, <2>2, <2>3, <2>4, PageShape
<1>4. Requests'
  <2>1. Writes'
    BY <1>1, <1>2, Blanks DEF Writes, Asking, Ops, Blank
  <2>2. Polls'
    BY <1>1 DEF Polls, Fetching
  <2> QED
    BY <1>1, <1>2, <2>1, <2>2, GivenUpAsked DEF Requests
<1>5. Synced'
  BY <1>1 DEF Synced
<1> QED
  BY <1>1, <1>2, <1>3, <1>4, <1>5, Blanks, GivenUpAsked, PageStepKeeps

LEMMA SignInKeeps ==
  ASSUME DeskParameters, IInv, SignIn
  PROVE  IInv'
<1> DEFINE first == [Read(TRUE) EXCEPT !.first = TRUE]
<1>1. UNCHANGED <<server, call, late, view, keyring, syncPending, error, unread, life>> /\ signed' = TRUE
      /\ ~signed /\ poll' = (IF Fetching THEN poll ELSE first)
  BY DEF SignIn, monitor
<1>2. Shape /\ Requests /\ call = NoCall /\ ~Fetching
  BY <1>1 DEF IInv, Requests, Writes, Polls
<1>3. /\ first \in Poll /\ IsSeen(first.seen) /\ first.expected = view.job /\ first.expected <= Len(jobs)
      /\ first.first /\ first.latest /\ first.at = "wire" /\ first.life = life
  BY <1>2, Blanks DEF Poll
<1> HIDE DEF first
<1>4. poll' = first
  BY <1>1, <1>2
<1>5. Shape'
  <2>1. error \in BOOLEAN /\ unread \in BOOLEAN /\ syncPending \in BOOLEAN
    BY <1>2 DEF Shape
  <2> QED
    BY <1>1, <1>2, <1>3, <1>4, <2>1, Blanks, PageShape
<1>6. Requests'
  <2>1. Writes'
    BY <1>1, <1>2, Blanks DEF Writes, Asking, Ops, Blank
  <2>2. Polls'
    BY <1>1, <1>2, <1>3, <1>4 DEF Polls
  <2> QED
    BY <1>1, <1>2, <2>1, <2>2 DEF Requests
<1>7. Synced'
  BY <1>3, <1>4 DEF Synced
<1> QED
  BY <1>1, <1>3, <1>4, <1>5, <1>6, <1>7, PageStepKeeps

----------------------------------------------------------------------------
\* A new life: what was asked for is history, and is nobody's retry.
LEMMA BeginKeeps ==
  ASSUME DeskParameters, IInv, NEW requests, Begin(requests),
         requests \subseteq late \cup {[call EXCEPT !.life = 0]},
         \A r \in requests : r.op \in Ops /\ r.version \in Versions /\ r.key # 0,
         call' = NoCall, poll' = NoPoll, syncPending' = FALSE, error' \in BOOLEAN,
         opKeys' = opKeys \/ opKeys' = [o \in Ops |-> [v \in Versions |-> 0]]
  PROVE  IInv'
<1>1. Shape /\ Requests
  BY DEF IInv
<1>2. /\ jobs' = [j \in DOMAIN jobs |-> [jobs[j] EXCEPT !.of = 0]]
      /\ late' = {[r EXCEPT !.of = 0] : r \in requests}
      /\ view' = NoJob /\ retryKeys' = [j \in JobIds |-> 0] /\ life' = life + 1
      /\ signed' = FALSE /\ unread' = FALSE /\ released' = released /\ lastKey' = lastKey
  BY DEF Begin
<1>3. /\ jobs' \in Seq(Job) /\ Len(jobs') = Len(jobs) /\ DOMAIN jobs' = DOMAIN jobs
      /\ \A j \in DOMAIN jobs : /\ jobs'[j].of = 0 /\ jobs'[j].key = jobs[j].key /\ jobs'[j].op = jobs[j].op
                                /\ jobs'[j].version = jobs[j].version
  <2>1. jobs \in Seq(Job) /\ Len(jobs) \in Nat /\ DOMAIN jobs = 1 .. Len(jobs)
    BY <1>1 DEF Shape
  <2>2. \A j \in DOMAIN jobs : jobs[j] \in Job
    BY <2>1
  <2>3. \A r \in Job : [r EXCEPT !.of = 0] \in Job
    BY DEF Job
  <2>4. ASSUME NEW j \in DOMAIN jobs
        PROVE  /\ jobs'[j].of = 0 /\ jobs'[j].key = jobs[j].key /\ jobs'[j].op = jobs[j].op
               /\ jobs'[j].version = jobs[j].version
    <3>1. jobs'[j] = [jobs[j] EXCEPT !.of = 0]
      BY <1>2
    <3> QED
      BY <2>2, <3>1 DEF Job
  <2>6. jobs' \in [1 .. Len(jobs) -> Job]
    BY <1>2, <2>1, <2>2, <2>3
  <2>7. jobs' \in Seq(Job) /\ Len(jobs') = Len(jobs) /\ DOMAIN jobs' = DOMAIN jobs
    BY <2>1, <2>6
  <2> QED
    BY <2>4, <2>7
<1>4. \A r \in requests : /\ r \in Write
                          /\ \E s \in Requested : r.key = s.key /\ r.op = s.op /\ r.version = s.version
  <2>1. [call EXCEPT !.life = 0] \in Write /\ call \in Write /\ late \subseteq Write
    BY <1>1 DEF Shape, Write
  <2>2. LET g == [call EXCEPT !.life = 0] IN g.key = call.key /\ g.op = call.op /\ g.version = call.version
    BY <2>1 DEF Write
  <2>3. call \in Requested /\ late \subseteq Requested
    BY DEF Requested
  <2> QED
    BY <2>1, <2>2, <2>3
<1>5. \A r \in late' : /\ r \in Write /\ r.of = 0 /\ r.op \in Ops /\ r.version \in Versions /\ r.key # 0
                       /\ \E s \in Requested : r.key = s.key /\ r.op = s.op /\ r.version = s.version
  <2> SUFFICES ASSUME NEW q \in requests, NEW r, r = [q EXCEPT !.of = 0]
               PROVE  /\ r \in Write /\ r.of = 0 /\ r.op \in Ops /\ r.version \in Versions /\ r.key # 0
                      /\ \E s \in Requested : r.key = s.key /\ r.op = s.op /\ r.version = s.version
    BY <1>2
  <2>1. r \in Write /\ r.of = 0 /\ r.op = q.op /\ r.version = q.version /\ r.key = q.key
    BY <1>4 DEF Write
  <2> QED
    BY <1>4, <2>1
<1>6. \A r \in Requested' : /\ r.of = 0 /\ r.key \in Nat
                            /\ r.key # 0 => \E s \in Requested : r.key = s.key /\ r.op = s.op /\ r.version = s.version
  <2>1. ASSUME NEW j \in DOMAIN jobs PROVE jobs'[j].key \in Nat /\ jobs[j] \in Requested
    BY <1>1, <1>3, <2>1, AskedShape DEF AskedFacts
  <2>2. \A r \in Write : r.key \in Nat
    BY DEF Write
  <2>3. NoCall.key = 0 /\ NoCall.of = 0
    BY DEF NoCall
  <2>4. \A r \in Requested' : r \in late' \/ r = call' \/ \E j \in DOMAIN jobs' : r = jobs'[j]
    BY DEF Requested
  <2> QED
    BY <1>3, <1>5, <2>1, <2>2, <2>3, <2>4
<1>7. opKeys' \in [Ops -> [Versions -> KeyIds]] /\ retryKeys' \in [JobIds -> KeyIds] /\ lastKey \in Nat
      /\ \A o \in Ops, v \in Versions : opKeys'[o][v] \in {opKeys[o][v], 0}
  <2>1. 0 \in KeyIds /\ KeyIds \subseteq Nat
    BY DEF KeyIds, DeskParameters
  <2>2. opKeys \in [Ops -> [Versions -> KeyIds]] /\ lastKey \in KeyIds
    BY <1>1 DEF Shape
  <2>3. retryKeys' \in [JobIds -> KeyIds]
    BY <1>2, <2>1
  <2> QED
    BY <2>1, <2>2, <2>3
<1>8. Shape'
  <2>1. IsSeen(view)' /\ IsSeen(call.seen)' /\ IsSeen(poll.seen)' /\ view' \in Shown
    BY <1>1, <1>2, Blanks DEF IsSeen, NoJob, Shown, JobStatuses
  <2>2. call' \in Write /\ poll' \in Poll /\ poll'.expected <= Len(jobs')
    BY <1>1, <1>3, Blanks DEF Shape
  <2>3. late' \subseteq Write
    BY <1>5
  <2>4. /\ released' \in [Versions -> {"approved", "publishing", "published", "archived"}]
        /\ Len(jobs') <= MaxJobs /\ lastKey' \in KeyIds /\ life' \in Nat
    BY <1>1, <1>2, <1>3 DEF Shape
  <2>5. signed' \in BOOLEAN /\ syncPending' \in BOOLEAN /\ error' \in BOOLEAN /\ unread' \in BOOLEAN
    BY <1>2
  <2> QED
    BY <1>3, <1>7, <2>1, <2>2, <2>3, <2>4, <2>5 DEF Shape
<1>9. Requests'
  <2>1. Writes'
    BY <1>1, <1>2, Blanks DEF Writes, Asking, Ops, Blank
  <2>2. Polls'
    BY DEF Polls, Fetching
  <2> QED
    BY <1>5, <2>1, <2>2 DEF Requests
<1>10. Synced'
  BY <1>2 DEF Synced
<1>11. KeyOwners'
  <2>1. /\ DOMAIN jobs' = 1 .. Len(jobs') /\ Len(jobs') \in Nat
    BY <1>8 DEF Shape
  <2>2. \A r \in Requested' : r.key <= lastKey' /\ r.of <= Len(jobs')
    BY <1>2, <1>6, <1>7, <2>1 DEF IInv, KeyOwners
  <2>3. \A j \in DOMAIN jobs' : jobs'[j].of < j
    BY <1>3, <2>1
  <2>4. ASSUME NEW o \in Ops, NEW v \in Versions, opKeys'[o][v] # 0
        PROVE  /\ opKeys'[o][v] <= lastKey'
               /\ \A r \in Requested' : r.key = opKeys'[o][v] => r.of = 0 /\ r.op = o /\ r.version = v
               /\ \A p \in Ops, w \in Versions : opKeys'[p][w] = opKeys'[o][v] => p = o /\ w = v
    <3>1. opKeys'[o][v] = opKeys[o][v]
      BY <1>7, <2>4
    <3>2. /\ opKeys[o][v] <= lastKey
          /\ \A r \in Requested : r.key = opKeys[o][v] => r.of = 0 /\ r.op = o /\ r.version = v
          /\ \A p \in Ops, w \in Versions : opKeys[p][w] = opKeys[o][v] => p = o /\ w = v
      BY <2>4, <3>1 DEF IInv, KeyOwners
    <3> QED
      BY <1>2, <1>6, <1>7, <2>4, <3>1, <3>2
  <2>5. ~Asking'
    BY <1>1, Blanks DEF Asking
  <2> QED
    BY <1>2, <1>6, <2>2, <2>3, <2>4, <2>5 DEF KeyOwners
<1>12. Retries'
  <2>1. \A j : ~Retried(j)'
    BY <1>6 DEF Retried
  <2>2. RetriedOnce'
    BY <1>6 DEF RetriedOnce, Requested
  <2> QED
    BY <1>6, <2>1, <2>2 DEF Retries
<1>13. EndedKeyIsForgotten'
  BY <1>2 DEF EndedKeyIsForgotten, Ended, NoJob
<1> QED
  BY <1>8, <1>9, <1>10, <1>11, <1>12, <1>13 DEF IInv

LEMMA SignOutKeeps ==
  ASSUME DeskParameters, IInv, SignOut
  PROVE  IInv'
<1>1. Begin(late) /\ call' = NoCall /\ poll' = NoPoll /\ syncPending' = FALSE /\ opKeys' = opKeys
      /\ error' \in BOOLEAN
  BY DEF SignOut, Idle, Busy, IInv, Shape
<1>2. \A r \in late : r.op \in Ops /\ r.version \in Versions /\ r.key # 0
  BY DEF IInv, Requests
<1> QED
  BY <1>1, <1>2, BeginKeeps

LEMMA ReloadKeeps ==
  ASSUME DeskParameters, IInv, Reload
  PROVE  IInv'
BY BeginKeeps, GivenUpAsked DEF Reload, IInv

----------------------------------------------------------------------------
\* The key that made an ended job is an operation's no more.
LEMMA SettleForgets ==
  ASSUME DeskParameters, Shape, KeyOwners, NEW seen \in Shown, seen.status # "none", seen.job \in DOMAIN jobs,
         Settle(seen)
  PROVE  /\ opKeys' \in [Ops -> [Versions -> KeyIds]]
         /\ \A o \in Ops, v \in Versions : opKeys'[o][v] \in {opKeys[o][v], 0}
         /\ Ended(seen.status) => jobs[seen.job].key \notin {opKeys'[o][v] : o \in Ops, v \in Versions} \ {0}
<1> DEFINE op == jobs[seen.job].op
           version == jobs[seen.job].version
<1>1. op \in Ops /\ version \in Versions /\ jobs[seen.job] \in Requested
  <2>1. jobs[seen.job] \in Job /\ jobs[seen.job] \in Requested
    BY AskedShape DEF AskedFacts
  <2> QED
    BY <2>1 DEF Job
<1>2. opKeys' = IF Ended(seen.status) THEN [opKeys EXCEPT ![op][version] = 0] ELSE opKeys
  BY DEF Settle
<1>3. opKeys \in [Ops -> [Versions -> KeyIds]] /\ 0 \in KeyIds
  BY DEF Shape, KeyIds, DeskParameters
<1>4. ASSUME NEW o \in Ops, NEW v \in Versions, opKeys[o][v] # 0, opKeys[o][v] = jobs[seen.job].key
      PROVE  o = op /\ v = version
  BY <1>1, <1>4 DEF KeyOwners
<1> HIDE DEF op, version
<1>5. opKeys' \in [Ops -> [Versions -> KeyIds]]
  BY <1>1, <1>2, <1>3
<1>6. \A o \in Ops, v \in Versions : opKeys'[o][v] \in {opKeys[o][v], 0}
  BY <1>1, <1>2, <1>3
<1>7. Ended(seen.status) => opKeys'[op][version] = 0
  BY <1>1, <1>2, <1>3
<1> QED
  BY <1>4, <1>5, <1>6, <1>7

LEMMA AcceptKeeps ==
  ASSUME DeskParameters, IInv, Accept
  PROVE  IInv'
<1> DEFINE n == call.seen.job
<1>1. Shape /\ Requests /\ KeyOwners /\ Retries
  BY DEF IInv
<1>2. /\ UNCHANGED <<server, late, poll, signed, lastKey, syncPending, error, life>>
      /\ view' = call.seen /\ Settle(call.seen) /\ unread' = Ended(call.seen.status)
      /\ retryKeys' = IF call.of # 0 THEN [retryKeys EXCEPT ![call.of] = 0] ELSE retryKeys
      /\ call' = [NoCall EXCEPT !.op = call.op, !.net = "sync"] /\ call.net = "answered"
  BY DEF Accept
<1>3. /\ Asking /\ call.op \in Ops /\ call.version \in Versions /\ call.key # 0 /\ signed /\ ~poll.first
      /\ n \in DOMAIN jobs /\ jobs[n].key = call.key
      /\ call.of # 0 => call.of = view.job /\ ~Fetching
  <2>1. signed /\ call # NoCall
    BY <1>1, <1>2, Blanks DEF Requests, Writes
  <2>2. ~poll.first
    BY <1>1, <2>1, Blanks DEF Requests, Polls, Fetching
  <2> QED
    BY <1>1, <1>2, <2>1, <2>2 DEF Requests, Writes, Asking
<1>4. /\ DOMAIN jobs = 1 .. Len(jobs) /\ Len(jobs) \in Nat /\ call \in Requested /\ jobs[n] \in Requested
      /\ \A j \in DOMAIN jobs : jobs[j] \in Requested /\ jobs[j].of \in Nat /\ jobs[j].of < j
      /\ call \in Write /\ call.seen \in Shown /\ call.of \in Nat /\ call.of <= Len(jobs)
  <2>1. call \in Write
    BY <1>1 DEF Shape
  <2> QED
    BY <1>1, <1>3, <2>1, AskedShape DEF AskedFacts, KeyOwners, Write
<1>5. call.seen.status # "none" /\ IsSeen(call.seen)
  <2>1. IsSeen(call.seen)
    BY <1>1 DEF Shape
  <2> QED
    BY <1>3, <1>4, <2>1 DEF IsSeen, NoJob
<1> HIDE DEF n
<1>6. /\ opKeys' \in [Ops -> [Versions -> KeyIds]]
      /\ \A o \in Ops, v \in Versions : opKeys'[o][v] \in {opKeys[o][v], 0}
      /\ Ended(view'.status) => jobs[view'.job].key \notin {opKeys'[o][v] : o \in Ops, v \in Versions} \ {0}
  BY <1>1, <1>2, <1>3, <1>4, <1>5, SettleForgets DEF n
<1>7. /\ retryKeys' \in [JobIds -> KeyIds] /\ \A i \in JobIds : retryKeys'[i] \in {retryKeys[i], 0}
      /\ \A i \in JobIds : i # call.of => retryKeys'[i] = retryKeys[i]
  <2>1. retryKeys \in [JobIds -> KeyIds] /\ 0 \in KeyIds
    BY <1>1 DEF Shape, KeyIds, DeskParameters
  <2> QED
    BY <1>2, <2>1
<1>8. /\ call' \in Write /\ Blank(call') /\ call'.net = "sync" /\ call'.op = call.op /\ call'.seen = NoJob
      /\ call' # NoCall
  BY <1>1, <1>2, <1>3, Blanks DEF NoCall, Write, Blank
<1>9. Shape'
  <2>1. IsSeen(view)' /\ IsSeen(call.seen)' /\ IsSeen(poll.seen)'
    BY <1>1, <1>2, <1>5, <1>8 DEF Shape, IsSeen, server, NoJob
  <2>2. unread' \in BOOLEAN
    BY <1>2 DEF Ended
  <2> QED
    BY <1>1, <1>2, <1>4, <1>6, <1>7, <1>8, <2>1, <2>2 DEF Shape, server
<1>10. Requests'
  <2>1. Writes'
    BY <1>2, <1>3, <1>8 DEF Writes, Asking, Ops, Blank
  <2>2. Polls'
    BY <1>1, <1>2, <1>3 DEF Requests, Polls, Fetching
  <2> QED
    BY <1>1, <1>2, <2>1, <2>2 DEF Requests
<1>11. Synced'
  BY <1>8 DEF Synced
<1>12. Passes
  <2>1. \A r \in Requested' : r \in late \/ Blank(r) \/ \E j \in DOMAIN jobs : r = jobs[j]
    BY <1>2, <1>8 DEF Requested, server
  <2>2. \A r \in Requested' : Blank(r) \/ \E s \in Requested : Like(r, s)
    BY <2>1 DEF Requested, Like
  <2>3. KeysDropped
    BY <1>2, <1>6, <1>7 DEF KeysDropped
  <2> QED
    BY <1>2, <1>4, <1>8, <2>2, <2>3 DEF Passes, Asking, server, Like
<1>13. KeyOwners' /\ RetriedOnce'
  BY <1>1, <1>9, <1>12, PassKeepsOwners DEF Retries
\* A job with a key that is still asked for has not been retried.
<1>14. ~Retried(n)
  <2> SUFFICES ASSUME Retried(n) PROVE FALSE
    OBVIOUS
  <2>1. jobs[n].key \notin OpKeys /\ (jobs[n].of # 0 => view.job # jobs[n].of)
    BY <1>1, <1>3 DEF Retries, n
  <2>2. call.key = IF call.of = 0 THEN opKeys[call.op][call.version] ELSE retryKeys[call.of]
    BY <1>1, <1>3 DEF KeyOwners
  <2>3. jobs[n].of = call.of
    BY <1>1, <1>3, <1>4 DEF KeyOwners, n
  <2> QED
    BY <1>3, <2>1, <2>2, <2>3 DEF OpKeys, n
<1>15. jobs[n].of = call.of
  BY <1>1, <1>3, <1>4 DEF KeyOwners, n
<1>16. ASSUME NEW j \in DOMAIN jobs', Retried(j)'
       PROVE  /\ jobs'[j].key \notin OpKeys'
              /\ jobs'[j].of # 0 => view'.job # jobs'[j].of
              /\ jobs'[j].of # 0 /\ poll'.at = "read" /\ poll'.latest => poll'.seen.job # jobs'[j].of
              /\ retryKeys'[j] = 0 =>
                   /\ view'.job # j /\ (\E m \in DOMAIN jobs' : jobs'[m].of = j)
                   /\ poll'.at = "read" /\ poll'.latest => poll'.seen.job # j
  <2>1. Retried(j) /\ j \in DOMAIN jobs /\ jobs' = jobs /\ poll' = poll /\ view'.job = n
    BY <1>1, <1>2, <1>9, <1>12, <1>16, PassKeepsRetried DEF server, n
  <2>2. /\ jobs[j].key \notin OpKeys
        /\ jobs[j].of # 0 /\ poll.at = "read" /\ poll.latest => poll.seen.job # jobs[j].of
        /\ retryKeys[j] = 0 =>
             /\ \E m \in DOMAIN jobs : jobs[m].of = j
             /\ poll.at = "read" /\ poll.latest => poll.seen.job # j
    BY <1>1, <2>1 DEF Retries
  <2>3. jobs[j].key \notin OpKeys'
    BY <1>6, <2>2 DEF OpKeys
  <2>4. jobs[j].of # 0 => n # jobs[j].of
    BY <1>4, <1>14, <2>1 DEF Retried
  <2>5. n # j
    BY <1>14, <2>1
  <2>6. j \in JobIds
    BY <1>1, <1>4, <2>1 DEF JobIds, Shape, DeskParameters
  <2>7. CASE retryKeys'[j] # retryKeys[j]
    <3>1. j = call.of /\ call.of # 0
      BY <1>4, <1>7, <2>1, <2>6, <2>7
    <3>2. poll.at = "none"
      BY <1>1, <1>3, <3>1, Blanks DEF Fetching
    <3>3. n \in DOMAIN jobs /\ jobs[n].of = j
      BY <1>3, <1>15, <3>1 DEF n
    <3> QED
      BY <2>1, <2>2, <2>3, <2>4, <2>5, <3>2, <3>3
  <2>8. CASE retryKeys'[j] = retryKeys[j]
    BY <2>1, <2>2, <2>3, <2>4, <2>5, <2>8
  <2> QED
    BY <2>7, <2>8
<1>17. Retries'
  <2>1. \A r \in Requested' : r.of # 0 /\ retryKeys'[r.of] # 0 => r.key = retryKeys'[r.of]
    <3> SUFFICES ASSUME NEW r \in Requested', r.of # 0, retryKeys'[r.of] # 0 PROVE r.key = retryKeys'[r.of]
      OBVIOUS
    <3>1. PICK s \in Requested : r.key = s.key /\ r.of = s.of
      BY <1>12 DEF Passes, Blank, Like
    <3>2. s.of \in JobIds
      BY <1>1, <1>4, <3>1, AskedShape DEF AskedFacts, KeyOwners, JobIds, Shape, DeskParameters
    <3> QED
      BY <1>1, <1>7, <3>1, <3>2 DEF Retries
  <2> QED
    BY <1>13, <1>16, <2>1 DEF Retries
<1>18. EndedKeyIsForgotten'
  BY <1>2, <1>6 DEF EndedKeyIsForgotten, server
<1> QED
  BY <1>9, <1>10, <1>11, <1>13, <1>17, <1>18 DEF IInv

LEMMA PollAppliedKeeps ==
  ASSUME DeskParameters, IInv, PollApplied
  PROVE  IInv'
<1> DEFINE n == poll.seen.job
<1>1. Shape /\ Requests /\ KeyOwners /\ Retries
  BY DEF IInv
<1>2. /\ UNCHANGED <<server, call, late, signed, retryKeys, lastKey, life>>
      /\ poll.at = "read" /\ signed /\ call = NoCall /\ poll.expected = view.job
      /\ view' = poll.seen
      /\ error' = FALSE /\ unread' = Ended(poll.seen.status) /\ syncPending' = Ended(poll.seen.status)
      /\ IF poll.seen = NoJob THEN poll' = NoPoll /\ UNCHANGED opKeys
                              ELSE poll' = Syncing(poll.seen.job) /\ Settle(poll.seen)
  BY DEF PollApplied, Current, Busy
<1>3. /\ poll \in Poll /\ poll.seen \in Shown /\ IsSeen(poll.seen) /\ Fetching /\ ~Asking
      /\ poll.seen # NoJob => poll.seen.status # "none" /\ n \in DOMAIN jobs
  <2>1. poll \in Poll /\ IsSeen(poll.seen)
    BY <1>1 DEF Shape
  <2> QED
    BY <1>1, <1>2, <2>1, Blanks DEF Poll, IsSeen, Fetching, Asking, Ops
<1>4. /\ DOMAIN jobs = 1 .. Len(jobs) /\ Len(jobs) \in Nat
      /\ \A j \in DOMAIN jobs : jobs[j] \in Requested /\ jobs[j].of \in Nat /\ jobs[j].of < j
  BY <1>1, AskedShape DEF AskedFacts, KeyOwners
<1>5. /\ opKeys' \in [Ops -> [Versions -> KeyIds]]
      /\ \A o \in Ops, v \in Versions : opKeys'[o][v] \in {opKeys[o][v], 0}
      /\ Ended(view'.status) => jobs[view'.job].key \notin {opKeys'[o][v] : o \in Ops, v \in Versions} \ {0}
  <2>1. CASE poll.seen = NoJob
    BY <1>1, <1>2, <2>1 DEF Shape, Ended, NoJob
  <2>2. CASE poll.seen # NoJob
    BY <1>1, <1>2, <1>3, <2>2, SettleForgets
  <2> QED
    BY <2>1, <2>2
<1>6. /\ poll' \in Poll /\ poll'.at # "read" /\ poll'.seen = NoJob
      /\ poll' # NoPoll => /\ poll'.at = "sync" /\ poll'.expected = view'.job /\ view'.job \in DOMAIN jobs
                           /\ poll'.life = life
  <2>1. CASE poll.seen = NoJob
    BY <1>1, <1>2, <2>1, Blanks
  <2>2. CASE poll.seen # NoJob
    <3>1. poll' = [NoPoll EXCEPT !.first = poll.first, !.expected = n, !.life = poll.life, !.at = "sync"]
      BY <1>2, <2>2 DEF Syncing
    <3>2. poll.life = life /\ n \in Nat /\ poll.first \in BOOLEAN /\ poll.life \in Nat
      BY <1>1, <1>3, <1>4, <2>2 DEF Requests, Polls, Poll
    <3>3. NoPoll \in Poll /\ NoPoll.seen = NoJob
      BY <1>1, Blanks
    <3> HIDE DEF n
    <3>4. poll' \in Poll /\ poll'.at = "sync" /\ poll'.seen = NoJob /\ poll'.expected = n /\ poll'.life = poll.life
      BY <3>1, <3>2, <3>3 DEF Poll
    <3> QED
      BY <1>2, <1>3, <2>2, <3>2, <3>4 DEF n
  <2> QED
    BY <2>1, <2>2
<1>7. Shape'
  <2>1. IsSeen(view)' /\ IsSeen(call.seen)' /\ IsSeen(poll.seen)'
    BY <1>1, <1>2, <1>3, <1>6 DEF Shape, IsSeen, server, NoJob
  <2>2. unread' \in BOOLEAN /\ syncPending' \in BOOLEAN /\ error' \in BOOLEAN
    <3>1. Ended(poll.seen.status) \in BOOLEAN
      BY DEF Ended
    <3> QED
      BY <1>2, <3>1
  <2>3. poll'.expected <= Len(jobs)
    BY <1>1, <1>4, <1>6, Blanks
  <2> QED
    BY <1>1, <1>2, <1>3, <1>5, <1>6, <2>1, <2>2, <2>3 DEF Shape, server
<1>8. Requests'
  <2>1. Writes'
    BY <1>1, <1>2, Blanks DEF Writes, Asking, Ops, Blank
  <2>2. Polls'
    BY <1>2, <1>4, <1>6 DEF Polls, Fetching
  <2> QED
    BY <1>1, <1>2, <2>1, <2>2 DEF Requests
<1>9. Synced'
  BY <1>2 DEF Synced
<1>10. Passes
  <2>1. \A r \in Requested' : r \in Requested
    BY <1>2 DEF Requested, server
  <2>2. KeysDropped
    BY <1>1, <1>2, <1>5 DEF KeysDropped, Shape
  <2>3. ~Asking'
    BY <1>2, <1>3 DEF Asking
  <2> QED
    BY <1>2, <1>4, <2>1, <2>2, <2>3 DEF Passes, server, Like
<1>11. KeyOwners' /\ RetriedOnce'
  BY <1>1, <1>7, <1>10, PassKeepsOwners DEF Retries
<1>12. ~poll.latest => n = view.job
  BY <1>1, <1>2, <1>3 DEF Requests, Polls
<1>13. ASSUME NEW j \in DOMAIN jobs', Retried(j)'
       PROVE  /\ jobs'[j].key \notin OpKeys'
              /\ jobs'[j].of # 0 => view'.job # jobs'[j].of
              /\ retryKeys'[j] = 0 => view'.job # j /\ (\E m \in DOMAIN jobs' : jobs'[m].of = j)
  <2>1. Retried(j) /\ j \in DOMAIN jobs /\ jobs' = jobs /\ retryKeys' = retryKeys /\ view'.job = n
    BY <1>1, <1>2, <1>7, <1>10, <1>13, PassKeepsRetried DEF server
  <2>2. /\ jobs[j].key \notin OpKeys
        /\ jobs[j].of # 0 => view.job # jobs[j].of
        /\ jobs[j].of # 0 /\ poll.latest => n # jobs[j].of
        /\ retryKeys[j] = 0 =>
             /\ view.job # j /\ (\E m \in DOMAIN jobs : jobs[m].of = j)
             /\ poll.latest => n # j
    BY <1>1, <1>2, <2>1 DEF Retries
  <2>3. jobs[j].key \notin OpKeys'
    BY <1>5, <2>2 DEF OpKeys
  <2> QED
    BY <1>12, <2>1, <2>2, <2>3
<1>14. Retries'
  <2>1. \A r \in Requested' : r.of # 0 /\ retryKeys'[r.of] # 0 => r.key = retryKeys'[r.of]
    BY <1>1, <1>2 DEF Retries, Requested, server
  <2> QED
    BY <1>6, <1>11, <1>13, <2>1 DEF Retries
<1>15. EndedKeyIsForgotten'
  BY <1>2, <1>5 DEF EndedKeyIsForgotten, server
<1> QED
  BY <1>7, <1>8, <1>9, <1>11, <1>14, <1>15 DEF IInv

----------------------------------------------------------------------------
\* Nothing is asked yet when the page may ask.
LEMMA IdleAsks ==
  ASSUME IInv, Idle
  PROVE  /\ call = NoCall /\ signed /\ ~poll.first /\ ~Asking /\ Blank(call)
         /\ \A r \in Requested : r = call \/ r \in late \/ \E j \in DOMAIN jobs : r = jobs[j]
BY Blanks DEF Idle, Busy, IInv, Asking, Ops, Requested

\* What a press changes: the write under way, and who owns its key.
LEMMA PressShape ==
  ASSUME DeskParameters, IInv, Idle, NEW op \in Ops, NEW v \in Versions, NEW key \in KeyIds, NEW of \in Nat,
         key # 0, of # 0 => of = view.job /\ ~Fetching,
         call' = Request(op, v, key, of),
         UNCHANGED <<server, late, poll, signed, view, monitor, life>>,
         opKeys' \in [Ops -> [Versions -> KeyIds]], retryKeys' \in [JobIds -> KeyIds], lastKey' \in KeyIds
  PROVE  /\ Shape' /\ Requests' /\ Synced' /\ Asking'
         /\ call'.key = key /\ call'.of = of /\ call'.op = op /\ call'.version = v
         /\ \A r \in Requested' : r = call' \/ r \in Requested
<1>1. Shape /\ Requests /\ Synced
  BY DEF IInv
<1>2. key \in Nat /\ life \in Nat
  BY <1>1 DEF KeyIds, DeskParameters, Shape
<1>3. /\ call' \in Write /\ call'.key = key /\ call'.of = of /\ call'.op = op /\ call'.version = v
      /\ call'.life = life /\ call'.net = "wire" /\ call'.seen = NoJob
  BY <1>1, <1>2, Blanks DEF Request, Write, NoJob, Shown, JobStatuses
<1>4. Asking'
  BY <1>3 DEF Asking
<1>5. Shape'
  <2>1. IsSeen(view)' /\ IsSeen(call.seen)' /\ IsSeen(poll.seen)'
    BY <1>1, <1>3 DEF Shape, IsSeen, server, NoJob
  <2> QED
    BY <1>1, <1>3, <2>1 DEF Shape, server, monitor
<1>6. Requests'
  <2>1. Writes'
    BY <1>3, <1>4, IdleAsks DEF Writes, Fetching, Ops
  <2>2. Polls'
    BY <1>1, IdleAsks DEF Requests, Polls, Fetching
  <2> QED
    BY <1>1, <2>1, <2>2 DEF Requests
<1>7. Synced'
  BY <1>1, IdleAsks, Blanks DEF Synced, monitor
<1>8. \A r \in Requested' : r = call' \/ r \in Requested
  BY DEF Requested, server
<1> QED
  BY <1>3, <1>4, <1>5, <1>6, <1>7, <1>8

LEMMA PressKeeps ==
  ASSUME DeskParameters, IInv, NEW op \in Ops, NEW v \in Versions, Press(op, v)
  PROVE  IInv'
<1>1. Shape /\ Requests /\ KeyOwners /\ Retries
  BY DEF IInv
<1>2. UNCHANGED <<server, late, poll, signed, view, retryKeys, monitor, life>> /\ Idle
  BY DEF Press
<1>3. opKeys \in [Ops -> [Versions -> KeyIds]] /\ retryKeys \in [JobIds -> KeyIds] /\ lastKey \in Nat
      /\ KeyIds \subseteq Nat /\ lastKey \in KeyIds
  BY <1>1 DEF Shape, KeyIds, DeskParameters
\* Its key is the operation's, or new.
<1>4. PICK key \in KeyIds :
        /\ call' = Request(op, v, key, 0) /\ key # 0
        /\ opKeys' = [opKeys EXCEPT ![op][v] = key]
        /\ \/ key = opKeys[op][v] /\ lastKey' = lastKey
           \/ key = lastKey + 1 /\ lastKey' = key
  <2>1. CASE opKeys[op][v] # 0
    <3>1. opKeys[op][v] \in KeyIds /\ [opKeys EXCEPT ![op][v] = opKeys[op][v]] = opKeys
      BY <1>3
    <3> QED
      BY <2>1, <3>1 DEF Press
  <2>2. CASE opKeys[op][v] = 0
    <3>1. lastKey + 1 \in KeyIds
      BY <1>3, <2>2 DEF Press, KeyIds, DeskParameters
    <3> QED
      BY <1>3, <2>2, <3>1 DEF Press
  <2> QED
    BY <2>1, <2>2
<1>5. /\ opKeys' \in [Ops -> [Versions -> KeyIds]] /\ lastKey' \in KeyIds /\ lastKey <= lastKey'
      /\ opKeys'[op][v] = key /\ key \in Nat /\ lastKey' \in Nat
      /\ \A o \in Ops, w \in Versions : (o # op \/ w # v) => opKeys'[o][w] = opKeys[o][w]
      /\ \A o \in Ops, w \in Versions : opKeys'[o][w] \in {opKeys[o][w], key}
  BY <1>3, <1>4
<1>6. /\ Shape' /\ Requests' /\ Synced' /\ Asking'
      /\ call'.key = key /\ call'.of = 0 /\ call'.op = op /\ call'.version = v
      /\ \A r \in Requested' : r = call' \/ r \in Requested
  BY <1>2, <1>3, <1>4, <1>5, PressShape
<1>7. /\ \A r \in Requested : r.key \in Nat /\ r.of \in Nat /\ r.key <= lastKey /\ r.of <= Len(jobs)
      /\ Len(jobs) \in Nat /\ \A j \in DOMAIN jobs : jobs[j] \in Requested
  BY <1>1, AskedShape DEF AskedFacts, KeyOwners
\* Who owns it: requests of this operation, and no other key is the same.
<1>8. /\ key <= lastKey'
      /\ \A r \in Requested : r.key = key => r.of = 0 /\ r.op = op /\ r.version = v
      /\ \A o \in Ops, w \in Versions : opKeys[o][w] = key => o = op /\ w = v
      /\ \A i \in JobIds : retryKeys[i] # key
  <2>1. CASE key = opKeys[op][v] /\ lastKey' = lastKey
    <3>1. /\ key <= lastKey
          /\ \A r \in Requested : r.key = key => r.of = 0 /\ r.op = op /\ r.version = v
          /\ \A o \in Ops, w \in Versions : opKeys[o][w] = key => o = op /\ w = v
      BY <1>1, <1>4, <2>1 DEF KeyOwners
    <3>2. \A i \in JobIds : retryKeys[i] # key
      BY <1>1, <1>4, <2>1 DEF KeyOwners, OpKeys
    <3> QED
      BY <2>1, <3>1, <3>2
  <2>2. CASE key = lastKey + 1 /\ lastKey' = key
    <3>1. \A o \in Ops, w \in Versions : opKeys[o][w] # 0 => opKeys[o][w] <= lastKey
      BY <1>1 DEF KeyOwners
    <3>2. \A o \in Ops, w \in Versions : opKeys[o][w] \in Nat
      BY <1>3
    <3>3. \A i \in JobIds : retryKeys[i] # 0 => retryKeys[i] <= lastKey
      BY <1>1 DEF KeyOwners
    <3>4. \A i \in JobIds : retryKeys[i] \in Nat
      BY <1>3
    <3>5. \A i \in JobIds : retryKeys[i] # key
      BY <1>3, <2>2, <3>3, <3>4
    <3>6. \A r \in Requested : r.key # key
      BY <1>3, <1>7, <2>2
    <3>7. \A o \in Ops, w \in Versions : opKeys[o][w] # key
      BY <1>3, <2>2, <3>1, <3>2
    <3>8. key <= lastKey'
      BY <1>5, <2>2
    <3> QED
      BY <3>5, <3>6, <3>7, <3>8
  <2> QED
    BY <1>4, <2>1, <2>2
<1>9. KeyOwners'
  <2>1. \A r \in Requested' : r.key <= lastKey' /\ r.of <= Len(jobs')
    BY <1>2, <1>3, <1>5, <1>6, <1>7, <1>8 DEF server
  <2>2. \A j \in DOMAIN jobs' : jobs'[j].of < j
    BY <1>1, <1>2 DEF KeyOwners, server
  <2>3. \A r, s \in Requested' : r.key = s.key /\ r.key # 0 => r.of = s.of
    BY <1>1, <1>6, <1>8 DEF KeyOwners
  <2>4. ASSUME NEW o \in Ops, NEW w \in Versions, opKeys'[o][w] # 0
        PROVE  /\ opKeys'[o][w] <= lastKey'
               /\ \A r \in Requested' : r.key = opKeys'[o][w] => r.of = 0 /\ r.op = o /\ r.version = w
               /\ \A p \in Ops, x \in Versions : opKeys'[p][x] = opKeys'[o][w] => p = o /\ x = w
    <3>1. CASE o = op /\ w = v
      BY <1>5, <1>6, <1>8, <3>1
    <3>2. CASE o # op \/ w # v
      <4>1. opKeys'[o][w] = opKeys[o][w] /\ opKeys[o][w] # key /\ opKeys[o][w] \in Nat
        BY <1>3, <1>5, <1>8, <3>2
      <4>2. /\ opKeys[o][w] <= lastKey
            /\ \A r \in Requested : r.key = opKeys[o][w] => r.of = 0 /\ r.op = o /\ r.version = w
            /\ \A p \in Ops, x \in Versions : opKeys[p][x] = opKeys[o][w] => p = o /\ x = w
        BY <1>1, <2>4, <4>1 DEF KeyOwners
      <4>3. opKeys'[o][w] <= lastKey'
        BY <1>3, <1>5, <4>1, <4>2
      <4> QED
        BY <1>5, <1>6, <4>1, <4>2, <4>3
    <3> QED
      BY <3>1, <3>2
  <2>5. ASSUME NEW i \in JobIds, retryKeys'[i] # 0
        PROVE  /\ retryKeys'[i] <= lastKey' /\ retryKeys'[i] \notin OpKeys'
               /\ \A r \in Requested' : r.key = retryKeys'[i] => r.of = i
               /\ \A k \in JobIds : retryKeys'[k] = retryKeys'[i] => k = i
    <3>1. retryKeys' = retryKeys /\ retryKeys[i] # key /\ retryKeys[i] \in Nat
      BY <1>2, <1>3, <1>8
    <3>2. /\ retryKeys[i] <= lastKey /\ retryKeys[i] \notin OpKeys
          /\ \A r \in Requested : r.key = retryKeys[i] => r.of = i
          /\ \A k \in JobIds : retryKeys[k] = retryKeys[i] => k = i
      BY <1>1, <2>5, <3>1 DEF KeyOwners
    <3>3. retryKeys[i] \notin OpKeys'
      BY <1>5, <3>1, <3>2 DEF OpKeys
    <3>4. retryKeys[i] <= lastKey'
      BY <1>3, <1>5, <3>1, <3>2
    <3> QED
      BY <1>6, <3>1, <3>2, <3>3, <3>4
  <2>6. call'.key = IF call'.of = 0 THEN opKeys'[call'.op][call'.version] ELSE retryKeys'[call'.of]
    BY <1>5, <1>6
  <2> QED
    BY <2>1, <2>2, <2>3, <2>4, <2>5, <2>6 DEF KeyOwners
<1>10. RetriedOnce'
  <2>1. \A r \in Requested' : r.of # 0 => r \in Requested
    BY <1>6
  <2> QED
    BY <1>1, <2>1 DEF Retries, RetriedOnce, Requested
<1>11. Retries'
  <2>1. \A r \in Requested' : r.of # 0 => r \in Requested
    BY <1>6
  <2>2. \A j : Retried(j)' => Retried(j)
    BY <2>1 DEF Retried
  <2>3. ASSUME NEW j \in DOMAIN jobs, Retried(j) PROVE jobs[j].key \notin OpKeys'
    <3>1. jobs[j].key \notin OpKeys /\ jobs[j] \in Requested
      BY <1>1, <1>7, <2>3 DEF Retries
    <3>2. CASE jobs[j].key = key
      <4>1. key = lastKey + 1
        BY <1>3, <1>4, <3>1, <3>2 DEF OpKeys
      <4> QED
        BY <1>3, <1>7, <3>1, <3>2, <4>1
    <3>3. CASE jobs[j].key # key
      BY <1>5, <3>1, <3>3 DEF OpKeys
    <3> QED
      BY <3>2, <3>3
  <2> QED
    BY <1>1, <1>2, <1>10, <2>1, <2>2, <2>3 DEF Retries, server
<1>12. EndedKeyIsForgotten'
  <2> SUFFICES ASSUME Ended(view.status)
               PROVE  jobs[view.job].key \notin {opKeys'[o][w] : o \in Ops, w \in Versions} \ {0}
    BY <1>2 DEF EndedKeyIsForgotten, server
  <2>1. jobs[view.job] \in Requested
    BY <1>1, <1>7 DEF Shape, IsSeen, Ended
  <2>2. jobs[view.job].key \notin OpKeys
    BY DEF IInv, EndedKeyIsForgotten, OpKeys
  <2>3. CASE jobs[view.job].key = key
    <3>1. key = lastKey + 1
      BY <1>3, <1>4, <2>2, <2>3 DEF OpKeys
    <3> QED
      BY <1>3, <1>7, <2>1, <2>3, <3>1
  <2>4. CASE jobs[view.job].key # key
    BY <1>5, <2>2, <2>4 DEF OpKeys
  <2> QED
    BY <2>3, <2>4
<1> QED
  BY <1>6, <1>9, <1>11, <1>12 DEF IInv

LEMMA RetryPublishKeeps ==
  ASSUME DeskParameters, IInv, RetryPublish
  PROVE  IInv'
<1> DEFINE j == view.job
           kept == retryKeys[j] # 0
           key == IF kept THEN retryKeys[j] ELSE lastKey + 1
           op == jobs[j].op
           v == jobs[j].version
<1>1. Shape /\ Requests /\ KeyOwners /\ Retries
  BY DEF IInv
<1>2. /\ UNCHANGED <<server, late, poll, signed, view, opKeys, monitor, life>>
      /\ Idle /\ ~Fetching /\ view.status = "failed"
      /\ (kept \/ lastKey < MaxKeys) /\ lastKey' = (IF kept THEN lastKey ELSE key)
      /\ retryKeys' = [retryKeys EXCEPT ![j] = key]
      /\ call' = Request(op, v, key, j)
  BY DEF RetryPublish
<1>3. opKeys \in [Ops -> [Versions -> KeyIds]] /\ retryKeys \in [JobIds -> KeyIds] /\ lastKey \in Nat
      /\ KeyIds \subseteq Nat /\ lastKey \in KeyIds /\ MaxKeys \in Nat /\ KeyIds = 0 .. MaxKeys
  BY <1>1 DEF Shape, KeyIds, DeskParameters
<1>4. /\ \A r \in Requested : r.key \in Nat /\ r.of \in Nat /\ r.key <= lastKey /\ r.of <= Len(jobs)
      /\ Len(jobs) \in Nat /\ DOMAIN jobs = 1 .. Len(jobs)
      /\ \A i \in DOMAIN jobs : jobs[i] \in Requested /\ jobs[i] \in Job /\ jobs[i].of < i
  BY <1>1, AskedShape DEF AskedFacts, KeyOwners
<1>5. j \in DOMAIN jobs /\ j \in Nat /\ j # 0 /\ j \in JobIds /\ op \in Ops /\ v \in Versions
  <2>1. j \in DOMAIN jobs
    BY <1>1, <1>2 DEF Shape, IsSeen
  <2>2. op \in Ops /\ v \in Versions
    BY <1>4, <2>1 DEF Job
  <2>3. j \in JobIds
    BY <1>1, <1>4, <2>1 DEF JobIds, Shape, DeskParameters
  <2> QED
    BY <1>4, <2>1, <2>2, <2>3
<1> HIDE DEF j, op, v
\* The shown job's end has taken its own key off the operation.
<1>6. jobs[j].key \notin OpKeys
  BY <1>2 DEF IInv, EndedKeyIsForgotten, OpKeys, Ended, j
\* The key is the one kept for the retry, or new; then nothing was asked of j.
<1>7. /\ key \in KeyIds /\ key # 0 /\ key <= lastKey' /\ lastKey' \in KeyIds /\ lastKey <= lastKey'
      /\ lastKey' \in Nat /\ key \in Nat
      /\ \A r \in Requested : r.key = key <=> r.of = j
      /\ key \notin OpKeys
      /\ \A i \in JobIds : retryKeys[i] = key => i = j
  <2>1. CASE kept
    <3>1. /\ retryKeys[j] <= lastKey /\ retryKeys[j] \notin OpKeys
          /\ \A r \in Requested : r.key = retryKeys[j] => r.of = j
          /\ \A i \in JobIds : retryKeys[i] = retryKeys[j] => i = j
      BY <1>1, <1>5, <2>1 DEF KeyOwners
    <3>2. \A r \in Requested : r.of = j => r.key = retryKeys[j]
      BY <1>1, <1>5, <2>1 DEF Retries
    <3> QED
      BY <1>2, <1>3, <1>5, <2>1, <3>1, <3>2
  <2>2. CASE ~kept
    <3>1. key = lastKey + 1 /\ lastKey' = key /\ lastKey < MaxKeys
      BY <1>2, <2>2
    <3> HIDE DEF key
    <3>2. key \in KeyIds /\ key # 0 /\ key \in Nat /\ lastKey <= key
      BY <1>3, <3>1
    <3>3. ~Retried(j)
      BY <1>1, <1>5, <2>2 DEF Retries, j
    <3>4. \A r \in Requested : r.of # j
      BY <1>5, <3>3 DEF Retried
    <3>5. \A r \in Requested : r.key # key
      BY <1>3, <1>4, <3>1
    <3>6. key \notin OpKeys
      <4>1. \A o \in Ops, w \in Versions : opKeys[o][w] # 0 => opKeys[o][w] <= lastKey
        BY <1>1 DEF KeyOwners
      <4>2. \A o \in Ops, w \in Versions : opKeys[o][w] \in Nat
        BY <1>3
      <4> QED
        BY <1>3, <3>1, <4>1, <4>2 DEF OpKeys
    <3>7. \A i \in JobIds : retryKeys[i] # key
      <4>1. \A i \in JobIds : retryKeys[i] # 0 => retryKeys[i] <= lastKey
        BY <1>1 DEF KeyOwners
      <4>2. \A i \in JobIds : retryKeys[i] \in Nat
        BY <1>3
      <4> QED
        BY <1>3, <3>1, <3>2, <4>1, <4>2
    <3> QED
      BY <3>1, <3>2, <3>4, <3>5, <3>6, <3>7
  <2> QED
    BY <2>1, <2>2
<1> HIDE DEF key, kept
<1>8. /\ retryKeys' \in [JobIds -> KeyIds] /\ retryKeys'[j] = key
      /\ \A i \in JobIds : i # j => retryKeys'[i] = retryKeys[i]
  BY <1>2, <1>3, <1>5, <1>7
<1>9. /\ Shape' /\ Requests' /\ Synced' /\ Asking'
      /\ call'.key = key /\ call'.of = j /\ call'.op = op /\ call'.version = v
      /\ \A r \in Requested' : r = call' \/ r \in Requested
  <2>1. opKeys' \in [Ops -> [Versions -> KeyIds]] /\ UNCHANGED <<server, late, poll, signed, view, monitor, life>>
    BY <1>2, <1>3
  <2>2. j # 0 => j = view.job /\ ~Fetching
    BY <1>2 DEF j
  <2> QED
    BY <1>2, <1>5, <1>7, <1>8, <2>1, <2>2, PressShape
<1>10. KeyOwners'
  <2>1. \A r \in Requested' : r.key <= lastKey' /\ r.of <= Len(jobs')
    <3>1. \A r \in Requested : r.key <= lastKey' /\ r.of <= Len(jobs)
      BY <1>3, <1>4, <1>7
    <3>2. jobs' = jobs /\ j <= Len(jobs)
      BY <1>2, <1>4, <1>5 DEF server
    <3> QED
      BY <1>7, <1>9, <3>1, <3>2
  <2>2. \A i \in DOMAIN jobs' : jobs'[i].of < i
    BY <1>1, <1>2 DEF KeyOwners, server
  <2>3. \A r, s \in Requested' : r.key = s.key /\ r.key # 0 => r.of = s.of
    BY <1>1, <1>7, <1>9 DEF KeyOwners
  <2>4. ASSUME NEW o \in Ops, NEW w \in Versions, opKeys'[o][w] # 0
        PROVE  /\ opKeys'[o][w] <= lastKey'
               /\ \A r \in Requested' : r.key = opKeys'[o][w] => r.of = 0 /\ r.op = o /\ r.version = w
               /\ \A p \in Ops, x \in Versions : opKeys'[p][x] = opKeys'[o][w] => p = o /\ x = w
    <3>1. opKeys' = opKeys /\ opKeys[o][w] # key /\ opKeys[o][w] \in Nat
      BY <1>2, <1>3, <1>7, <2>4 DEF OpKeys
    <3>2. /\ opKeys[o][w] <= lastKey
          /\ \A r \in Requested : r.key = opKeys[o][w] => r.of = 0 /\ r.op = o /\ r.version = w
          /\ \A p \in Ops, x \in Versions : opKeys[p][x] = opKeys[o][w] => p = o /\ x = w
      BY <1>1, <2>4, <3>1 DEF KeyOwners
    <3>3. opKeys'[o][w] <= lastKey'
      BY <1>3, <1>7, <3>1, <3>2
    <3> QED
      BY <1>9, <3>1, <3>2, <3>3
  <2>5. ASSUME NEW i \in JobIds, retryKeys'[i] # 0
        PROVE  /\ retryKeys'[i] <= lastKey' /\ retryKeys'[i] \notin OpKeys'
               /\ \A r \in Requested' : r.key = retryKeys'[i] => r.of = i
               /\ \A k \in JobIds : retryKeys'[k] = retryKeys'[i] => k = i
    <3>1. OpKeys' = OpKeys
      BY <1>2 DEF OpKeys
    <3>2. CASE i = j
      BY <1>7, <1>8, <1>9, <3>1, <3>2
    <3>3. CASE i # j
      <4>1. retryKeys'[i] = retryKeys[i] /\ retryKeys[i] # key /\ retryKeys[i] \in Nat
        BY <1>3, <1>7, <1>8, <3>3
      <4>2. /\ retryKeys[i] <= lastKey /\ retryKeys[i] \notin OpKeys
            /\ \A r \in Requested : r.key = retryKeys[i] => r.of = i
            /\ \A k \in JobIds : retryKeys[k] = retryKeys[i] => k = i
        BY <1>1, <2>5, <4>1 DEF KeyOwners
      <4>3. retryKeys[i] <= lastKey'
        BY <1>3, <1>7, <4>1, <4>2
      <4> QED
        BY <1>8, <1>9, <3>1, <4>1, <4>2, <4>3
    <3> QED
      BY <3>2, <3>3
  <2>6. call'.key = IF call'.of = 0 THEN opKeys'[call'.op][call'.version] ELSE retryKeys'[call'.of]
    BY <1>5, <1>8, <1>9
  <2> QED
    BY <2>1, <2>2, <2>3, <2>4, <2>5, <2>6 DEF KeyOwners
<1>11. RetriedOnce'
  <2>1. \A r, s \in Requested : r.of = s.of /\ r.of # 0 => r.key = s.key
    BY <1>1 DEF Retries, RetriedOnce, Requested
  <2>2. \A r, s \in Requested' : r.of = s.of /\ r.of # 0 => r.key = s.key
    BY <1>7, <1>9, <2>1
  <2> QED
    BY <2>2 DEF RetriedOnce, Requested
<1>12. Retries'
  <2>1. \A r \in Requested' : r.of # 0 /\ retryKeys'[r.of] # 0 => r.key = retryKeys'[r.of]
    <3> SUFFICES ASSUME NEW r \in Requested', r.of # 0, retryKeys'[r.of] # 0 PROVE r.key = retryKeys'[r.of]
      OBVIOUS
    <3>1. CASE r.of = j
      BY <1>7, <1>8, <1>9, <3>1
    <3>2. CASE r.of # j
      <4>1. r \in Requested
        BY <1>9, <3>2
      <4>2. r.of \in JobIds
        BY <1>1, <1>4, <4>1 DEF JobIds, Shape, DeskParameters
      <4> QED
        BY <1>1, <1>8, <3>2, <4>1, <4>2 DEF Retries
    <3> QED
      BY <3>1, <3>2
  <2>2. \A i : Retried(i)' => i = j \/ Retried(i)
    BY <1>9 DEF Retried
  <2>3. jobs' = jobs /\ view' = view /\ OpKeys' = OpKeys /\ poll' = poll /\ poll.at # "read"
    BY <1>1, <1>2, Blanks DEF server, OpKeys, Fetching
  <2>4. ASSUME NEW i \in DOMAIN jobs, Retried(i)'
        PROVE  /\ jobs[i].key \notin OpKeys
               /\ jobs[i].of # 0 => view.job # jobs[i].of
               /\ retryKeys'[i] = 0 => view.job # i /\ (\E n \in DOMAIN jobs : jobs[n].of = i)
    <3>1. CASE i = j
      <4>1. jobs[j].of < j /\ jobs[j].of \in Nat /\ view.job = j
        BY <1>4, <1>5 DEF j
      <4>2. view.job # jobs[j].of
        BY <1>5, <4>1
      <4> QED
        BY <1>6, <1>7, <1>8, <3>1, <4>2
    <3>2. CASE i # j
      <4>1. Retried(i) /\ i \in JobIds
        BY <1>1, <1>4, <2>2, <2>4, <3>2 DEF JobIds, Shape, DeskParameters
      <4> QED
        BY <1>1, <1>8, <2>4, <3>2, <4>1 DEF Retries
    <3> QED
      BY <3>1, <3>2
  <2> QED
    BY <1>11, <2>1, <2>3, <2>4 DEF Retries
<1>13. EndedKeyIsForgotten'
  BY <1>2 DEF IInv, EndedKeyIsForgotten, server
<1> QED
  BY <1>9, <1>10, <1>12, <1>13 DEF IInv

----------------------------------------------------------------------------
LEMMA Initially ==
  ASSUME DeskParameters, DeskInit
  PROVE  IInv
<1>1. /\ Len(jobs) = 0 /\ DOMAIN jobs = {} /\ jobs \in Seq(Job) /\ Requested = {NoCall}
  BY DEF DeskInit, Requested
<1>2. 0 \in KeyIds /\ MaxJobs \in Nat
  BY DEF KeyIds, DeskParameters
<1>3. IsSeen(NoJob) /\ NoJob \in Shown /\ ~Ended(NoJob.status)
  BY DEF IsSeen, NoJob, Shown, JobStatuses, Ended
<1>4. NoCall \in Write /\ Blank(NoCall) /\ NoCall.net = "none" /\ NoCall.op = "none" /\ NoCall.seen = NoJob
  BY <1>3 DEF NoCall, Write, Blank
<1>5. NoPoll \in Poll /\ NoPoll.at = "none" /\ ~NoPoll.first /\ NoPoll.seen = NoJob /\ NoPoll.expected = 0
  BY <1>3 DEF NoPoll, Poll
<1>6. Shape
  <2>1. /\ opKeys \in [Ops -> [Versions -> KeyIds]] /\ retryKeys \in [JobIds -> KeyIds] /\ lastKey \in KeyIds
        /\ released \in [Versions -> {"approved", "publishing", "published", "archived"}]
    BY <1>2 DEF DeskInit
  <2>2. call \in Write /\ late \subseteq Write /\ poll \in Poll /\ view \in Shown
    BY <1>3, <1>4, <1>5 DEF DeskInit
  <2>3. IsSeen(view) /\ IsSeen(call.seen) /\ IsSeen(poll.seen) /\ poll.expected <= Len(jobs)
    BY <1>1, <1>3, <1>4, <1>5 DEF DeskInit
  <2>4. /\ Len(jobs) <= MaxJobs /\ life \in Nat /\ signed \in BOOLEAN /\ syncPending \in BOOLEAN
        /\ error \in BOOLEAN /\ unread \in BOOLEAN
    <3>1. Len(jobs) <= MaxJobs
      BY <1>1, <1>2
    <3> QED
      BY <3>1 DEF DeskInit
  <2> QED
    BY <1>1, <2>1, <2>2, <2>3, <2>4 DEF Shape
<1>7. Requests
  BY <1>4, <1>5 DEF DeskInit, Requests, Writes, Polls, Fetching, Asking, Ops, Blank
<1>8. Synced
  BY DEF DeskInit, Synced
<1>9. KeyOwners
  <2>1. \A o \in Ops, v \in Versions : opKeys[o][v] = 0
    BY DEF DeskInit
  <2>2. \A i \in JobIds : retryKeys[i] = 0
    BY DEF DeskInit
  <2>3. ~Asking /\ lastKey = 0
    BY <1>4 DEF DeskInit, Asking, Ops
  <2> QED
    BY <1>1, <1>4, <2>1, <2>2, <2>3 DEF KeyOwners, Blank
<1>10. Retries
  BY <1>1, <1>4 DEF Retries, RetriedOnce, Requested, Blank
<1>11. EndedKeyIsForgotten
  BY <1>3 DEF DeskInit, EndedKeyIsForgotten
<1> QED
  BY <1>6, <1>7, <1>8, <1>9, <1>10, <1>11 DEF IInv

LEMMA StutterKeeps ==
  ASSUME IInv, UNCHANGED deskVars
  PROVE  IInv'
<1>1. UNCHANGED <<released, jobs, call, late, poll, signed, view, opKeys, retryKeys, lastKey>>
      /\ UNCHANGED <<syncPending, error, life, unread>>
  BY DEF deskVars, server, keyring, monitor
<1>2. Shape'
  BY <1>1 DEF IInv, Shape, IsSeen
<1>3. Requests' /\ Synced'
  BY <1>1 DEF IInv, Requests, Writes, Polls, Synced, Asking, Fetching
<1>4. Requested' = Requested /\ OpKeys' = OpKeys /\ Asking' = Asking /\ \A j : Retried(j)' = Retried(j)
  BY <1>1 DEF Requested, OpKeys, Asking, Retried
<1>5. KeyOwners'
  BY <1>1, <1>4 DEF IInv, KeyOwners
<1>6. Retries'
  BY <1>1, <1>4 DEF IInv, Retries, RetriedOnce
<1>7. EndedKeyIsForgotten'
  BY <1>1 DEF IInv, EndedKeyIsForgotten
<1> QED
  BY <1>2, <1>3, <1>5, <1>6, <1>7 DEF IInv

LEMMA Inductive ==
  ASSUME DeskParameters
  PROVE  DeskSpec => []IInv
<1>1. DeskInit => IInv
  BY Initially
<1>2. IInv /\ [DeskNext]_deskVars => IInv'
  <2> SUFFICES ASSUME IInv, [DeskNext]_deskVars PROVE IInv'
    OBVIOUS
  <2>1. CASE UNCHANGED deskVars
    BY <2>1, StutterKeeps
  <2>2. CASE DeskNext
    BY <2>2, PressKeeps, OtherAdministratorKeeps, RetryPublishKeeps, EditKeeps, CallHandledKeeps,
       AcceptKeeps, CallSyncedKeeps, CallFailsKeeps, LateHandledKeeps, JobEndsKeeps, RefreshKeeps,
       PollReadKeeps, PollAppliedKeeps, PollOverKeeps, SessionEndsKeeps, SignInKeeps, SignOutKeeps,
       ReloadKeeps DEF DeskNext
  <2> QED
    BY <2>1, <2>2
<1> QED
  BY <1>1, <1>2, PTL DEF DeskSpec

----------------------------------------------------------------------------
\* Server and page keep their types, for every set of versions and every number
\* of keys, jobs and lives of the page.
THEOREM DeskTypeCorrect == ASSUME DeskParameters PROVE DeskSpec => []DeskTypeOK
<1>1. IInv => DeskTypeOK
  <2> SUFFICES ASSUME IInv PROVE DeskTypeOK
    OBVIOUS
  <2>1. Shape /\ Requests
    BY DEF IInv
  <2>2. view.job \in 0 .. Len(jobs) /\ view.status \in {"none", "active", "succeeded", "failed"}
    <3>1. view \in Shown /\ Len(jobs) \in Nat
      BY <2>1 DEF Shape
    <3> QED
      BY <2>1, <3>1, Blanks DEF Shown, JobStatuses
  <2>3. Fetching => poll.latest \/ poll.expected # 0
    BY <2>1 DEF Requests, Polls
  <2> QED
    BY <2>1, <2>2, <2>3 DEF DeskTypeOK, Shape
<1> QED
  BY <1>1, Inductive, PTL

\* A failed job is retried once, whatever answers are lost and however often the
\* button is pressed and the session ends: all its requests carry one key.  And
\* the key of an ended job is forgotten, so that the next press makes a job
\* (operationKeys and retryKeys of useAdminWorkspace, settle of idempotency.ts).
THEOREM RetriedWithOneKey == ASSUME DeskParameters PROVE DeskSpec => []OneKeyPerAttempt
<1>1. IInv => OneKeyPerAttempt
  BY DEF IInv, Retries, OneKeyPerAttempt
<1> QED
  BY <1>1, Inductive, PTL

\* A page at rest that shows a job's end and no error has read the versions that
\* the end concerns, in whatever order reads, writes and sessions came and went
\* (syncPending of usePublishMonitor).
THEOREM EndsAreSynced == ASSUME DeskParameters PROVE DeskSpec => []EndIsSynced
<1>1. IInv => EndIsSynced
  <2> SUFFICES ASSUME IInv, signed, ~Busy, ~Fetching, ~syncPending, ~error, unread PROVE FALSE
    BY DEF EndIsSynced
  <2>1. call.net = "sync" \/ poll.first
    BY DEF IInv, Synced
  <2> QED
    BY <2>1, Blanks DEF IInv, Busy, Fetching
<1> QED
  BY <1>1, Inductive, PTL

\* What the page shows was asked for since the last sign-out: an answer to the
\* former user's request is never shown to the next (stop of usePublishMonitor,
\* clear of useAdminWorkspace).
THEOREM ShownIsAskedFor == ASSUME DeskParameters PROVE DeskSpec => ShownWasAskedFor
<1> DEFINE Shows == (view' # view /\ view' # NoJob)
                      => (IF call.net = "answered" THEN call.life ELSE poll.life) = life
<1>1. IInv /\ [DeskNext]_deskVars => [Shows]_deskVars
  <2> SUFFICES ASSUME IInv, DeskNext, view' # view, view' # NoJob
               PROVE  (IF call.net = "answered" THEN call.life ELSE poll.life) = life
    OBVIOUS
  <2>1. Accept \/ PollApplied
    BY DEF DeskNext, Press, OtherAdministrator, RetryPublish, Edit, EditEnds, CallHandled, CallSynced,
       CallFails, LateHandled, JobEnds, Refresh, PollRead, PollSynced, PollDropped, PollFails,
       SessionEnds, SignIn, SignOut, Reload, Begin
  <2>2. CASE Accept
    <3>1. call.net = "answered" /\ Asking
      BY <2>2 DEF Accept, IInv, Requests, Writes, Asking
    <3> QED
      BY <3>1 DEF IInv, Requests, Writes
  <2>3. CASE PollApplied
    <3>1. call = NoCall /\ poll.at = "read"
      BY <2>3 DEF PollApplied, Current, Busy
    <3>2. call.net # "answered" /\ Fetching
      BY <3>1, Blanks DEF IInv, Fetching
    <3> QED
      BY <3>2 DEF IInv, Requests, Polls
  <2> QED
    BY <2>1, <2>2, <2>3
<1> QED
  BY <1>1, Inductive, PTL DEF DeskSpec, ShownWasAskedFor

----------------------------------------------------------------------------
(* Numbers and queues.                                                      *)

\* A set of numbers that is not empty has a least one.
LEMMA LeastNumber ==
  ASSUME NEW T, T \subseteq Nat, T # {}
  PROVE  \E x \in T : \A y \in T : x <= y
<1>1. \E x \in T : \A y \in T : ~ (<<y, x>> \in OpToRel(<,Nat))
  BY WFMin, NatLessThanWellFounded
<1>2. \A x, y \in Nat : y < x => <<y, x>> \in OpToRel(<,Nat)
  BY DEF OpToRel
<1>3. \E R : (\E x \in T : \A y \in T : ~ (<<y, x>> \in R)) /\ (\A x, y \in Nat : y < x => <<y, x>> \in R)
  BY <1>1, <1>2, Zenon
<1>4. PICK R : (\E x \in T : \A y \in T : ~ (<<y, x>> \in R)) /\ (\A x, y \in Nat : y < x => <<y, x>> \in R)
  BY <1>3
<1>5. PICK x \in T : \A y \in T : ~ (<<y, x>> \in R)
  BY <1>4
<1>6. \A y \in T : ~(y < x)
  BY <1>4, <1>5
<1> QED
  BY <1>6

\* Every task that is kept was a task, so what all were is what the kept ones are.
LEMMA PromisesAreTasks ==
  ASSUME NEW tasks \in Seq(Task)
  PROVE  /\ Promises(tasks) \in Seq(Task)
         /\ \A i \in DOMAIN Promises(tasks) : \E k \in DOMAIN tasks : Promises(tasks)[i] = tasks[k]
<1> DEFINE Step(f, n) == IF n = 0 THEN <<>>
                         ELSE IF tasks[n].requests = {} THEN f[n - 1] ELSE Append(f[n - 1], tasks[n])
           IsUpTo(f, m) == f = [n \in 0 .. m |-> Step(f, n)]
<1>1. Len(tasks) \in Nat /\ DOMAIN tasks = 1 .. Len(tasks) /\ \A n \in DOMAIN tasks : tasks[n] \in Task
  OBVIOUS
<1> HIDE DEF Step, IsUpTo
<1>2. \A m \in Nat : \E f : IsUpTo(f, m)
  <2> DEFINE T == {m \in Nat : \A f : ~IsUpTo(f, m)}
  <2> SUFFICES ASSUME T # {} PROVE FALSE
    OBVIOUS
  <2>1. PICK m \in T : \A k \in T : m <= k
    BY LeastNumber
  <2>2. m # 0
    <3>1. IsUpTo([n \in 0 .. 0 |-> <<>>], 0)
      BY DEF IsUpTo, Step
    <3> QED
      BY <2>1, <3>1
  <2>3. m \in Nat /\ m - 1 \in Nat /\ m - 1 \notin T
    BY <2>1, <2>2
  <2>4. PICK g : IsUpTo(g, m - 1)
    BY <2>3
  <2> DEFINE h == [n \in 0 .. m |-> IF n = m THEN Step(g, m) ELSE g[n]]
  <2>5. \A n \in 0 .. m : h[n] = Step(h, n)
    <3> SUFFICES ASSUME NEW n \in 0 .. m PROVE h[n] = Step(h, n)
      OBVIOUS
    <3>1. n # 0 => n - 1 \in 0 .. m - 1 /\ h[n - 1] = g[n - 1]
      BY <2>3
    <3>2. CASE n = m
      <4>1. h[n] = Step(g, n)
        BY <3>2
      <4> HIDE DEF h
      <4> QED
        BY <3>1, <4>1 DEF Step
    <3>3. CASE n # m
      <4>1. n \in 0 .. m - 1 /\ h[n] = g[n]
        BY <2>3, <3>3
      <4>2. g[n] = Step(g, n)
        BY <2>4, <4>1 DEF IsUpTo
      <4> HIDE DEF h
      <4> QED
        BY <3>1, <4>1, <4>2 DEF Step
    <3> QED
      BY <3>2, <3>3
  <2>6. IsUpTo(h, m)
    <3>1. h = [n \in 0 .. m |-> h[n]]
      OBVIOUS
    <3> HIDE DEF h
    <3> QED
      BY <2>5, <3>1 DEF IsUpTo
  <2> QED
    BY <2>1, <2>6
<1>3. PICK f : IsUpTo(f, Len(tasks)) /\ Promises(tasks) = f[Len(tasks)]
  <2> DEFINE f == CHOOSE f : IsUpTo(f, Len(tasks))
  <2>1. IsUpTo(f, Len(tasks))
    BY <1>1, <1>2
  <2>2. Promises(tasks) = f[Len(tasks)]
    BY DEF Promises, IsUpTo, Step
  <2> HIDE DEF f
  <2> QED
    BY <2>1, <2>2
<1> DEFINE Fits(s) == s \in Seq(Task) /\ \A i \in DOMAIN s : \E k \in DOMAIN tasks : s[i] = tasks[k]
<1>4. \A n \in 0 .. Len(tasks) : Fits(f[n])
  <2> DEFINE T == {n \in 0 .. Len(tasks) : ~Fits(f[n])}
  <2> HIDE DEF Fits
  <2> SUFFICES ASSUME T # {} PROVE FALSE
    OBVIOUS
  <2>1. PICK m \in T : \A k \in T : m <= k
    <3>1. T \subseteq Nat
      OBVIOUS
    <3> HIDE DEF T
    <3> QED
      BY <3>1, LeastNumber
  <2>2. m \in 0 .. Len(tasks) /\ ~Fits(f[m])
    BY <2>1
  <2>3. f[m] = Step(f, m)
    BY <1>3, <2>2 DEF IsUpTo
  <2>4. CASE m = 0
    <3>1. f[m] = <<>>
      BY <2>3, <2>4 DEF Step
    <3>2. Fits(<<>>)
      BY DEF Fits
    <3> QED
      BY <2>2, <3>1, <3>2
  <2>5. CASE m # 0
    <3>1. m \in DOMAIN tasks /\ m - 1 \in 0 .. Len(tasks)
      BY <1>1, <2>2, <2>5
    <3>2. Fits(f[m - 1])
      BY <2>1, <2>2, <2>5, <3>1
    <3>3. Fits(Append(f[m - 1], tasks[m]))
      BY <1>1, <3>1, <3>2 DEF Fits
    <3> QED
      BY <2>2, <2>3, <2>5, <3>2, <3>3 DEF Step
  <2> QED
    BY <2>4, <2>5
<1> QED
  BY <1>1, <1>3, <1>4

----------------------------------------------------------------------------
(* The player.                                                              *)

\* What an element that has seen r requests may wait for and have to tell.
Sound(element, r) ==
  /\ element \in Element /\ element.waiting \subseteq 1 .. r
  /\ \A i \in DOMAIN element.tasks :
       /\ element.tasks[i].requests \subseteq 1 .. r
       /\ element.tasks[i].kind \notin {"resolved", "rejected"} => element.tasks[i].requests = {}

\* None of what it waits for and has to tell is an answer to request r.
Stale(element, r) ==
  /\ r \notin element.waiting
  /\ \A i \in DOMAIN element.tasks : r \notin element.tasks[i].requests

\* The task will set the status, if its element is the one in use and r the
\* present request.
Affects(task, r) == task.kind \in {"error", "ended"} \/ r \in task.requests

LastToTell(tasks, i, r) ==
  /\ Affects(tasks[i], r)
  /\ \A k \in DOMAIN tasks : k > i => ~Affects(tasks[k], r)

\* The last task that sets the status sets it to what the element does; without
\* such a task it is so already.
Told(element, button, r) ==
  /\ (\A i \in DOMAIN element.tasks : ~Affects(element.tasks[i], r)) =>
       (button = "playing" <=> element.sounding)
  /\ \A i \in DOMAIN element.tasks :
       LastToTell(element.tasks, i, r) => (element.tasks[i].kind = "resolved" <=> element.sounding)

\* The element in use is the one made last, of the track that is shown.
InUse ==
  /\ generation <= 2 * request
  /\ media = 0 <=> current = None
  /\ media # 0 => media = generation /\ elements[media].bound /\ elements[media].src = current
  /\ current = None => status = "idle"
  /\ duration \in {None, current}

\* An element that was disposed of is silent, and nobody asks for its answers.
Disused ==
  \A e \in Generations : e # media =>
    ~elements[e].sounding /\ elements[e].src = None /\ Stale(elements[e], request)

\* A pending play() of the element in use is the present request's, too; when
\* none is pending the button is true, or will be.
Answers(element, button, r) == IF element.waiting = {} THEN Told(element, button, r) ELSE r \in element.waiting

PlayerInv ==
  /\ TypeOK /\ InUse /\ Disused
  /\ \A e \in Generations : Sound(elements[e], request)
  /\ media # 0 => Answers(elements[media], status, request)

----------------------------------------------------------------------------
\* Queues of tasks.

LEMMA TaskAppended ==
  ASSUME NEW tasks \in Seq(Task), NEW task \in Task
  PROVE  /\ Append(tasks, task) \in Seq(Task)
         /\ Len(tasks) \in Nat /\ DOMAIN tasks = 1 .. Len(tasks)
         /\ DOMAIN Append(tasks, task) = 1 .. Len(tasks) + 1
         /\ \A i \in DOMAIN tasks : Append(tasks, task)[i] = tasks[i]
         /\ Append(tasks, task)[Len(tasks) + 1] = task
OBVIOUS

LEMMA TaskTaken ==
  ASSUME NEW tasks \in Seq(Task), tasks # <<>>
  PROVE  /\ Tail(tasks) \in Seq(Task) /\ Head(tasks) = tasks[1] /\ Head(tasks) \in Task
         /\ Len(tasks) \in Nat \ {0} /\ DOMAIN tasks = 1 .. Len(tasks)
         /\ DOMAIN Tail(tasks) = 1 .. Len(tasks) - 1
         /\ \A i \in DOMAIN Tail(tasks) : Tail(tasks)[i] = tasks[i + 1]
OBVIOUS

\* A queue of tasks to which one more of the same kind is added.
LEMMA SoundTasks ==
  ASSUME NEW element \in Element, NEW r \in 0 .. MaxRequests, Sound(element, r),
         NEW task \in Task, task.requests \subseteq 1 .. r,
         task.kind \notin {"resolved", "rejected"} => task.requests = {}
  PROVE  Sound([element EXCEPT !.tasks = Append(@, task)], r)
<1> DEFINE after == [element EXCEPT !.tasks = Append(@, task)]
<1>1. element.tasks \in Seq(Task)
  BY DEF Element
<1>2. after \in Element /\ after.tasks = Append(element.tasks, task) /\ after.waiting = element.waiting
  BY <1>1, TaskAppended DEF Element
<1>3. ASSUME NEW i \in DOMAIN after.tasks
      PROVE  /\ after.tasks[i].requests \subseteq 1 .. r
             /\ after.tasks[i].kind \notin {"resolved", "rejected"} => after.tasks[i].requests = {}
  <2>1. CASE i \in DOMAIN element.tasks
    <3>1. after.tasks[i] = element.tasks[i]
      BY <1>1, <1>2, <2>1, TaskAppended
    <3> QED
      BY <2>1, <3>1 DEF Sound
  <2>2. CASE i \notin DOMAIN element.tasks
    <3>1. i = Len(element.tasks) + 1 /\ after.tasks[i] = task
      BY <1>1, <1>2, <1>3, <2>2, TaskAppended
    <3> QED
      BY <3>1
  <2> QED
    BY <2>1, <2>2
<1> HIDE DEF after
<1> QED
  BY <1>2, <1>3 DEF Sound, after

\* Settling the pending promises tells those requests, last of all.
LEMMA SettledSound ==
  ASSUME NEW element \in Element, NEW r \in 0 .. MaxRequests, Sound(element, r),
         NEW kind \in {"resolved", "rejected"}
  PROVE  LET after == Settled(element, kind) IN
         /\ Sound(after, r) /\ after \in Element /\ after.waiting = {}
         /\ after.src = element.src /\ after.bound = element.bound
         /\ after.paused = element.paused /\ after.sounding = element.sounding
         /\ after.tasks = IF element.waiting = {} THEN element.tasks
                          ELSE Append(element.tasks, [kind |-> kind, requests |-> element.waiting])
<1> DEFINE task == [kind |-> kind, requests |-> element.waiting]
           told == [element EXCEPT !.tasks = Append(@, task)]
<1>1. CASE element.waiting = {}
  BY <1>1 DEF Settled, Sound
<1>2. CASE element.waiting # {}
  <2>1. task \in Task /\ task.requests \subseteq 1 .. r /\ task.kind = kind
    BY DEF Task, Element, Sound
  <2>2. Sound(told, r)
    <3> HIDE DEF task
    <3> QED
      BY <2>1, SoundTasks
  <2>3. Settled(element, kind) = [told EXCEPT !.waiting = {}]
    BY <1>2 DEF Settled, Element
  <2>4. told \in Element
    BY <2>2 DEF Sound
  <2>5. told.src = element.src /\ told.bound = element.bound /\ told.paused = element.paused
        /\ told.sounding = element.sounding /\ told.tasks = Append(element.tasks, task)
    BY DEF Element
  <2> HIDE DEF told, task
  <2>6. LET after == [told EXCEPT !.waiting = {}] IN
        /\ after \in Element /\ after.waiting = {} /\ after.tasks = told.tasks
        /\ after.src = told.src /\ after.bound = told.bound /\ after.paused = told.paused
        /\ after.sounding = told.sounding
    BY <2>4 DEF Element
  <2>7. Sound([told EXCEPT !.waiting = {}], r)
    BY <2>2, <2>6 DEF Sound
  <2> QED
    BY <1>2, <2>3, <2>5, <2>6, <2>7 DEF task
<1> QED
  BY <1>1, <1>2

\* What pausing leaves: silence, and no pending promise.
LEMMA PausedSound ==
  ASSUME NEW element \in Element, NEW r \in 0 .. MaxRequests, Sound(element, r)
  PROVE  LET after == Paused(element) IN
         /\ Sound(after, r) /\ after \in Element /\ after.waiting = {} /\ ~after.sounding
         /\ after.src = element.src /\ after.bound = element.bound
<1> DEFINE settled == Settled(element, "rejected")
           after == [settled EXCEPT !.paused = TRUE, !.sounding = FALSE]
<1>1. /\ Sound(settled, r) /\ settled \in Element /\ settled.waiting = {}
      /\ settled.src = element.src /\ settled.bound = element.bound
  BY SettledSound
<1> HIDE DEF settled
<1>2. /\ after \in Element /\ after.waiting = settled.waiting /\ after.tasks = settled.tasks
      /\ after.sounding = FALSE /\ after.src = settled.src /\ after.bound = settled.bound
  BY <1>1 DEF Element
<1>3. Paused(element) = after
  BY DEF Paused, settled
<1> HIDE DEF after
<1>4. Sound(after, r)
  BY <1>1, <1>2 DEF Sound
<1> QED
  BY <1>1, <1>2, <1>3, <1>4

\* What loading leaves: the new source, silence, and answers still to be told.
LEMMA LoadedSound ==
  ASSUME NEW element \in Element, NEW r \in 0 .. MaxRequests, Sound(element, r),
         NEW src \in Tracks \cup {None}
  PROVE  LET after == Loaded(element, src) IN
         /\ Sound(after, r) /\ after \in Element /\ after.waiting = {} /\ ~after.sounding
         /\ after.src = src /\ after.bound = element.bound
<1> DEFINE paused == Paused(element)
           kept == Promises(paused.tasks)
           after == [paused EXCEPT !.src = src, !.metadata = FALSE, !.tasks = kept]
<1>1. /\ Sound(paused, r) /\ paused \in Element /\ paused.waiting = {} /\ ~paused.sounding
      /\ paused.bound = element.bound
  BY PausedSound
<1> HIDE DEF paused
<1>2. paused.tasks \in Seq(Task)
  BY <1>1 DEF Element
<1>3. kept \in Seq(Task) /\ \A i \in DOMAIN kept : \E k \in DOMAIN paused.tasks : kept[i] = paused.tasks[k]
  BY <1>2, PromisesAreTasks
<1>4. Loaded(element, src) = after
  BY <1>1 DEF Loaded, paused, Element
<1> HIDE DEF kept
<1>5. /\ after \in Element /\ after.waiting = paused.waiting /\ after.tasks = kept
      /\ after.sounding = paused.sounding /\ after.src = src /\ after.bound = paused.bound
  BY <1>1, <1>3 DEF Element
<1> HIDE DEF after
<1>6. Sound(after, r)
  BY <1>1, <1>3, <1>5 DEF Sound
<1> QED
  BY <1>1, <1>4, <1>5, <1>6

LEMMA DisposedSound ==
  ASSUME NEW element \in Element, NEW r \in 0 .. MaxRequests, Sound(element, r)
  PROVE  LET after == Disposed(element) IN
         Sound(after, r) /\ after \in Element /\ ~after.sounding /\ after.src = None
<1> DEFINE paused == Paused(element)
           loaded == Loaded(paused, None)
           after == [loaded EXCEPT !.bound = FALSE]
<1>1. Sound(paused, r) /\ paused \in Element
  BY PausedSound
<1> HIDE DEF paused
<1>2. Sound(loaded, r) /\ loaded \in Element /\ ~loaded.sounding /\ loaded.src = None
  BY <1>1, LoadedSound
<1>3. Disposed(element) = after
  BY DEF Disposed, paused
<1> HIDE DEF loaded
<1>4. /\ after \in Element /\ after.waiting = loaded.waiting /\ after.tasks = loaded.tasks
      /\ after.sounding = loaded.sounding /\ after.src = loaded.src
  BY <1>2 DEF Element
<1> HIDE DEF after
<1>5. Sound(after, r)
  BY <1>2, <1>4 DEF Sound
<1> QED
  BY <1>2, <1>3, <1>4, <1>5

\* The next request is newer than all an element knows of.
LEMMA Earlier ==
  ASSUME NEW element, NEW r \in 0 .. MaxRequests, Sound(element, r), r < MaxRequests
  PROVE  Sound(element, r + 1) /\ Stale(element, r + 1)
<1>1. 1 .. r \subseteq 1 .. r + 1 /\ r + 1 \notin 1 .. r
  OBVIOUS
<1> QED
  BY <1>1 DEF Sound, Stale

LEMMA PlayingSound ==
  ASSUME NEW element \in Element, NEW r \in 0 .. MaxRequests, Sound(element, r), r < MaxRequests
  PROVE  LET after == Playing(element, r + 1) IN
         /\ Sound(after, r + 1) /\ after \in Element /\ r + 1 \in after.waiting
         /\ after.src = element.src /\ after.bound = element.bound
<1> DEFINE after == Playing(element, r + 1)
<1>1. Sound(element, r + 1) /\ r + 1 \in 1 .. MaxRequests /\ r + 1 \in 1 .. r + 1
  <2>1. Sound(element, r + 1)
    BY Earlier
  <2>2. MaxRequests \in Nat
    BY AudioPlayerAssumption
  <2> QED
    BY <2>1, <2>2
<1>2. /\ after \in Element /\ after.waiting = element.waiting \cup {r + 1} /\ after.tasks = element.tasks
      /\ after.src = element.src /\ after.bound = element.bound
  BY <1>1 DEF Playing, Element
<1> HIDE DEF after
<1>3. Sound(after, r + 1)
  BY <1>1, <1>2 DEF Sound
<1> QED
  BY <1>2, <1>3 DEF after

\* The last task tells what the element does.
LEMMA EndsWith ==
  ASSUME NEW tasks \in Seq(Task), NEW task \in Task, NEW element, NEW button, NEW r,
         element.tasks = Append(tasks, task), Affects(task, r), task.kind = "resolved" <=> element.sounding
  PROVE  Told(element, button, r)
<1>1. /\ DOMAIN element.tasks = 1 .. Len(tasks) + 1 /\ Len(tasks) \in Nat
      /\ element.tasks[Len(tasks) + 1] = task
  BY TaskAppended
<1>2. ASSUME NEW i \in DOMAIN element.tasks, LastToTell(element.tasks, i, r)
      PROVE  i = Len(tasks) + 1
  BY <1>1, <1>2 DEF LastToTell
<1>3. ~ \A i \in DOMAIN element.tasks : ~Affects(element.tasks[i], r)
  BY <1>1
<1>4. \A i \in DOMAIN element.tasks :
        LastToTell(element.tasks, i, r) => (element.tasks[i].kind = "resolved" <=> element.sounding)
  BY <1>1, <1>2
<1> QED
  BY <1>3, <1>4 DEF Told

\* What is silent and shown as such stays so, when no answer is asked for.
LEMMA Silenced ==
  ASSUME NEW element, NEW button, NEW r, Stale(element, r), button # "playing", ~element.sounding
  PROVE  Told(element, button, r)
BY DEF Told, LastToTell, Affects, Stale

----------------------------------------------------------------------------
\* The steps.

Buttons == {"idle", "loading", "playing", "paused", "error"}

LEMMA Typed == PlayerInv => /\ request \in 0 .. MaxRequests /\ MaxRequests \in Nat
                      /\ generation \in 0 .. 2 * MaxRequests /\ media \in 0 .. 2 * MaxRequests
                      /\ elements \in [Generations -> Element]
                      /\ None \notin Tracks
                      /\ (media # 0 => media \in Generations)
BY AudioPlayerAssumption DEF PlayerInv, TypeOK, Generations

\* A press of the visitor makes a new request: only the element in use needs
\* an argument.
LEMMA Pressed ==
  ASSUME PlayerInv, request < MaxRequests, request' = request + 1,
         elements' \in [Generations -> Element],
         generation' \in Nat, generation' <= 2 * request', status' \in Buttons,
         current' \in Tracks \cup {None}, duration' \in {None, current'},
         media' = 0 <=> current' = None, current' = None => status' = "idle",
         media' # 0 =>
           /\ media' = generation' /\ elements'[media'].bound /\ elements'[media'].src = current'
           /\ Sound(elements'[media'], request') /\ Answers(elements'[media'], status', request'),
         \A e \in Generations : e # media' =>
           Sound(elements'[e], request) /\ ~elements'[e].sounding /\ elements'[e].src = None
  PROVE  PlayerInv'
<1>1. request \in 0 .. MaxRequests /\ MaxRequests \in Nat
  BY Typed
<1>2. request' \in 0 .. MaxRequests /\ generation' \in 0 .. 2 * MaxRequests
  BY <1>1
<1>3. media' \in 0 .. 2 * MaxRequests
  BY <1>1, <1>2
<1>4. TypeOK'
  BY <1>2, <1>3 DEF TypeOK, Buttons
<1>5. \A e \in Generations : e # media' => Sound(elements'[e], request') /\ Stale(elements'[e], request')
  BY <1>1, Earlier
<1>6. \A e \in Generations : Sound(elements'[e], request')
  BY <1>5 DEF Generations
<1>7. InUse'
  BY DEF InUse
<1>8. Disused'
  BY <1>5 DEF Disused
<1> QED
  BY <1>4, <1>6, <1>7, <1>8 DEF PlayerInv

\* A step of the browser, or a task, changes one element.
LEMMA Changed ==
  ASSUME PlayerInv, NEW e \in Generations, NEW element, Sound(element, request),
         elements' = [elements EXCEPT ![e] = element],
         UNCHANGED <<current, request, generation, media>>,
         duration' \in {None, current}, status' \in Buttons, current = None => status' = "idle",
         element.src = elements[e].src, element.bound = elements[e].bound,
         e = media => Answers(element, status', request),
         e # media => ~element.sounding /\ Stale(element, request) /\ status' = status
  PROVE  PlayerInv'
<1>1. elements \in [Generations -> Element] /\ element \in Element
  BY Typed DEF Sound
<1>2. elements' \in [Generations -> Element]
  BY <1>1
<1>3. elements'[e] = element /\ \A d \in Generations : d # e => elements'[d] = elements[d]
  BY <1>1
<1>4. TypeOK'
  BY <1>2 DEF PlayerInv, TypeOK, Buttons
<1>5. InUse'
  <2>1. media # 0 => elements'[media].bound = elements[media].bound /\ elements'[media].src = elements[media].src
    BY <1>3, Typed
  <2> QED
    BY <2>1 DEF PlayerInv, InUse
<1>6. Disused'
  <2> SUFFICES ASSUME NEW d \in Generations, d # media
               PROVE  ~elements'[d].sounding /\ elements'[d].src = None /\ Stale(elements'[d], request)
    BY DEF Disused
  <2>1. CASE d = e
    BY <1>3, <2>1 DEF PlayerInv, Disused
  <2>2. CASE d # e
    BY <1>3, <2>2 DEF PlayerInv, Disused
  <2> QED
    BY <2>1, <2>2
<1>7. \A d \in Generations : Sound(elements'[d], request)
  BY <1>3 DEF PlayerInv
<1>8. media # 0 => Answers(elements'[media], status', request)
  <2>1. CASE media = e
    BY <1>3, <2>1
  <2>2. CASE media # e
    BY <1>3, <2>2, Typed DEF PlayerInv
  <2> QED
    BY <2>1, <2>2
<1> QED
  BY <1>4, <1>5, <1>6, <1>7, <1>8 DEF PlayerInv

LEMMA PauseKeeps ==
  ASSUME PlayerInv, Pause
  PROVE  PlayerInv'
<1> DEFINE paused == Paused(elements[media])
<1>1. /\ request < MaxRequests /\ request' = request + 1
      /\ UNCHANGED <<current, duration, generation, media>>
      /\ elements' = IF media = 0 THEN elements ELSE [elements EXCEPT ![media] = paused]
      /\ status' = IF current # None /\ status # "error" THEN "paused" ELSE status
  BY DEF Pause
<1>2. media # 0 =>
        /\ Sound(paused, request) /\ paused \in Element /\ paused.waiting = {} /\ ~paused.sounding
        /\ paused.src = elements[media].src /\ paused.bound = elements[media].bound
  <2>1. media # 0 => elements[media] \in Element /\ Sound(elements[media], request)
    BY Typed DEF PlayerInv
  <2> QED
    BY <2>1, Typed, PausedSound
<1> HIDE DEF paused
<1>3. /\ elements' \in [Generations -> Element]
      /\ media # 0 => elements'[media] = paused
      /\ \A e \in Generations : e # media => elements'[e] = elements[e]
  BY <1>1, <1>2, Typed
<1>4. status \in Buttons /\ status' \in Buttons /\ (current = None => status' = "idle")
      /\ (media # 0 => status' # "playing")
  BY <1>1 DEF PlayerInv, TypeOK, InUse, Buttons
<1>5. media # 0 => Sound(paused, request') /\ Answers(paused, status', request')
  <2> SUFFICES ASSUME media # 0
               PROVE  Sound(paused, request') /\ Answers(paused, status', request')
    OBVIOUS
  <2>1. Sound(paused, request + 1) /\ Stale(paused, request + 1)
    BY <1>1, <1>2, Typed, Earlier
  <2>2. Told(paused, status', request + 1)
    BY <1>2, <1>4, <2>1, Silenced
  <2> QED
    BY <1>1, <1>2, <2>1, <2>2 DEF Answers
<1>6. generation \in Nat /\ generation <= 2 * (request + 1) /\ current \in Tracks \cup {None}
  BY Typed DEF PlayerInv, InUse, TypeOK
<1>7. media' # 0 =>
        /\ media' = generation' /\ elements'[media'].bound /\ elements'[media'].src = current'
        /\ Sound(elements'[media'], request') /\ Answers(elements'[media'], status', request')
  BY <1>1, <1>2, <1>3, <1>5 DEF PlayerInv, InUse
<1>8. \A e \in Generations : e # media' =>
        Sound(elements'[e], request) /\ ~elements'[e].sounding /\ elements'[e].src = None
  BY <1>1, <1>3 DEF PlayerInv, Disused
<1> QED
  BY <1>1, <1>3, <1>4, <1>6, <1>7, <1>8, Pressed DEF PlayerInv, InUse

LEMMA ResumeKeeps ==
  ASSUME PlayerInv, Resume
  PROVE  PlayerInv'
<1> DEFINE playing == Playing(elements[media], request + 1)
<1>1. /\ media # 0 /\ request < MaxRequests /\ request' = request + 1
      /\ UNCHANGED <<current, duration, generation, media>>
      /\ elements' = [elements EXCEPT ![media] = playing] /\ status' = "loading"
  BY DEF Resume
<1>2. /\ Sound(playing, request + 1) /\ playing \in Element /\ request + 1 \in playing.waiting
      /\ playing.src = elements[media].src /\ playing.bound = elements[media].bound
  <2>1. elements[media] \in Element /\ Sound(elements[media], request)
    BY <1>1, Typed DEF PlayerInv
  <2> QED
    BY <1>1, <2>1, Typed, PlayingSound
<1> HIDE DEF playing
<1>3. /\ elements' \in [Generations -> Element] /\ elements'[media] = playing
      /\ \A e \in Generations : e # media => elements'[e] = elements[e]
  BY <1>1, <1>2, Typed
<1>4. generation \in Nat /\ generation <= 2 * (request + 1) /\ current \in Tracks \cup {None}
  BY Typed DEF PlayerInv, InUse, TypeOK
<1>5. /\ media' = generation' /\ elements'[media'].bound /\ elements'[media'].src = current'
      /\ Sound(elements'[media'], request') /\ Answers(elements'[media'], status', request')
  BY <1>1, <1>2, <1>3 DEF PlayerInv, InUse, Answers
<1>6. \A e \in Generations : e # media' =>
        Sound(elements'[e], request) /\ ~elements'[e].sounding /\ elements'[e].src = None
  BY <1>1, <1>3 DEF PlayerInv, Disused
<1>7. status' \in Buttons /\ current # None
  BY <1>1 DEF Buttons, PlayerInv, InUse
<1> QED
  BY <1>1, <1>3, <1>4, <1>5, <1>6, <1>7, Pressed DEF PlayerInv, InUse

LEMMA CloseKeeps ==
  ASSUME PlayerInv, Close
  PROVE  PlayerInv'
<1> DEFINE disposed == Disposed(elements[media])
<1>1. /\ request < MaxRequests /\ request' = request + 1 /\ media' = 0
      /\ current' = None /\ status' = "idle" /\ duration' = None
  BY DEF Close
<1>2. /\ media = 0 => elements' = elements /\ generation' = generation
      /\ media # 0 => elements' = [elements EXCEPT ![media] = disposed] /\ generation' = generation + 1
  BY DEF Close
<1>3. media # 0 =>
        Sound(disposed, request) /\ disposed \in Element /\ ~disposed.sounding /\ disposed.src = None
  <2>1. media # 0 => elements[media] \in Element /\ Sound(elements[media], request)
    BY Typed DEF PlayerInv
  <2> QED
    BY <2>1, Typed, DisposedSound
<1> HIDE DEF disposed
<1>4. /\ elements' \in [Generations -> Element]
      /\ media # 0 => elements'[media] = disposed
      /\ \A e \in Generations : e # media => elements'[e] = elements[e]
  BY <1>2, <1>3, Typed
<1>5. generation' \in Nat /\ generation' <= 2 * request'
  BY <1>1, <1>2, Typed DEF PlayerInv, InUse
<1>6. \A e \in Generations :
        Sound(elements'[e], request) /\ ~elements'[e].sounding /\ elements'[e].src = None
  <2> TAKE e \in Generations
  <2>1. CASE e = media
    <3>1. media # 0
      BY <2>1, Typed DEF Generations
    <3> QED
      BY <1>3, <1>4, <2>1, <3>1
  <2>2. CASE e # media
    BY <1>4, <2>2 DEF PlayerInv, Disused
  <2> QED
    BY <2>1, <2>2
<1> QED
  BY <1>1, <1>4, <1>5, <1>6, Pressed DEF Buttons

\* What play() gives the element it uses.
LEMMA Started ==
  ASSUME NEW element \in Element, NEW r \in 0 .. MaxRequests, Sound(element, r), r < MaxRequests,
         NEW track \in Tracks, NEW button
  PROVE  LET after == Playing(Loaded(element, track), r + 1) IN
         /\ Sound(after, r + 1) /\ after \in Element /\ Answers(after, button, r + 1)
         /\ after.src = track /\ after.bound = element.bound
<1> DEFINE loaded == Loaded(element, track)
<1>1. Sound(loaded, r) /\ loaded \in Element /\ loaded.src = track /\ loaded.bound = element.bound
  BY LoadedSound
<1> HIDE DEF loaded
<1>2. LET after == Playing(loaded, r + 1) IN
      /\ Sound(after, r + 1) /\ after \in Element /\ r + 1 \in after.waiting
      /\ after.src = track /\ after.bound = element.bound
  BY <1>1, PlayingSound
<1> QED
  BY <1>2 DEF Answers, loaded

LEMMA PlayKeeps ==
  ASSUME PlayerInv, NEW track \in Tracks, Play(track)
  PROVE  PlayerInv'
<1>1. /\ request < MaxRequests /\ request' = request + 1
      /\ current' = track /\ status' = "loading"
      /\ duration' = IF Switches(track) THEN None ELSE duration
  BY DEF Play
<1>2. media = 0 <=> current = None
  BY DEF PlayerInv, InUse
<1>3. current' \in Tracks \cup {None} /\ current' # None /\ status' \in Buttons /\ status' # "idle"
  BY <1>1, Typed DEF Buttons
<1>4. duration' \in {None, current'}
  BY <1>1, <1>2 DEF PlayerInv, InUse, Switches
<1>5. ASSUME NEW used \in Generations, NEW element \in Element, Sound(element, request), element.bound,
             NEW others \in [Generations -> Element],
             \A e \in Generations : e # used =>
               Sound(others[e], request) /\ ~others[e].sounding /\ others[e].src = None,
             media' = used, generation' = used, generation' <= 2 * request',
             elements' = [others EXCEPT ![used] = Playing(Loaded(element, track), request + 1)]
      PROVE  PlayerInv'
  <2> DEFINE started == Playing(Loaded(element, track), request + 1)
  <2>1. /\ Sound(started, request + 1) /\ started \in Element /\ Answers(started, status', request + 1)
        /\ started.src = track /\ started.bound
    <3>1. request \in 0 .. MaxRequests
      BY Typed
    <3> HIDE DEF started
    <3>2. LET after == Playing(Loaded(element, track), request + 1) IN
          /\ Sound(after, request + 1) /\ after \in Element /\ Answers(after, "loading", request + 1)
          /\ after.src = track /\ after.bound = element.bound
      BY <1>1, <1>5, <3>1, Started
    <3> QED
      BY <1>1, <1>5, <3>2 DEF started
  <2>2. elements' = [others EXCEPT ![used] = started]
    BY <1>5
  <2> HIDE DEF started
  <2>3. /\ elements' \in [Generations -> Element] /\ elements'[used] = started
        /\ \A e \in Generations : e # used => elements'[e] = others[e]
    BY <2>1, <2>2
  <2>4. generation' \in Nat /\ media' # 0
    BY <1>5, Typed DEF Generations
  <2>5. /\ media' = generation' /\ elements'[media'].bound /\ elements'[media'].src = current'
        /\ Sound(elements'[media'], request') /\ Answers(elements'[media'], status', request')
    BY <1>1, <1>5, <2>1, <2>3
  <2>6. \A e \in Generations : e # media' =>
          Sound(elements'[e], request) /\ ~elements'[e].sounding /\ elements'[e].src = None
    BY <1>5, <2>3
  <2> QED
    BY <1>1, <1>3, <1>4, <1>5, <2>3, <2>4, <2>5, <2>6, Pressed
<1>6. CASE media # 0 /\ current = track
  <2>1. /\ media' = media /\ generation' = generation
        /\ elements' = [elements EXCEPT ![media] = Playing(Loaded(elements[media], track), request + 1)]
    BY <1>6 DEF Play, Switches
  <2>2. /\ media \in Generations /\ elements[media] \in Element /\ Sound(elements[media], request)
        /\ elements[media].bound /\ media = generation /\ generation <= 2 * request
    BY <1>6, Typed DEF PlayerInv, InUse
  <2>3. \A e \in Generations : e # media =>
          Sound(elements[e], request) /\ ~elements[e].sounding /\ elements[e].src = None
    BY DEF PlayerInv, Disused
  <2>4. generation' <= 2 * request'
    BY <1>1, <2>1, <2>2, Typed
  <2> QED
    BY <1>5, <2>1, <2>2, <2>3, <2>4, Typed
<1> DEFINE new == Playing(Loaded(NewElement, track), request + 1)
<1>7. NewElement \in Element /\ Sound(NewElement, request) /\ NewElement.bound
  <2>1. NewElement \in Element /\ NewElement.waiting = {} /\ NewElement.tasks = <<>> /\ NewElement.bound
    BY DEF NewElement, Element
  <2> QED
    BY <2>1 DEF Sound
<1>8. CASE media # 0 /\ current # track
  <2> DEFINE disposed == Disposed(elements[media])
             others == [elements EXCEPT ![media] = disposed]
  <2>1. /\ media' = generation + 2 /\ generation' = generation + 2
        /\ elements' = [others EXCEPT ![generation + 2] = new]
    BY <1>2, <1>8 DEF Play, Switches
  <2>2. /\ media \in Generations /\ elements[media] \in Element /\ Sound(elements[media], request)
        /\ media = generation /\ generation <= 2 * request
    BY <1>8, Typed DEF PlayerInv, InUse
  <2>3. Sound(disposed, request) /\ disposed \in Element /\ ~disposed.sounding /\ disposed.src = None
    BY <2>2, Typed, DisposedSound
  <2> HIDE DEF disposed
  <2>4. /\ others \in [Generations -> Element] /\ others[media] = disposed
        /\ \A e \in Generations : e # media => others[e] = elements[e]
    BY <2>2, <2>3, Typed
  <2> HIDE DEF others
  <2>5. \A e \in Generations :
          Sound(others[e], request) /\ ~others[e].sounding /\ others[e].src = None
    BY <2>3, <2>4 DEF PlayerInv, Disused
  <2>6. generation + 2 \in Generations /\ generation' <= 2 * request'
    BY <1>1, <2>1, <2>2, Typed DEF Generations
  <2> QED
    BY <1>5, <1>7, <2>1, <2>4, <2>5, <2>6
<1>9. CASE media = 0
  <2>1. /\ media' = generation + 1 /\ generation' = generation + 1
        /\ elements' = [elements EXCEPT ![generation + 1] = new]
    BY <1>9 DEF Play, Switches
  <2>2. \A e \in Generations :
          Sound(elements[e], request) /\ ~elements[e].sounding /\ elements[e].src = None
    BY <1>9 DEF PlayerInv, Disused, Generations
  <2>3. generation + 1 \in Generations /\ generation' <= 2 * request'
    BY <1>1, <2>1, Typed DEF Generations, PlayerInv, InUse
  <2> QED
    BY <1>5, <1>7, <2>1, <2>2, <2>3, Typed
<1> QED
  BY <1>6, <1>8, <1>9

\* The browser only has something to do with the element in use, whose pending
\* play() is the present request's.
LEMMA InUseOnly ==
  ASSUME PlayerInv, NEW e \in Generations, Wanted(e)
  PROVE  /\ e = media /\ current # None /\ elements[e] \in Element /\ Sound(elements[e], request)
         /\ Answers(elements[e], status, request) /\ elements[e].tasks \in Seq(Task)
<1>1. e = media
  BY DEF PlayerInv, Disused, Wanted
<1>2. elements[e] \in Element
  BY Typed
<1>3. e # 0
  BY DEF Generations
<1>4. current # None
  BY <1>1, <1>3 DEF PlayerInv, InUse
<1>5. elements[e].tasks \in Seq(Task)
  BY <1>2 DEF Element
<1> QED
  BY <1>1, <1>2, <1>3, <1>4, <1>5 DEF PlayerInv

\* The element in use changes, and what it does is what its last task tells.
LEMMA Tells ==
  ASSUME PlayerInv, NEW e \in Generations, Wanted(e), NEW element \in Element, Change(e, element),
         Sound(element, request), element.src = elements[e].src, element.bound = elements[e].bound,
         element.waiting = {}, NEW tasks \in Seq(Task), NEW task \in Task,
         element.tasks = Append(tasks, task), Affects(task, request),
         task.kind = "resolved" <=> element.sounding
  PROVE  PlayerInv'
<1>1. Answers(element, status, request)
  BY EndsWith DEF Answers
<1>2. /\ elements' = [elements EXCEPT ![e] = element]
      /\ UNCHANGED <<current, status, duration, request, generation, media>>
  BY DEF Change
<1>3. e = media /\ current # None
  BY InUseOnly
<1>4. duration' \in {None, current} /\ status' \in Buttons
  BY <1>2 DEF PlayerInv, InUse, TypeOK, Buttons
<1> QED
  BY <1>1, <1>2, <1>3, <1>4, Changed

\* Settling pending promises of the element in use tells the present request.
LEMMA Settles ==
  ASSUME PlayerInv, NEW e \in Generations, Wanted(e), elements[e].waiting # {},
         NEW kind \in {"resolved", "rejected"}
  PROVE  LET task == [kind |-> kind, requests |-> elements[e].waiting] IN
         /\ task \in Task /\ Affects(task, request) /\ task.kind = kind
<1>1. elements[e] \in Element /\ request \in elements[e].waiting
  BY InUseOnly DEF Answers
<1> QED
  BY <1>1 DEF Task, Affects, Element

LEMMA StartKeeps ==
  ASSUME PlayerInv, NEW e \in Generations, Start(e)
  PROVE  PlayerInv'
<1> DEFINE settled == Settled(elements[e], "resolved")
           task == [kind |-> "resolved", requests |-> elements[e].waiting]
           after == [settled EXCEPT !.sounding = TRUE]
<1>1. Wanted(e) /\ elements[e].waiting # {} /\ Change(e, after)
  BY DEF Start
<1>2. /\ elements[e] \in Element /\ Sound(elements[e], request) /\ request \in 0 .. MaxRequests
      /\ elements[e].tasks \in Seq(Task)
  BY <1>1, InUseOnly, Typed
<1>3. task \in Task /\ Affects(task, request) /\ task.kind = "resolved"
  BY <1>1, Settles
<1>4. /\ Sound(settled, request) /\ settled \in Element /\ settled.waiting = {}
      /\ settled.src = elements[e].src /\ settled.bound = elements[e].bound
      /\ settled.tasks = Append(elements[e].tasks, task)
  BY <1>1, <1>2, SettledSound
<1> HIDE DEF settled, task
<1>5. /\ after \in Element /\ after.waiting = {} /\ after.tasks = settled.tasks /\ after.sounding
      /\ after.src = settled.src /\ after.bound = settled.bound
  BY <1>4 DEF Element
<1> HIDE DEF after
<1>6. Sound(after, request)
  BY <1>4, <1>5 DEF Sound
<1> QED
  BY <1>1, <1>2, <1>3, <1>4, <1>5, <1>6, Tells

LEMMA RefuseKeeps ==
  ASSUME PlayerInv, NEW e \in Generations, Refuse(e)
  PROVE  PlayerInv'
<1> DEFINE settled == Settled(elements[e], "rejected")
           task == [kind |-> "rejected", requests |-> elements[e].waiting]
           after == [settled EXCEPT !.paused = TRUE]
<1>1. Wanted(e) /\ elements[e].waiting # {} /\ Change(e, after) /\ ~elements[e].sounding
  BY DEF Refuse
<1>2. /\ elements[e] \in Element /\ Sound(elements[e], request) /\ request \in 0 .. MaxRequests
      /\ elements[e].tasks \in Seq(Task)
  BY <1>1, InUseOnly, Typed
<1>3. task \in Task /\ Affects(task, request) /\ task.kind = "rejected"
  BY <1>1, Settles
<1>4. /\ Sound(settled, request) /\ settled \in Element /\ settled.waiting = {}
      /\ settled.src = elements[e].src /\ settled.bound = elements[e].bound
      /\ settled.sounding = elements[e].sounding /\ settled.tasks = Append(elements[e].tasks, task)
  BY <1>1, <1>2, SettledSound
<1> HIDE DEF settled, task
<1>5. /\ after \in Element /\ after.waiting = {} /\ after.tasks = settled.tasks
      /\ after.sounding = settled.sounding
      /\ after.src = settled.src /\ after.bound = settled.bound
  BY <1>4 DEF Element
<1> HIDE DEF after
<1>6. Sound(after, request)
  BY <1>4, <1>5 DEF Sound
<1>7. ~after.sounding
  BY <1>1, <1>4, <1>5
<1> QED
  BY <1>1, <1>2, <1>3, <1>4, <1>5, <1>6, <1>7, Tells

\* An error and the end are told, and then the pending promises rejected.
LEMMA Stops ==
  ASSUME PlayerInv, NEW e \in Generations, Wanted(e), NEW kind \in {"error", "ended"}, NEW paused \in BOOLEAN,
         Change(e, [Settled([elements[e] EXCEPT !.tasks = Append(@, Event(kind))], "rejected")
                    EXCEPT !.sounding = FALSE, !.paused = paused])
  PROVE  PlayerInv'
<1> DEFINE event == Event(kind)
           queued == [elements[e] EXCEPT !.tasks = Append(@, event)]
           settled == Settled(queued, "rejected")
           task == [kind |-> "rejected", requests |-> elements[e].waiting]
           after == [settled EXCEPT !.sounding = FALSE, !.paused = paused]
<1>1. /\ elements[e] \in Element /\ Sound(elements[e], request) /\ request \in 0 .. MaxRequests
      /\ elements[e].tasks \in Seq(Task)
  BY InUseOnly, Typed
<1>2. event \in Task /\ event.requests = {} /\ event.kind = kind /\ Affects(event, request)
  BY DEF Event, Task, Affects
<1>3. Change(e, after)
  OBVIOUS
<1> HIDE DEF event
<1>4. Sound(queued, request)
  BY <1>1, <1>2, SoundTasks
<1>5. /\ queued \in Element /\ queued.waiting = elements[e].waiting
      /\ queued.tasks = Append(elements[e].tasks, event) /\ queued.tasks \in Seq(Task)
      /\ queued.src = elements[e].src /\ queued.bound = elements[e].bound
  BY <1>1, <1>2, TaskAppended DEF Element
<1> HIDE DEF queued
<1>6. /\ Sound(settled, request) /\ settled \in Element /\ settled.waiting = {}
      /\ settled.src = queued.src /\ settled.bound = queued.bound
      /\ settled.tasks = IF queued.waiting = {} THEN queued.tasks ELSE Append(queued.tasks, task)
  <2>1. /\ Sound(settled, request) /\ settled \in Element /\ settled.waiting = {}
        /\ settled.src = queued.src /\ settled.bound = queued.bound
        /\ settled.tasks = IF queued.waiting = {} THEN queued.tasks
                           ELSE Append(queued.tasks, [kind |-> "rejected", requests |-> queued.waiting])
    BY <1>1, <1>4, <1>5, SettledSound
  <2> QED
    BY <1>5, <2>1
<1> HIDE DEF settled
<1>7. /\ after \in Element /\ after.waiting = {} /\ after.tasks = settled.tasks
      /\ after.sounding = FALSE /\ after.src = settled.src /\ after.bound = settled.bound
  BY <1>6 DEF Element
<1> HIDE DEF after
<1>8. Sound(after, request)
  BY <1>6, <1>7 DEF Sound
<1>9. CASE elements[e].waiting = {}
  <2>1. after.tasks = Append(elements[e].tasks, event)
    BY <1>5, <1>6, <1>7, <1>9
  <2> QED
    BY <1>1, <1>2, <1>3, <1>5, <1>6, <1>7, <1>8, <2>1, Tells
<1>10. CASE elements[e].waiting # {}
  <2>1. task \in Task /\ Affects(task, request) /\ task.kind = "rejected"
    BY <1>10, Settles
  <2>2. after.tasks = Append(queued.tasks, task)
    BY <1>5, <1>6, <1>7, <1>10
  <2> HIDE DEF task
  <2> QED
    BY <1>1, <1>3, <1>5, <1>6, <1>7, <1>8, <2>1, <2>2, Tells
<1> QED
  BY <1>9, <1>10

LEMMA FailKeeps ==
  ASSUME PlayerInv, NEW e \in Generations, Fail(e)
  PROVE  PlayerInv'
<1> DEFINE queued == [elements[e] EXCEPT !.tasks = Append(@, Event("error"))]
           settled == Settled(queued, "rejected")
<1>1. Wanted(e) /\ Change(e, [settled EXCEPT !.sounding = FALSE])
  BY DEF Fail
<1>2. settled \in Element
  <2>1. elements[e] \in Element /\ Sound(elements[e], request) /\ request \in 0 .. MaxRequests
    BY <1>1, InUseOnly, Typed
  <2>2. Event("error") \in Task /\ Event("error").requests = {}
    BY DEF Event, Task
  <2>3. Sound(queued, request)
    BY <2>1, <2>2, SoundTasks
  <2> HIDE DEF queued
  <2> QED
    BY <2>1, <2>3, SettledSound DEF Sound
<1>3. settled.paused \in BOOLEAN /\ [settled EXCEPT !.sounding = FALSE] =
        [settled EXCEPT !.sounding = FALSE, !.paused = settled.paused]
  <2> HIDE DEF settled
  <2> QED
    BY <1>2 DEF Element
<1>4. Change(e, [settled EXCEPT !.sounding = FALSE, !.paused = settled.paused])
  BY <1>1, <1>3
<1>5. PICK paused \in BOOLEAN : Change(e, [settled EXCEPT !.sounding = FALSE, !.paused = paused])
  <2> HIDE DEF settled
  <2> QED
    BY <1>3, <1>4
<1> QED
  BY <1>1, <1>5, Stops

LEMMA EndKeeps ==
  ASSUME PlayerInv, NEW e \in Generations, End(e)
  PROVE  PlayerInv'
BY Stops DEF End

LEMMA ReadMetadataKeeps ==
  ASSUME PlayerInv, NEW e \in Generations, ReadMetadata(e)
  PROVE  PlayerInv'
<1> DEFINE event == Event("loadedmetadata")
           queued == [elements[e] EXCEPT !.tasks = Append(@, event)]
           after == [elements[e] EXCEPT !.metadata = TRUE, !.tasks = Append(@, event)]
<1>1. Wanted(e) /\ Change(e, after)
  BY DEF ReadMetadata
<1>2. /\ elements[e] \in Element /\ Sound(elements[e], request) /\ request \in 0 .. MaxRequests
      /\ elements[e].tasks \in Seq(Task)
      /\ e = media /\ current # None /\ Answers(elements[e], status, request)
  BY <1>1, InUseOnly, Typed
<1>3. event \in Task /\ event.requests = {} /\ event.kind = "loadedmetadata" /\ ~Affects(event, request)
  BY DEF Event, Task, Affects
<1> HIDE DEF event
<1>4. Sound(queued, request)
  BY <1>2, <1>3, SoundTasks
<1>5. /\ after \in Element /\ after.waiting = elements[e].waiting
      /\ after.tasks = Append(elements[e].tasks, event) /\ after.sounding = elements[e].sounding
      /\ after.src = elements[e].src /\ after.bound = elements[e].bound
      /\ queued.tasks = after.tasks /\ queued.waiting = after.waiting
  BY <1>2, <1>3, TaskAppended DEF Element
<1> HIDE DEF queued, after
<1>6. Sound(after, request)
  BY <1>4, <1>5 DEF Sound
<1>7. ASSUME Told(elements[e], status, request) PROVE Told(after, status, request)
  <2> DEFINE tasks == elements[e].tasks
  <2>1. /\ DOMAIN tasks = 1 .. Len(tasks) /\ Len(tasks) \in Nat
        /\ DOMAIN after.tasks = 1 .. Len(tasks) + 1
        /\ \A i \in DOMAIN tasks : after.tasks[i] = tasks[i]
        /\ after.tasks[Len(tasks) + 1] = event
    BY <1>2, <1>3, <1>5, TaskAppended
  <2> HIDE DEF tasks
  <2>2. ASSUME NEW i \in DOMAIN after.tasks, Affects(after.tasks[i], request)
        PROVE  i \in DOMAIN tasks /\ after.tasks[i] = tasks[i]
    BY <1>3, <2>1, <2>2
  <2>3. ASSUME NEW i \in DOMAIN after.tasks, LastToTell(after.tasks, i, request)
        PROVE  i \in DOMAIN tasks /\ after.tasks[i] = tasks[i] /\ LastToTell(tasks, i, request)
    BY <2>1, <2>2, <2>3 DEF LastToTell
  <2>4. (\A i \in DOMAIN after.tasks : ~Affects(after.tasks[i], request)) =>
          \A i \in DOMAIN tasks : ~Affects(tasks[i], request)
    BY <2>1
  <2> QED
    BY <1>5, <1>7, <2>3, <2>4 DEF Told, tasks
<1>8. Answers(after, status, request)
  BY <1>2, <1>5, <1>7 DEF Answers
<1>9. duration' \in {None, current} /\ status' \in Buttons
  BY <1>1 DEF Change, PlayerInv, InUse, TypeOK, Buttons
<1> QED
  BY <1>1, <1>2, <1>5, <1>6, <1>8, <1>9, Changed DEF Change

\* A task of the element in use that sets the status does so as it tells; one
\* of another element, or an answer to an earlier request, does not.
LEMMA DeliverKeeps ==
  ASSUME PlayerInv, NEW e \in Generations, Deliver(e)
  PROVE  PlayerInv'
<1> DEFINE tasks == elements[e].tasks
           task == Head(tasks)
           after == [elements[e] EXCEPT !.tasks = Tail(@)]
<1>1. /\ tasks # <<>> /\ elements' = [elements EXCEPT ![e] = after]
      /\ status' = StatusAfter(e, task)
      /\ duration' = IF task.kind = "loadedmetadata" /\ Active(e) THEN elements[e].src ELSE duration
      /\ UNCHANGED <<current, request, generation, media>>
  BY DEF Deliver
<1>2. elements[e] \in Element /\ Sound(elements[e], request) /\ tasks \in Seq(Task) /\ e # 0
  BY Typed DEF PlayerInv, Element, Generations
<1> HIDE DEF task
<1>3. /\ Tail(tasks) \in Seq(Task) /\ task = tasks[1] /\ task \in Task
      /\ Len(tasks) \in Nat \ {0} /\ DOMAIN tasks = 1 .. Len(tasks)
      /\ DOMAIN Tail(tasks) = 1 .. Len(tasks) - 1
      /\ \A i \in DOMAIN Tail(tasks) : Tail(tasks)[i] = tasks[i + 1]
  BY <1>1, <1>2, TaskTaken DEF task
<1>4. /\ after \in Element /\ after.tasks = Tail(tasks) /\ after.waiting = elements[e].waiting
      /\ after.src = elements[e].src /\ after.bound = elements[e].bound
      /\ after.sounding = elements[e].sounding
  BY <1>2, <1>3 DEF Element
<1> HIDE DEF after
<1>5. \A i \in DOMAIN after.tasks : i + 1 \in DOMAIN tasks /\ after.tasks[i] = tasks[i + 1]
  BY <1>3, <1>4
<1>6. 1 \in DOMAIN tasks /\ (task.kind \notin {"resolved", "rejected"} => task.requests = {})
  BY <1>2, <1>3 DEF Sound
<1>7. Sound(after, request)
  BY <1>2, <1>4, <1>5 DEF Sound
<1>8. \/ status' = status
      \/ status' = "playing" /\ task.kind = "resolved" /\ Latest(task)
      \/ status' = "error" /\ task.kind = "rejected" /\ Latest(task)
      \/ status' \in {"error", "paused"} /\ task.kind \in {"error", "ended"} /\ Active(e)
  BY <1>1 DEF StatusAfter
<1>9. e # media => status' = status
  <2> SUFFICES ASSUME e # media PROVE ~Latest(task) /\ ~Active(e)
    BY <1>8
  <2>1. Stale(elements[e], request)
    BY DEF PlayerInv, Disused
  <2> QED
    BY <1>3, <1>6, <2>1 DEF Stale, Latest, Active
<1>10. current = None => e # media
  BY <1>2 DEF PlayerInv, InUse
<1>11. duration' \in {None, current}
  <2>1. Active(e) => elements[e].src = current
    BY <1>2 DEF Active, PlayerInv, InUse
  <2> QED
    BY <1>1, <2>1 DEF PlayerInv, InUse
<1>12. status' \in Buttons /\ (current = None => status' = "idle")
  BY <1>8, <1>9, <1>10 DEF PlayerInv, InUse, TypeOK, Buttons
<1>13. e # media => ~after.sounding /\ Stale(after, request)
  <2> SUFFICES ASSUME e # media PROVE ~after.sounding /\ Stale(after, request)
    OBVIOUS
  <2>1. ~elements[e].sounding /\ Stale(elements[e], request)
    BY DEF PlayerInv, Disused
  <2> QED
    BY <1>4, <1>5, <2>1 DEF Stale
<1>14. ASSUME e = media, Told(elements[e], status, request) PROVE Told(after, status', request)
  <2>1. Active(e)
    BY <1>2, <1>14 DEF Active, PlayerInv, InUse
  <2>2. \A i \in DOMAIN tasks : i # 1 => i - 1 \in DOMAIN after.tasks /\ after.tasks[i - 1] = tasks[i]
    BY <1>3, <1>4
  <2>3. ASSUME \A i \in DOMAIN after.tasks : ~Affects(after.tasks[i], request)
        PROVE  status' = "playing" <=> after.sounding
    <3>1. \A i \in DOMAIN tasks : i # 1 => ~Affects(tasks[i], request)
      BY <2>2, <2>3
    <3>2. CASE Affects(task, request)
      <4>1. LastToTell(tasks, 1, request)
        BY <1>3, <3>1, <3>2 DEF LastToTell
      <4>2. task.kind = "resolved" <=> elements[e].sounding
        BY <1>3, <1>6, <1>14, <4>1 DEF Told
      <4>3. status' = "playing" <=> task.kind = "resolved"
        <5>1. task.kind \in {"error", "ended", "loadedmetadata", "resolved", "rejected"}
          BY <1>3 DEF Task
        <5>2. task.kind \in {"resolved", "rejected"} => Latest(task)
          BY <3>2 DEF Affects, Latest
        <5>3. task.kind # "loadedmetadata"
          BY <1>6, <3>2 DEF Affects
        <5> QED
          BY <1>1, <2>1, <5>1, <5>2, <5>3 DEF StatusAfter
      <4> QED
        BY <1>4, <4>2, <4>3
    <3>3. CASE ~Affects(task, request)
      <4>1. status' = status
        BY <1>8, <3>3 DEF Affects, Latest
      <4>2. \A i \in DOMAIN tasks : ~Affects(tasks[i], request)
        BY <1>3, <3>1, <3>3
      <4> QED
        BY <1>4, <1>14, <4>1, <4>2 DEF Told
    <3> QED
      BY <3>2, <3>3
  <2>4. ASSUME NEW i \in DOMAIN after.tasks, LastToTell(after.tasks, i, request)
        PROVE  after.tasks[i].kind = "resolved" <=> after.sounding
    <3>1. i \in Nat /\ i + 1 \in DOMAIN tasks /\ after.tasks[i] = tasks[i + 1]
      BY <1>3, <1>4, <1>5
    <3>2. ASSUME NEW k \in DOMAIN tasks, k > i + 1 PROVE ~Affects(tasks[k], request)
      <4>1. k - 1 \in DOMAIN after.tasks /\ after.tasks[k - 1] = tasks[k] /\ k - 1 > i
        BY <1>3, <2>2, <3>1, <3>2
      <4> QED
        BY <2>4, <4>1 DEF LastToTell
    <3>3. LastToTell(tasks, i + 1, request)
      BY <2>4, <3>1, <3>2 DEF LastToTell
    <3> QED
      BY <1>4, <1>14, <3>1, <3>3 DEF Told
  <2> QED
    BY <2>3, <2>4 DEF Told
<1>15. e = media => Answers(after, status', request)
  BY <1>2, <1>4, <1>14 DEF PlayerInv, Answers
<1> QED
  BY <1>1, <1>4, <1>7, <1>9, <1>11, <1>12, <1>13, <1>15, Changed

----------------------------------------------------------------------------
\* The inductive invariant.

LEMMA PlayerInitHolds == Init => PlayerInv
<1> SUFFICES ASSUME Init PROVE PlayerInv
  OBVIOUS
<1>1. /\ current = None /\ status = "idle" /\ duration = None
      /\ request = 0 /\ generation = 0 /\ media = 0
      /\ elements = [e \in Generations |-> Unmade]
  BY DEF Init
<1>2. Unmade \in Element /\ ~Unmade.sounding /\ Unmade.src = None /\ Unmade.waiting = {} /\ Unmade.tasks = <<>>
  <2>1. /\ NewElement \in Element /\ NewElement.sounding = FALSE /\ NewElement.src = None
        /\ NewElement.waiting = {} /\ NewElement.tasks = <<>>
    BY DEF NewElement, Element
  <2> QED
    BY <2>1 DEF Unmade, Element
<1>3. TypeOK
  BY <1>1, <1>2, AudioPlayerAssumption DEF TypeOK
<1>4. InUse
  BY <1>1 DEF InUse
<1>5. Sound(Unmade, request) /\ Stale(Unmade, request)
  BY <1>2 DEF Sound, Stale
<1>6. Disused /\ \A e \in Generations : Sound(elements[e], request)
  BY <1>1, <1>2, <1>5 DEF Disused
<1> QED
  BY <1>1, <1>3, <1>4, <1>6 DEF PlayerInv

LEMMA PlayerStutterKeeps ==
  ASSUME PlayerInv, UNCHANGED vars
  PROVE  PlayerInv'
<1>1. UNCHANGED <<current, status, duration, request, generation, media, elements>>
  BY DEF vars
<1>2. TypeOK' /\ InUse' /\ Disused'
  BY <1>1 DEF PlayerInv, TypeOK, InUse, Disused
<1>3. \A e \in Generations : Sound(elements'[e], request')
  BY <1>1 DEF PlayerInv
<1>4. media' # 0 => Answers(elements'[media'], status', request')
  BY <1>1 DEF PlayerInv
<1> QED
  BY <1>2, <1>3, <1>4 DEF PlayerInv

LEMMA PlayerNextKeeps == PlayerInv /\ [Next]_vars => PlayerInv'
<1>1. ASSUME PlayerInv, NEW track \in Tracks, Toggle(track) \/ Move(track) \/ Play(track)
      PROVE  PlayerInv'
  BY <1>1, PlayKeeps, PauseKeeps, ResumeKeeps DEF Toggle, Move
<1> QED
  BY <1>1, PauseKeeps, ResumeKeeps, CloseKeeps, StartKeeps, FailKeeps, RefuseKeeps, ReadMetadataKeeps,
     EndKeeps, DeliverKeeps, PlayerStutterKeeps DEF Next, Visitor, Browser

LEMMA PlayerInductive == Spec => []PlayerInv
<1> QED
  BY PlayerInitHolds, PlayerNextKeeps, PTL DEF Spec

\* The player and its elements keep their types, for every set of tracks and
\* number of presses.
THEOREM TypeCorrect == Spec => []TypeOK
<1>1. PlayerInv => TypeOK
  BY DEF PlayerInv
<1> QED
  BY <1>1, PlayerInductive, PTL

\* Only the track that is shown sounds, and its duration is the one shown:
\* disposeMedia silences an element for good, whatever it was waiting for, and
\* no late answer or event of it changes the player.
THEOREM OnlyShownSounds == Spec => []OneSounding
<1>1. PlayerInv => OneSounding
  BY DEF PlayerInv, InUse, Disused, OneSounding
<1> QED
  BY <1>1, PlayerInductive, PTL

\* Once the browser has told all it has to tell, the button shows a playing
\* track exactly if it sounds, in whatever order the visitor pressed and the
\* browser settled promises, failed and ended (playbackRequest, mediaGeneration).
THEOREM ButtonTellsTruth == Spec => []ButtonIsTrue
<1>1. PlayerInv => ButtonIsTrue
  <2> SUFFICES ASSUME PlayerInv, media # 0, elements[media].tasks = <<>>, elements[media].waiting = {}
               PROVE  status = "playing" <=> elements[media].sounding
    BY DEF ButtonIsTrue
  <2>1. Told(elements[media], status, request)
    BY DEF PlayerInv, Answers
  <2>2. \A i \in DOMAIN elements[media].tasks : ~Affects(elements[media].tasks[i], request)
    OBVIOUS
  <2> QED
    BY <2>1, <2>2 DEF Told
<1> QED
  BY <1>1, PlayerInductive, PTL

----------------------------------------------------------------------------
(* The asset list.                                                          *)

\* What the histories say of the rows: assets that match the filter ever since do
\* so now, and an upload that was confirmed was not taken back.
Histories ==
  /\ \A id \in since \cup listing.since : rows[id] \in Statuses(filter)
  /\ \A id \in confirmed : rows[id] \in {"ready", "deleted"}
  /\ listing.done \subseteq confirmed
  /\ upload.step = "created" => rows[upload.id] # "none"
  /\ upload.step = "confirmed" => rows[upload.id] \in {"ready", "deleted"}

\* What the page that is being read has to bring: of the first page everything,
\* of a later one what is after the cursor.
Owed == IF listing.op = "more" THEN {id \in since : Before(id, cursor)} ELSE listing.since

\* The answer brings what it owes, or leaves it for the next page; and what it
\* does not know of the page's uploads the page has noted (uploadsDuringList).
Brings ==
  listing.answered =>
    /\ \A id \in Owed :
         \/ Incoming(listing)[id] # "none"
         \/ listing.next # NoAsset /\ Before(id, listing.next)
         \/ Overtaken(id)
    /\ \A id \in confirmed \ listing.done : listing.page[id] # "pending"

ListInv == ListTypeOK /\ Histories /\ Brings /\ NothingSkipped /\ ShownIsCurrent

\* Creation time and id order the assets, without a tie.
LEMMA Ordered ==
  ASSUME ListParameters
  PROVE  \A x, y, z \in Ids :
           /\ ~Before(x, x)
           /\ Before(x, y) /\ Before(y, z) => Before(x, z)
           /\ x = y \/ Before(x, y) \/ Before(y, x)
<1> SUFFICES ASSUME NEW x \in Ids, NEW y \in Ids, NEW z \in Ids
             PROVE  /\ ~Before(x, x)
                    /\ Before(x, y) /\ Before(y, z) => Before(x, z)
                    /\ x = y \/ Before(x, y) \/ Before(y, x)
  OBVIOUS
<1>1. x \in Nat /\ y \in Nat /\ z \in Nat
  BY DEF ListParameters
<1>2. Created[x] \in Nat /\ Created[y] \in Nat /\ Created[z] \in Nat
  BY DEF ListParameters
<1> QED
  BY <1>1, <1>2 DEF Before

\* The one before another has more assets after itself.
LEMMA FurtherDown ==
  ASSUME ListParameters, NEW ids \in SUBSET Ids, NEW x \in ids, NEW y \in ids, Before(x, y)
  PROVE  LET Newer(id) == {other \in ids : Before(id, other)}
             Older(id) == {other \in ids : Before(other, id)}
         IN /\ Cardinality(Newer(y)) < Cardinality(Newer(x))
            /\ Cardinality(Older(x)) < Cardinality(Older(y))
<1> DEFINE Newer(id) == {other \in ids : Before(id, other)}
           Older(id) == {other \in ids : Before(other, id)}
<1>1. IsFiniteSet(ids)
  BY FS_Subset DEF ListParameters
<1>2. /\ Newer(y) \in SUBSET Newer(x) /\ Newer(y) # Newer(x)
      /\ Older(x) \in SUBSET Older(y) /\ Older(x) # Older(y)
  <2>1. /\ \A id \in ids : Before(y, id) => Before(x, id)
        /\ \A id \in ids : Before(id, x) => Before(id, y)
        /\ ~Before(y, y) /\ ~Before(x, x)
    BY Ordered
  <2> QED
    BY <2>1
<1>3. \A id \in ids : IsFiniteSet(Newer(id)) /\ IsFiniteSet(Older(id))
  <2>1. \A id \in ids : Newer(id) \in SUBSET ids /\ Older(id) \in SUBSET ids
    OBVIOUS
  <2> HIDE DEF Newer, Older
  <2> QED
    BY <1>1, <2>1, FS_Subset
<1> HIDE DEF Newer, Older
<1>4. /\ Cardinality(Newer(x)) \in Nat /\ Cardinality(Newer(y)) \in Nat
      /\ Cardinality(Older(x)) \in Nat /\ Cardinality(Older(y)) \in Nat
  BY <1>3, FS_CardinalityType
<1>5. Cardinality(Newer(y)) <= Cardinality(Newer(x)) /\ Cardinality(Newer(x)) # Cardinality(Newer(y))
  BY <1>2, <1>3, FS_Subset
<1>6. Cardinality(Older(x)) <= Cardinality(Older(y)) /\ Cardinality(Older(y)) # Cardinality(Older(x))
  BY <1>2, <1>3, FS_Subset
<1>7. Cardinality(Newer(y)) < Cardinality(Newer(x)) /\ Cardinality(Older(x)) < Cardinality(Older(y))
  BY <1>4, <1>5, <1>6
<1> QED
  BY <1>7 DEF Newer, Older

\* Some assets, but not none, have a newest and an oldest among them.
LEMMA Ends ==
  ASSUME ListParameters, NEW ids \in SUBSET Ids, ids # {}
  PROVE  /\ \E first \in ids : \A id \in ids : ~Before(first, id)
         /\ \E last \in ids : \A id \in ids : id = last \/ Before(last, id)
<1> DEFINE Newer(id) == {other \in ids : Before(id, other)}
           Older(id) == {other \in ids : Before(other, id)}
           Heights == {Cardinality(Newer(id)) : id \in ids}
           Depths == {Cardinality(Older(id)) : id \in ids}
<1>1. IsFiniteSet(ids)
  BY FS_Subset DEF ListParameters
<1>2. \A id \in ids : Cardinality(Newer(id)) \in Nat /\ Cardinality(Older(id)) \in Nat
  <2>1. \A id \in ids : Newer(id) \in SUBSET ids /\ Older(id) \in SUBSET ids
    OBVIOUS
  <2> HIDE DEF Newer, Older
  <2> QED
    BY <1>1, <2>1, FS_Subset, FS_CardinalityType
<1>3. \A x, y \in ids : Before(x, y) =>
        Cardinality(Newer(y)) < Cardinality(Newer(x)) /\ Cardinality(Older(x)) < Cardinality(Older(y))
  BY FurtherDown
<1> HIDE DEF Newer, Older
<1>4. PICK h \in Heights : \A other \in Heights : h <= other
  <2>1. Heights \subseteq Nat /\ Heights # {}
    BY <1>2
  <2> HIDE DEF Heights
  <2> QED
    BY <2>1, LeastNumber
<1>5. PICK d \in Depths : \A other \in Depths : d <= other
  <2>1. Depths \subseteq Nat /\ Depths # {}
    BY <1>2
  <2> HIDE DEF Depths
  <2> QED
    BY <2>1, LeastNumber
<1>6. PICK first \in ids : h = Cardinality(Newer(first))
  BY <1>4
<1>7. PICK last \in ids : d = Cardinality(Older(last))
  BY <1>5
<1>8. \A id \in ids : ~Before(first, id)
  <2> SUFFICES ASSUME NEW id \in ids, Before(first, id) PROVE FALSE
    OBVIOUS
  <2>1. Cardinality(Newer(id)) \in Heights
    OBVIOUS
  <2>2. Cardinality(Newer(id)) < Cardinality(Newer(first)) /\ Cardinality(Newer(first)) <= Cardinality(Newer(id))
    BY <1>3, <1>4, <1>6, <2>1
  <2> QED
    BY <1>2, <2>2
<1>9. \A id \in ids : ~Before(id, last)
  <2> SUFFICES ASSUME NEW id \in ids, Before(id, last) PROVE FALSE
    OBVIOUS
  <2>1. Cardinality(Older(id)) \in Depths
    OBVIOUS
  <2>2. Cardinality(Older(id)) < Cardinality(Older(last)) /\ Cardinality(Older(last)) <= Cardinality(Older(id))
    BY <1>3, <1>5, <1>7, <2>1
  <2> QED
    BY <1>2, <2>2
<1>10. \A id \in ids : id = last \/ Before(last, id)
  BY <1>9, Ordered
<1> QED
  BY <1>8, <1>10

\* A page is the newest part of what was found; and if it is not all, its cursor
\* is the oldest asset of the page and has the others after it.
LEMMA PageIsUpper ==
  ASSUME ListParameters
  PROVE  /\ Items \subseteq Found /\ Found \subseteq Ids
         /\ NextCursor \in Ids \cup {NoAsset}
         /\ \A id \in Found \ Items : NextCursor # NoAsset /\ Before(id, NextCursor)
<1>1. Found \subseteq Ids
  BY DEF Found, Matching
<1> DEFINE ids == Found
<1> DEFINE Newer(id) == {other \in ids : Before(id, other)}
<1>2. Items = {id \in ids : Cardinality(Newer(id)) < PageSize}
  BY DEF Items, Newest
<1>3. Items \subseteq ids
  BY <1>2
<1> HIDE DEF ids
<1>4. \A id \in ids : Cardinality(Newer(id)) \in Nat
  <2>1. IsFiniteSet(ids) /\ \A id \in ids : Newer(id) \in SUBSET ids
    BY <1>1, FS_Subset DEF ListParameters, ids
  <2> HIDE DEF Newer
  <2> QED
    BY <2>1, FS_Subset, FS_CardinalityType
<1>5. ids # {} => Items # {}
  <2> SUFFICES ASSUME ids # {} PROVE Items # {}
    OBVIOUS
  <2>1. PICK first \in ids : \A id \in ids : ~Before(first, id)
    BY <1>1, Ends DEF ids
  <2>2. Newer(first) = {}
    BY <2>1
  <2>3. Cardinality(Newer(first)) = 0
    BY <2>2, FS_EmptySet
  <2>4. 0 < PageSize
    <3>1. PageSize \in Nat \ {0}
      BY DEF ListParameters
    <3> QED
      BY <3>1
  <2> QED
    BY <1>2, <2>1, <2>3, <2>4
<1>6. \A id \in ids \ Items, x \in Items : Before(id, x)
  <2> SUFFICES ASSUME NEW id \in ids \ Items, NEW x \in Items, ~Before(id, x) PROVE FALSE
    OBVIOUS
  <2>1. Before(x, id)
    BY <1>1, <1>3, Ordered DEF ids
  <2>2. Cardinality(Newer(id)) < Cardinality(Newer(x))
    BY <1>1, <1>3, <2>1, FurtherDown DEF ids
  <2>3. Cardinality(Newer(x)) < PageSize /\ ~(Cardinality(Newer(id)) < PageSize)
    BY <1>2
  <2>4. Cardinality(Newer(x)) \in Nat /\ Cardinality(Newer(id)) \in Nat
    BY <1>3, <1>4
  <2>5. PageSize \in Nat
    BY DEF ListParameters
  <2> HIDE DEF Newer
  <2> QED
    BY <2>2, <2>3, <2>4, <2>5
<1>7. CASE Items = Found
  BY <1>1, <1>3, <1>7 DEF NextCursor, ids
<1>8. CASE Items # Found
  <2>1. Items # {} /\ Items \in SUBSET Ids
    BY <1>1, <1>3, <1>5, <1>8 DEF ids
  <2>2. \E last \in Items : \A id \in Items : id = last \/ Before(last, id)
    BY <2>1, Ends
  <2>3. NextCursor = CHOOSE last \in Items : \A id \in Items : id = last \/ Before(last, id)
    BY <1>8 DEF NextCursor
  <2>4. NextCursor \in Items
    BY <2>2, <2>3
  <2>5. NextCursor \in Ids /\ NextCursor # NoAsset
    BY <2>1, <2>4 DEF ListParameters, NoAsset
  <2> QED
    BY <1>1, <1>3, <1>6, <2>4, <2>5 DEF ids
<1> QED
  BY <1>7, <1>8

\* What a call has asked for and was answered, by type.
LEMMA Calls ==
  ASSUME ListTypeOK
  PROVE  /\ listing \in Call /\ listing.since \subseteq Ids /\ listing.done \subseteq Ids
         /\ listing.page \in Listing /\ listing.next \in Ids \cup {NoAsset} /\ listing.answered \in BOOLEAN
         /\ NoListCall \in Call /\ ~NoListCall.answered /\ NoListCall.op = "none"
         /\ NoListCall.since = {} /\ NoListCall.done = {}
         /\ listing.answered => listing.op # "none" /\ listing # NoListCall
<1>1. listing \in Call
  BY DEF ListTypeOK
<1>2. Nothing \in Listing
  BY DEF Nothing, Listing
<1>3. NoListCall \in Call /\ NoListCall.answered = FALSE
  BY <1>2 DEF NoListCall, Call
<1>4. listing.op = "none" => listing = NoListCall
  BY DEF ListTypeOK
<1>5. listing.answered => listing # NoListCall /\ listing.op # "none"
  BY <1>3, <1>4
<1>6. NoListCall.op = "none" /\ NoListCall.since = {} /\ NoListCall.done = {}
  BY DEF NoListCall
<1>7. /\ listing.since \subseteq Ids /\ listing.done \subseteq Ids /\ listing.answered \in BOOLEAN
      /\ listing.page \in Listing /\ listing.next \in Ids \cup {NoAsset}
  BY <1>1 DEF Call
<1> QED
  BY <1>1, <1>3, <1>5, <1>6, <1>7

\* The server answers from one statement, under the call's filter and cursor.
LEMMA ListHandledKeeps ==
  ASSUME ListParameters, ListInv, ListHandled
  PROVE  ListInv'
<1> DEFINE page == [id \in Ids |-> IF id \in Items THEN rows[id] ELSE "none"]
           answer == [listing EXCEPT !.answered = TRUE, !.next = NextCursor, !.page = page]
<1>1. /\ listing.op # "none" /\ ~listing.answered /\ listing' = answer
      /\ UNCHANGED <<rows, filter, shown, cursor, older, upload, since, confirmed>>
  BY DEF ListHandled
<1>2. ListTypeOK /\ rows \in Listing /\ listing \in Call
  BY DEF ListInv, ListTypeOK
<1>3. page \in Listing
  BY <1>2 DEF Listing
<1>4. \A id \in Items : page[id] = rows[id]
  BY PageIsUpper
<1> HIDE DEF page
<1>5. NextCursor \in Ids \cup {NoAsset}
  BY PageIsUpper
<1>6. /\ answer \in Call /\ answer.answered /\ answer.op = listing.op /\ answer.page = page
      /\ answer.next = NextCursor /\ answer.done = listing.done /\ answer.since = listing.since
  BY <1>2, <1>3, <1>5 DEF Call
<1> HIDE DEF answer
<1>7. ListTypeOK'
  BY <1>1, <1>2, <1>6 DEF ListTypeOK
<1>8. Histories'
  BY <1>1, <1>6 DEF ListInv, Histories
<1>9. Owed \subseteq Found
  <2>1. \A id \in since \cup listing.since : id \in Ids /\ rows[id] \in Statuses(filter)
    BY Calls DEF ListInv, Histories, ListTypeOK
  <2>2. CASE listing.op = "more"
    BY <2>1, <2>2 DEF Owed, Found, Matching
  <2>3. CASE listing.op # "more"
    BY <2>1, <2>3 DEF Owed, Found, Matching
  <2> QED
    BY <2>2, <2>3
<1>10. \A id \in Ids : rows[id] \in Statuses(filter) => rows[id] # "none"
  BY DEF Statuses, ListInv, ListTypeOK, ListParameters
<1>11. ASSUME NEW id \in Owed
       PROVE  \/ Incoming(answer)[id] # "none"
              \/ answer.next # NoAsset /\ Before(id, answer.next)
              \/ Overtaken(id)
  <2>1. id \in Found /\ id \in Ids /\ rows[id] \in Statuses(filter) /\ rows[id] # "none"
    BY <1>9, <1>10, <1>11 DEF Found, Matching
  <2>2. CASE id \notin Items
    BY <1>6, <2>1, <2>2, PageIsUpper
  <2>3. CASE id \in Items /\ id \notin listing.done
    <3>1. Incoming(answer)[id] = rows[id]
      BY <1>4, <1>6, <2>1, <2>3 DEF Incoming, Kept, Matches
    <3> QED
      BY <2>1, <3>1
  <2>4. CASE id \in listing.done
    <3>1. id \in confirmed /\ rows[id] \in {"ready", "deleted"}
      BY <2>4 DEF ListInv, Histories
    <3>2. Incoming(answer)[id] = IF "ready" \in Statuses(filter) THEN "ready" ELSE "none"
      BY <1>6, <2>1, <2>4 DEF Incoming, Kept, Matches
    <3>3. "ready" \in Statuses(filter) \/ filter = "deleted"
      BY <2>1, <3>1 DEF Statuses
    <3> QED
      BY <3>1, <3>2, <3>3 DEF Overtaken
  <2> QED
    BY <2>2, <2>3, <2>4
<1>12. \A id \in confirmed : page[id] # "pending"
  BY DEF page, ListInv, Histories, ListTypeOK
<1>13. Owed' = Owed
  BY <1>1, <1>6 DEF Owed
<1>14. Incoming(listing)' = Incoming(answer)
  BY <1>1 DEF Incoming, Kept, Matches, Statuses
<1>15. \A id : Overtaken(id)' <=> Overtaken(id)
  BY <1>1 DEF Overtaken
<1>16. Brings'
  BY <1>1, <1>6, <1>11, <1>12, <1>13, <1>14, <1>15 DEF Brings
<1>17. NothingSkipped' /\ ShownIsCurrent'
  BY <1>1, <1>15 DEF ListInv, NothingSkipped, ShownIsCurrent, ShownMatchesFilter, ReadyStaysReady, Statuses
<1> QED
  BY <1>7, <1>8, <1>16, <1>17 DEF ListInv

\* A row changes, and leaves the histories if it does not match any more.
LEMMA RowBecomesKeeps ==
  ASSUME ListParameters, ListInv, NEW id \in Ids, NEW becomes \in {"pending", "ready", "deleted"},
         RowBecomes(id, becomes), UNCHANGED <<filter, shown, cursor, older, confirmed>>,
         becomes = "pending" => rows[id] = "none", upload' \in Upload,
         upload'.step = "none" <=> upload'.id = NoAsset,
         upload'.step = "created" => rows'[upload'.id] # "none",
         upload'.step = "confirmed" => rows'[upload'.id] \in {"ready", "deleted"}
  PROVE  ListInv'
<1> DEFINE matching == {other \in listing.since : rows'[other] \in Statuses(filter)}
           after == [listing EXCEPT !.since = matching]
<1>1. /\ rows' = [rows EXCEPT ![id] = becomes]
      /\ since' = {other \in since : rows'[other] \in Statuses(filter)}
      /\ listing' = after
  BY DEF RowBecomes
<1>2. /\ ListTypeOK /\ rows \in Listing /\ listing \in Call /\ listing.since \subseteq Ids
      /\ listing.op = "none" => listing = NoListCall
  BY Calls DEF ListInv, ListTypeOK
<1>3. matching \subseteq listing.since /\ \A other \in matching : rows'[other] \in Statuses(filter)
  OBVIOUS
<1> HIDE DEF matching
<1>4. /\ after \in Call /\ after.answered = listing.answered /\ after.op = listing.op
      /\ after.page = listing.page /\ after.next = listing.next /\ after.done = listing.done
      /\ after.since = matching
  BY <1>2, <1>3 DEF Call
<1>5. listing = NoListCall => after = NoListCall
  <2>1. listing = NoListCall => matching = {}
    BY <1>2, <1>3, Calls
  <2>2. ASSUME NEW c \in Call
        PROVE  [c EXCEPT !.since = c.since] = c
    BY DEF Call
  <2>3. /\ NoListCall \in Call
        /\ NoListCall.since = {}
    BY <1>2, Calls
  <2>4. [NoListCall EXCEPT !.since = {}] = NoListCall
    BY ONLY <2>2, <2>3
  <2> QED
    BY <2>1, <2>4
<1> HIDE DEF after
<1>6. rows' \in Listing /\ \A other \in Ids : rows'[other] = IF other = id THEN becomes ELSE rows[other]
  BY <1>1, <1>2 DEF Listing
<1>7. ListTypeOK'
  <2>1. /\ older \in Call /\ filter \in Filters /\ shown \in Listing /\ cursor \in Ids \cup {NoAsset}
        /\ since' \subseteq Ids /\ confirmed \subseteq Ids
        /\ listing.op = "more" => cursor # NoAsset
        /\ older.op = "none" => older = NoListCall
    BY <1>1, <1>2 DEF ListTypeOK
  <2>2. listing'.op = "none" => listing' = NoListCall
    BY <1>1, <1>2, <1>4, <1>5
  <2> QED
    BY <1>1, <1>4, <1>6, <2>1, <2>2 DEF ListTypeOK
<1>8. \A other \in confirmed : rows'[other] \in {"ready", "deleted"}
  BY <1>2, <1>6 DEF ListInv, Histories, ListTypeOK
<1>9. Histories'
  <2>1. \A other \in since' \cup listing'.since : rows'[other] \in Statuses(filter)
    BY <1>1, <1>3, <1>4
  <2>2. listing'.done \subseteq confirmed
    BY <1>1, <1>4 DEF ListInv, Histories
  <2> QED
    BY <1>8, <2>1, <2>2 DEF Histories, Statuses
<1>10. Owed' \subseteq Owed
  BY <1>1, <1>3, <1>4 DEF Owed, Before
<1>11. Incoming(listing)' = Incoming(listing)
  BY <1>1, <1>4 DEF Incoming, Kept, Matches, Statuses
<1>12. \A other : Overtaken(other)' <=> Overtaken(other)
  BY DEF Overtaken
<1>13. Brings'
  BY <1>1, <1>4, <1>10, <1>11, <1>12 DEF ListInv, Brings
<1>14. since' \subseteq since
  BY <1>1
<1>15. NothingSkipped' /\ ShownIsCurrent'
  BY <1>12, <1>14 DEF ListInv, NothingSkipped, ShownIsCurrent, ShownMatchesFilter, ReadyStaysReady, Statuses
<1> QED
  BY <1>7, <1>9, <1>13, <1>15 DEF ListInv

LEMMA OthersChangeKeeps ==
  ASSUME ListParameters, ListInv, NEW id \in Ids, OthersChange(id)
  PROVE  ListInv'
<1>1. PICK becomes \in {"pending", "ready", "deleted"} :
        /\ RowBecomes(id, becomes) /\ (becomes = "pending" => rows[id] = "none")
        /\ rows[id] \in {"ready", "deleted"} => becomes \in {"ready", "deleted"}
  BY DEF OthersChange
<1>2. UNCHANGED <<filter, shown, cursor, older, upload, confirmed>>
  BY DEF OthersChange
<1>3. /\ upload \in Upload /\ (upload.step = "none" <=> upload.id = NoAsset)
      /\ upload.step # "none" => upload.id \in Ids
  BY DEF ListInv, ListTypeOK, Upload
<1>4. rows' = [rows EXCEPT ![id] = becomes] /\ rows \in [Ids -> {"none", "pending", "ready", "deleted"}]
  BY <1>1 DEF RowBecomes, ListInv, ListTypeOK, Listing
<1>5. /\ upload.step = "created" => rows'[upload.id] # "none"
      /\ upload.step = "confirmed" => rows'[upload.id] \in {"ready", "deleted"}
  BY <1>1, <1>3, <1>4 DEF ListInv, Histories
<1> QED
  BY <1>1, <1>2, <1>3, <1>5, RowBecomesKeeps

LEMMA CreateUploadKeeps ==
  ASSUME ListParameters, ListInv, NEW id \in Ids, CreateUpload(id)
  PROVE  ListInv'
<1>1. /\ rows[id] = "none" /\ RowBecomes(id, "pending")
      /\ upload' = [step |-> "created", id |-> id]
      /\ UNCHANGED <<filter, shown, cursor, older, confirmed>>
  BY DEF CreateUpload
<1>2. upload' \in Upload /\ upload'.step = "created" /\ upload'.id = id /\ id # NoAsset
  BY <1>1 DEF Upload, ListParameters, NoAsset
<1>3. rows'[id] = "pending"
  BY <1>1 DEF RowBecomes, ListInv, ListTypeOK, Listing
<1> QED
  BY <1>1, <1>2, <1>3, RowBecomesKeeps

LEMMA CompleteHandledKeeps ==
  ASSUME ListParameters, ListInv, CompleteHandled
  PROVE  ListInv'
<1>1. /\ upload.step = "created" /\ RowBecomes(upload.id, "ready")
      /\ upload' = [upload EXCEPT !.step = "confirmed"]
      /\ UNCHANGED <<filter, shown, cursor, older, confirmed>>
  BY DEF CompleteHandled
<1>2. upload \in Upload /\ upload.id \in Ids /\ upload.id # NoAsset
  BY <1>1 DEF ListInv, ListTypeOK, Upload
<1>3. upload' \in Upload /\ upload'.step = "confirmed" /\ upload'.id = upload.id
  BY <1>1, <1>2 DEF Upload
<1>4. rows'[upload.id] = "ready"
  BY <1>1, <1>2 DEF RowBecomes, ListInv, ListTypeOK, Listing
<1> QED
  BY <1>1, <1>2, <1>3, <1>4, RowBecomesKeeps

\* What the page takes in of an answer keeps to the filter.
LEMMA IncomingMatches ==
  ASSUME ListTypeOK
  PROVE  /\ Incoming(listing) \in Listing
         /\ \A id \in Ids : Incoming(listing)[id] \in {"none"} \cup Statuses(filter)
         /\ \A id \in Ids : id \in listing.done => Incoming(listing)[id] \in {"none", "ready"}
         /\ \A id \in Ids : id \notin listing.done => Incoming(listing)[id] \in {"none", listing.page[id]}
<1>1. listing.page \in [Ids -> {"none", "pending", "ready", "deleted"}]
  BY Calls DEF Listing
<1>2. Incoming(listing) = [id \in Ids |->
        IF (IF id \in listing.done THEN "ready" ELSE listing.page[id]) \in Statuses(filter)
        THEN (IF id \in listing.done THEN "ready" ELSE listing.page[id]) ELSE "none"]
  BY DEF Incoming, Kept, Matches
<1> QED
  BY <1>1, <1>2 DEF Listing

\* The answer of the last call is what the list becomes, or is added to it.
LEMMA ListArrivesKeeps ==
  ASSUME ListParameters, ListInv, ListArrives
  PROVE  ListInv'
<1> DEFINE new == Incoming(listing)
           merged == [id \in Ids |-> IF new[id] = "none" THEN shown[id] ELSE new[id]]
<1>1. /\ listing.answered /\ cursor' = listing.next /\ listing' = NoListCall
      /\ shown' = IF listing.op = "more" THEN merged ELSE new
      /\ since' = IF listing.op = "more" THEN since ELSE listing.since
      /\ UNCHANGED <<rows, filter, older, upload, confirmed>>
  BY DEF ListArrives, Merged
<1>2. /\ ListTypeOK /\ shown \in [Ids -> {"none", "pending", "ready", "deleted"}]
      /\ since \subseteq Ids /\ confirmed \subseteq Ids
  BY DEF ListInv, ListTypeOK, Listing
<1>3. /\ new \in [Ids -> {"none", "pending", "ready", "deleted"}]
      /\ \A id \in Ids : new[id] \in {"none"} \cup Statuses(filter)
      /\ \A id \in confirmed : new[id] # "pending"
  <2>1. /\ new \in Listing
        /\ \A id \in Ids : new[id] \in {"none"} \cup Statuses(filter)
        /\ \A id \in Ids : id \in listing.done => new[id] \in {"none", "ready"}
        /\ \A id \in Ids : id \notin listing.done => new[id] \in {"none", listing.page[id]}
    BY <1>2, IncomingMatches
  <2> HIDE DEF new
  <2>2. \A id \in confirmed \ listing.done : listing.page[id] # "pending"
    BY <1>1 DEF ListInv, Brings
  <2> QED
    BY <1>2, <2>1, <2>2 DEF Listing
<1>4. \A id \in Owed :
        new[id] # "none" \/ (listing.next # NoAsset /\ Before(id, listing.next)) \/ Overtaken(id)
  BY <1>1 DEF ListInv, Brings
<1> HIDE DEF new
<1>5. /\ merged \in [Ids -> {"none", "pending", "ready", "deleted"}]
      /\ \A id \in Ids : merged[id] = IF new[id] = "none" THEN shown[id] ELSE new[id]
  BY <1>2, <1>3
<1> HIDE DEF merged
<1>6. ListTypeOK'
  <2>1. shown' \in Listing
    BY <1>1, <1>3, <1>5 DEF Listing
  <2>2. cursor' \in Ids \cup {NoAsset} /\ since' \subseteq Ids /\ listing' \in Call /\ listing'.op = "none"
    BY <1>1, <1>2, Calls
  <2> QED
    BY <1>1, <1>2, <2>1, <2>2 DEF ListTypeOK
<1>7. Histories'
  BY <1>1, <1>2, Calls DEF ListInv, Histories, Statuses
<1>8. Brings'
  BY <1>1, <1>2, Calls DEF Brings
<1>9. \A id : Overtaken(id)' <=> Overtaken(id)
  BY <1>1 DEF Overtaken
<1>10. ASSUME NEW id \in since'
       PROVE  shown'[id] # "none" \/ (cursor' # NoAsset /\ Before(id, cursor')) \/ Overtaken(id)
  <2>1. CASE listing.op = "more"
    <3>1. id \in since /\ id \in Ids /\ shown' = merged
      BY <1>1, <1>2, <1>10, <2>1
    <3>2. shown[id] # "none" \/ (cursor # NoAsset /\ Before(id, cursor)) \/ Overtaken(id)
      BY <3>1 DEF ListInv, NothingSkipped
    <3>3. CASE shown[id] # "none"
      BY <1>5, <3>1, <3>3
    <3>4. CASE Before(id, cursor)
      <4>1. id \in Owed
        BY <2>1, <3>1, <3>4 DEF Owed
      <4> QED
        BY <1>1, <1>4, <1>5, <3>1, <4>1
    <3> QED
      BY <3>2, <3>3, <3>4
  <2>2. CASE listing.op # "more"
    <3>1. id \in Owed /\ shown' = new
      BY <1>1, <1>10, <2>2 DEF Owed
    <3> QED
      BY <1>1, <1>4, <3>1
  <2> QED
    BY <2>1, <2>2
<1>11. NothingSkipped'
  BY <1>9, <1>10 DEF NothingSkipped, Before
<1>12. \A id \in Ids : shown'[id] \in {"none"} \cup Statuses(filter)
  BY <1>1, <1>3, <1>5 DEF ListInv, ShownIsCurrent, ShownMatchesFilter
<1>13. \A id \in confirmed : shown'[id] # "pending"
  BY <1>1, <1>2, <1>3, <1>5 DEF ListInv, ShownIsCurrent, ReadyStaysReady
<1>14. ShownIsCurrent'
  BY <1>1, <1>12, <1>13 DEF ShownIsCurrent, ShownMatchesFilter, ReadyStaysReady, Statuses
<1> QED
  BY <1>6, <1>7, <1>8, <1>11, <1>14 DEF ListInv

\* A new call replaces the one that loads.
LEMMA Asked ==
  ASSUME ListParameters, ListInv, NEW op \in {"first", "more"}, NEW matching, Ask(op, matching),
         UNCHANGED <<rows, upload, confirmed>>,
         filter' \in Filters, shown' \in Listing, cursor' \in Ids \cup {NoAsset}, since' \subseteq Ids,
         op = "more" => cursor' # NoAsset,
         matching \subseteq Ids, \A id \in matching \cup since' : rows[id] \in Statuses(filter)',
         NothingSkipped', ShownIsCurrent'
  PROVE  ListInv'
<1> DEFINE asked == [NoListCall EXCEPT !.op = op, !.since = matching]
           left == [listing EXCEPT !.since = {}, !.done = {}]
<1>1. listing' = asked /\ older' = IF listing.answered THEN left ELSE older
  BY DEF Ask
<1>2. /\ asked \in Call /\ asked.op = op /\ asked.answered = FALSE
      /\ asked.since = matching /\ asked.done = {}
  <2>1. Nothing \in Listing
    BY DEF Nothing, Listing
  <2> QED
    BY <2>1 DEF NoListCall, Call
<1>3. left \in Call /\ left.op = listing.op
  <2>1. listing \in Call
    BY DEF ListInv, ListTypeOK
  <2> QED
    BY <2>1 DEF Call
<1> HIDE DEF asked, left
<1>4. older' \in Call /\ (older'.op = "none" => older' = NoListCall)
  BY <1>1, <1>3, Calls DEF ListInv, ListTypeOK
<1>5. ListTypeOK'
  BY <1>1, <1>2, <1>4 DEF ListInv, ListTypeOK
<1>6. Histories'
  <2>1. \A id \in since' \cup listing'.since : rows'[id] \in Statuses(filter)'
    BY <1>1, <1>2
  <2>2. listing'.done \subseteq confirmed'
    BY <1>1, <1>2
  <2> QED
    BY <2>1, <2>2 DEF ListInv, Histories
<1>7. Brings'
  BY <1>1, <1>2 DEF Brings
<1> QED
  BY <1>5, <1>6, <1>7 DEF ListInv

LEMMA LoadKeeps ==
  ASSUME ListParameters, ListInv, LoadAssets \/ LoadMore
  PROVE  ListInv'
<1>1. UNCHANGED <<rows, filter, shown, cursor, upload, since, confirmed>>
  BY DEF LoadAssets, LoadMore
<1>2. Ask("first", Matching(NoAsset)) \/ (cursor # NoAsset /\ Ask("more", {}))
  BY DEF LoadAssets, LoadMore
<1>3. \A id : Overtaken(id)' <=> Overtaken(id)
  BY <1>1 DEF Overtaken
<1>4. NothingSkipped' /\ ShownIsCurrent'
  BY <1>1, <1>3
     DEF ListInv, NothingSkipped, ShownIsCurrent, ShownMatchesFilter, ReadyStaysReady, Statuses, Before
<1>5. filter \in Filters /\ shown \in Listing /\ cursor \in Ids \cup {NoAsset} /\ since \subseteq Ids
  BY DEF ListInv, ListTypeOK
<1>6. \A id \in Matching(NoAsset) \cup since : rows[id] \in Statuses(filter)'
  BY <1>1 DEF Matching, ListInv, Histories, Statuses
<1>7. Matching(NoAsset) \subseteq Ids
  BY DEF Matching
<1>8. CASE Ask("first", Matching(NoAsset))
  BY <1>1, <1>4, <1>5, <1>6, <1>7, <1>8, Asked
<1>9. CASE cursor # NoAsset /\ Ask("more", {})
  BY <1>1, <1>4, <1>5, <1>6, <1>9, Asked
<1> QED
  BY <1>2, <1>8, <1>9

LEMMA SetStatusFilterKeeps ==
  ASSUME ListParameters, ListInv, NEW chosen \in Filters, SetStatusFilter(chosen)
  PROVE  ListInv'
<1> DEFINE matching == {id \in Ids : rows[id] \in Statuses(chosen)}
<1>1. /\ filter' = chosen /\ shown' = Nothing /\ cursor' = NoAsset /\ since' = {}
      /\ Ask("first", matching) /\ UNCHANGED <<rows, upload, confirmed>>
  BY DEF SetStatusFilter
<1>2. Nothing \in Listing /\ \A id \in Ids : Nothing[id] = "none"
  BY DEF Nothing, Listing
<1>3. confirmed \subseteq Ids
  BY DEF ListInv, ListTypeOK
<1>4. NothingSkipped' /\ ShownIsCurrent'
  BY <1>1, <1>2, <1>3 DEF NothingSkipped, ShownIsCurrent, ShownMatchesFilter, ReadyStaysReady
<1>5. \A id \in matching \cup since' : rows[id] \in Statuses(filter)'
  BY <1>1 DEF Statuses
<1>6. matching \subseteq Ids
  OBVIOUS
<1> HIDE DEF matching
<1> QED
  BY <1>1, <1>2, <1>4, <1>5, <1>6, Asked

\* A call that failed, or whose answer came after another call, changes nothing
\* that is shown.
LEMMA DropKeeps ==
  ASSUME ListParameters, ListInv, ListFails \/ LateAnswer
  PROVE  ListInv'
<1>1. /\ UNCHANGED <<rows, filter, shown, cursor, upload, since, confirmed>>
      /\ \/ listing' = NoListCall /\ older' = older
         \/ listing' = listing /\ older' = NoListCall
  BY DEF ListFails, LateAnswer
<1>2. /\ NoListCall \in Call /\ ~NoListCall.answered /\ NoListCall.op = "none"
      /\ NoListCall.since = {} /\ NoListCall.done = {}
  BY Calls DEF ListInv
<1>3. ListTypeOK'
  BY <1>1, <1>2 DEF ListInv, ListTypeOK
<1>4. Histories'
  BY <1>1, <1>2 DEF ListInv, Histories, Statuses
<1>5. \A id : Overtaken(id)' <=> Overtaken(id)
  BY <1>1 DEF Overtaken
<1>6. Brings'
  <2>1. CASE listing' = NoListCall
    BY <1>2, <2>1 DEF Brings
  <2>2. CASE listing' = listing
    <3>1. Owed' = Owed /\ Incoming(listing)' = Incoming(listing)
      BY <1>1, <2>2 DEF Owed, Before, Incoming, Kept, Matches, Statuses
    <3> QED
      BY <1>1, <1>5, <2>2, <3>1 DEF ListInv, Brings, Before
  <2> QED
    BY <1>1, <2>1, <2>2
<1>7. NothingSkipped' /\ ShownIsCurrent'
  BY <1>1, <1>5
     DEF ListInv, NothingSkipped, ShownIsCurrent, ShownMatchesFilter, ReadyStaysReady, Statuses, Before
<1> QED
  BY <1>3, <1>4, <1>6, <1>7 DEF ListInv

LEMMA CompleteFailsKeeps ==
  ASSUME ListParameters, ListInv, CompleteFails
  PROVE  ListInv'
<1>1. /\ upload.step = "confirmed" /\ upload' = [upload EXCEPT !.step = "created"]
      /\ UNCHANGED <<rows, filter, shown, cursor, listing, older, since, confirmed>>
  BY DEF CompleteFails
<1>2. upload \in Upload /\ rows[upload.id] # "none" /\ upload.id # NoAsset
  BY <1>1 DEF ListInv, ListTypeOK, Histories
<1>3. upload' \in Upload /\ upload'.step = "created" /\ upload'.id = upload.id
  BY <1>1, <1>2 DEF Upload
<1>4. ListTypeOK'
  BY <1>1, <1>2, <1>3 DEF ListInv, ListTypeOK
<1>5. Histories'
  BY <1>1, <1>2, <1>3 DEF ListInv, Histories, Statuses
<1>6. \A id : Overtaken(id)' <=> Overtaken(id)
  BY <1>1 DEF Overtaken
<1>7. Owed' = Owed /\ Incoming(listing)' = Incoming(listing)
  BY <1>1 DEF Owed, Before, Incoming, Kept, Matches, Statuses
<1>8. Brings'
  BY <1>1, <1>6, <1>7 DEF ListInv, Brings, Before
<1>9. NothingSkipped' /\ ShownIsCurrent'
  BY <1>1, <1>6
     DEF ListInv, NothingSkipped, ShownIsCurrent, ShownMatchesFilter, ReadyStaysReady, Statuses, Before
<1> QED
  BY <1>4, <1>5, <1>8, <1>9 DEF ListInv

\* The page is told that its upload is ready, and notes it for a page that is
\* being read.
LEMMA FinishUploadKeeps ==
  ASSUME ListParameters, ListInv, FinishUpload
  PROVE  ListInv'
<1> DEFINE told == [shown EXCEPT ![upload.id] = "ready"]
           noted == [listing EXCEPT !.done = @ \cup {upload.id}]
<1>1. /\ upload.step = "confirmed" /\ shown' = Kept(told)
      /\ listing' = IF listing = NoListCall THEN listing ELSE noted
      /\ confirmed' = confirmed \cup {upload.id} /\ upload' = NoUpload
      /\ UNCHANGED <<rows, filter, cursor, older, since>>
  BY DEF FinishUpload
<1>2. /\ ListTypeOK /\ listing \in Call /\ upload.id \in Ids
      /\ shown \in [Ids -> {"none", "pending", "ready", "deleted"}]
      /\ confirmed \subseteq Ids /\ since \subseteq Ids
  BY <1>1 DEF ListInv, ListTypeOK, Upload, Listing
<1>3. rows[upload.id] \in {"ready", "deleted"}
  BY <1>1 DEF ListInv, Histories
<1>4. /\ shown' \in Listing
      /\ \A id \in Ids : shown'[id] =
           IF (IF id = upload.id THEN "ready" ELSE shown[id]) \in Statuses(filter)
           THEN (IF id = upload.id THEN "ready" ELSE shown[id]) ELSE "none"
  <2>1. told \in [Ids -> {"none", "pending", "ready", "deleted"}]
    BY <1>2
  <2>2. \A id \in Ids : told[id] = IF id = upload.id THEN "ready" ELSE shown[id]
    BY <1>2
  <2> HIDE DEF told
  <2> QED
    BY <1>1, <2>1, <2>2 DEF Kept, Matches, Listing
<1>5. /\ noted \in Call /\ noted.done = listing.done \cup {upload.id}
      /\ noted.op = listing.op /\ noted.answered = listing.answered /\ noted.page = listing.page
      /\ noted.next = listing.next /\ noted.since = listing.since
  BY <1>2 DEF Call
<1> HIDE DEF told, noted
<1>6. /\ listing' \in Call /\ listing'.done \in {listing.done, listing.done \cup {upload.id}}
      /\ listing'.op = listing.op /\ listing'.answered = listing.answered /\ listing'.page = listing.page
      /\ listing'.next = listing.next /\ listing'.since = listing.since
      /\ listing = NoListCall => listing' = NoListCall
      /\ listing.answered => listing'.done = listing.done \cup {upload.id}
  BY <1>1, <1>2, <1>5, Calls
<1>7. NoUpload \in Upload /\ NoUpload.step = "none" /\ NoUpload.id = NoAsset
  BY DEF NoUpload, Upload
<1>8. ListTypeOK'
  BY <1>1, <1>2, <1>4, <1>6, <1>7 DEF ListTypeOK
<1>9. Histories'
  BY <1>1, <1>3, <1>6, <1>7 DEF ListInv, Histories, Statuses
<1>10. \A id : id \in Ids /\ (id = upload.id \/ Overtaken(id)) /\ rows[id] \in Statuses(filter) =>
         "ready" \in Statuses(filter) \/ Overtaken(id)'
  BY <1>1, <1>3 DEF Overtaken, Statuses
<1>11. \A id : Overtaken(id) => Overtaken(id)'
  BY <1>1 DEF Overtaken
<1>12. Owed' = Owed /\ Owed \subseteq Ids /\ \A id \in Owed : rows[id] \in Statuses(filter)
  BY <1>1, <1>2, <1>6, Calls DEF Owed, Before, ListInv, Histories
<1>13. \A id \in Ids : id # upload.id /\ listing.answered => Incoming(listing)'[id] = Incoming(listing)[id]
  BY <1>1, <1>6 DEF Incoming, Kept, Matches, Statuses
<1>14. listing.answered =>
         Incoming(listing)'[upload.id] = IF "ready" \in Statuses(filter) THEN "ready" ELSE "none"
  BY <1>1, <1>2, <1>6 DEF Incoming, Kept, Matches, Statuses
<1>15. Brings'
  <2> SUFFICES ASSUME listing.answered
               PROVE  /\ \A id \in Owed :
                           \/ Incoming(listing)'[id] # "none"
                           \/ listing.next # NoAsset /\ Before(id, listing.next)
                           \/ Overtaken(id)'
                      /\ \A id \in confirmed' \ listing'.done : listing.page[id] # "pending"
    BY <1>6, <1>12 DEF Brings, Before
  <2>1. ASSUME NEW id \in Owed
        PROVE  \/ Incoming(listing)'[id] # "none"
               \/ listing.next # NoAsset /\ Before(id, listing.next)
               \/ Overtaken(id)'
    <3>1. CASE id = upload.id
      BY <1>10, <1>12, <1>14, <2>1, <3>1
    <3>2. CASE id # upload.id
      <4>1. \/ Incoming(listing)[id] # "none"
            \/ listing.next # NoAsset /\ Before(id, listing.next)
            \/ Overtaken(id)
        BY <2>1 DEF ListInv, Brings
      <4> QED
        BY <1>11, <1>12, <1>13, <2>1, <3>2, <4>1
    <3> QED
      BY <3>1, <3>2
  <2>2. \A id \in confirmed' \ listing'.done : listing.page[id] # "pending"
    BY <1>1, <1>6 DEF ListInv, Brings
  <2> QED
    BY <2>1, <2>2
<1>16. ASSUME NEW id \in since
       PROVE  shown'[id] # "none" \/ (cursor # NoAsset /\ Before(id, cursor)) \/ Overtaken(id)'
  <2>1. id \in Ids /\ rows[id] \in Statuses(filter)
    BY <1>2, <1>16 DEF ListInv, Histories
  <2>2. CASE id = upload.id
    BY <1>4, <1>10, <2>1, <2>2
  <2>3. CASE id # upload.id
    <3>1. shown[id] # "none" \/ (cursor # NoAsset /\ Before(id, cursor)) \/ Overtaken(id)
      BY <1>16 DEF ListInv, NothingSkipped
    <3>2. shown[id] # "none" => shown'[id] = shown[id]
      BY <1>4, <2>1, <2>3 DEF ListInv, ShownIsCurrent, ShownMatchesFilter
    <3> QED
      BY <1>11, <3>1, <3>2
  <2> QED
    BY <2>2, <2>3
<1>17. NothingSkipped'
  BY <1>1, <1>16 DEF NothingSkipped, Before
<1>18. \A id \in Ids : shown'[id] \in {"none"} \cup Statuses(filter)
  BY <1>4
<1>19. \A id \in confirmed' : shown'[id] # "pending"
  BY <1>1, <1>2, <1>4 DEF ListInv, ShownIsCurrent, ReadyStaysReady
<1>20. ShownIsCurrent'
  BY <1>1, <1>18, <1>19 DEF ShownIsCurrent, ShownMatchesFilter, ReadyStaysReady, Statuses
<1> QED
  BY <1>8, <1>9, <1>15, <1>17, <1>20 DEF ListInv

LEMMA ListInitHolds == ASSUME ListParameters PROVE ListInit => ListInv
<1> SUFFICES ASSUME ListInit PROVE ListInv
  OBVIOUS
<1>1. /\ rows = Nothing /\ filter = "" /\ shown = Nothing /\ cursor = NoAsset
      /\ listing = NoListCall /\ older = NoListCall /\ upload = NoUpload /\ since = {} /\ confirmed = {}
  BY DEF ListInit
<1>2. Nothing \in Listing /\ \A id \in Ids : Nothing[id] = "none"
  BY DEF Nothing, Listing
<1>3. /\ NoListCall \in Call /\ NoListCall.answered = FALSE /\ NoListCall.op = "none"
      /\ NoListCall.since = {} /\ NoListCall.done = {}
  BY <1>2 DEF NoListCall, Call
<1>4. NoUpload \in Upload /\ NoUpload.step = "none" /\ NoUpload.id = NoAsset
  BY DEF NoUpload, Upload
<1>5. ListTypeOK
  BY <1>1, <1>2, <1>3, <1>4 DEF ListTypeOK, ListParameters
<1>6. Histories
  BY <1>1, <1>3, <1>4 DEF Histories
<1>7. Brings
  BY <1>1, <1>3 DEF Brings
<1>8. NothingSkipped /\ ShownIsCurrent
  BY <1>1, <1>2 DEF NothingSkipped, ShownIsCurrent, ShownMatchesFilter, ReadyStaysReady
<1> QED
  BY <1>5, <1>6, <1>7, <1>8 DEF ListInv

LEMMA ListStutterKeeps ==
  ASSUME ListInv, UNCHANGED listVars
  PROVE  ListInv'
<1>1. UNCHANGED <<rows, filter, shown, cursor, listing, older, upload, since, confirmed>>
  BY DEF listVars
<1>2. ListTypeOK' /\ Histories'
  BY <1>1 DEF ListInv, ListTypeOK, Histories, Statuses
<1>3. \A id : Overtaken(id)' <=> Overtaken(id)
  BY <1>1 DEF Overtaken
<1>4. Owed' = Owed /\ Incoming(listing)' = Incoming(listing)
  BY <1>1 DEF Owed, Before, Incoming, Kept, Matches, Statuses
<1>5. Brings'
  BY <1>1, <1>3, <1>4 DEF ListInv, Brings, Before
<1>6. NothingSkipped' /\ ShownIsCurrent'
  BY <1>1, <1>3
     DEF ListInv, NothingSkipped, ShownIsCurrent, ShownMatchesFilter, ReadyStaysReady, Statuses, Before
<1> QED
  BY <1>2, <1>5, <1>6 DEF ListInv

LEMMA ListInductive == ASSUME ListParameters PROVE ListSpec => []ListInv
<1>1. ListInv /\ [ListNext]_listVars => ListInv'
  BY ListHandledKeeps, OthersChangeKeeps, LoadKeeps, SetStatusFilterKeeps, ListArrivesKeeps, DropKeeps,
     CreateUploadKeeps, CompleteHandledKeeps, CompleteFailsKeeps, FinishUploadKeeps, ListStutterKeeps
     DEF ListNext
<1> QED
  BY <1>1, ListInitHolds, PTL DEF ListSpec

\* The rows, the list and the calls of the page keep their types.
THEOREM ListTypeCorrect == ASSUME ListParameters PROVE ListSpec => []ListTypeOK
<1>1. ListInv => ListTypeOK
  BY DEF ListInv
<1> QED
  BY <1>1, ListInductive, PTL

\* The order of creation time and id makes the cursor exact: for pages of any
\* length and assets of any creation times, an asset that was there all along is
\* on a page that was read or after the cursor, whatever others do between pages.
THEOREM PagingSkipsNothing == ASSUME ListParameters PROVE ListSpec => []NothingSkipped
<1>1. ListInv => NothingSkipped
  BY DEF ListInv
<1> QED
  BY <1>1, ListInductive, PTL

\* The list is of the filter, and an upload the page was told is ready is never
\* shown as pending by a page that was read before (uploadsDuringList).
THEOREM ListIsCurrent == ASSUME ListParameters PROVE ListSpec => []ShownIsCurrent
<1>1. ListInv => ShownIsCurrent
  BY DEF ListInv
<1> QED
  BY <1>1, ListInductive, PTL

----------------------------------------------------------------------------
\* Side by side.

\* What is said of the player, the desk and the list holds of each of them also
\* in a browser that has all three.
LEMMA PagesParts == PagesSpec => Spec /\ DeskSpec /\ ListSpec
<1>1. PagesInit => Init /\ DeskInit /\ ListInit
  BY DEF PagesInit
<1>2. [PagesNext]_pageVars => [Next]_vars /\ [DeskNext]_deskVars /\ [ListNext]_listVars
  BY DEF PagesNext, pageVars
<1> QED
  BY <1>1, <1>2, PTL DEF PagesSpec, Spec, DeskSpec, ListSpec

\* The player, the desk and the list keep their types.
THEOREM PagesTypeCorrect == PagesSpec => []PagesTypeOK
<1>1. TypeOK /\ DeskTypeOK /\ ListTypeOK => PagesTypeOK
  BY DEF PagesTypeOK
<1> QED
  BY <1>1, PagesAssumption, PagesParts, TypeCorrect, DeskTypeCorrect, ListTypeCorrect, PTL

\* Everything the run of the three checks, for any number of tracks, presses,
\* keys, jobs and assets.
THEOREM PagesCorrect ==
  PagesSpec => /\ [](OneSounding /\ ButtonIsTrue /\ OneKeyPerAttempt /\ EndIsSynced)
               /\ [](NothingSkipped /\ ShownIsCurrent)
               /\ ShownWasAskedFor
  BY PagesAssumption, PagesParts, OnlyShownSounds, ButtonTellsTruth, RetriedWithOneKey, EndsAreSynced,
     PagingSkipsNothing, ListIsCurrent, ShownIsAskedFor, PTL
============================================================================
