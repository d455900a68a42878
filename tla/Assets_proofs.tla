--------------------------- MODULE Assets_proofs ---------------------------
(* Proofs about Assets for every set of assets, bases and requests.         *)
EXTENDS Assets, TLAPS

\* What a published reference needs of its row.
Serves(row, url) ==
  /\ row.status = "ready" \/ (row.status = "deleted" /\ row.retain)
  /\ row.url = url

\* What a request knows while it is between two calls: its row exists, an
\* object it found is there unless the row was deleted meanwhile, an object it
\* will remove is of a row whose deletion did not retain it, and a reference it
\* is validating can be served.
Knows(proc) ==
  /\ proc.pc # "idle" => proc.id \in AssetIds /\ rows[proc.id].status # "absent"
  /\ proc.pc = "write" => proc.url \in Bases
  /\ proc.op = "complete" /\ proc.pc \in {"resolve", "write"}
       => proc.id \in objects \/ rows[proc.id].status = "deleted"
  /\ proc.pc = "unlink" => rows[proc.id].status = "deleted" /\ ~rows[proc.id].retain
  /\ proc.pc = "stat" /\ proc.op = "publish" => proc.url \in Bases /\ Serves(rows[proc.id], proc.url)

AbsentIsAbsent == \A id \in AssetIds : rows[id].status = "absent" => rows[id] = Absent

IInv ==
  /\ TypeOK /\ AbsentIsAbsent
  /\ ReadyHasObject /\ AnsweredUrlIsFinal /\ PublishedMediaStays
  /\ \A p \in Requests : Knows(procs[p])

\* A row only moves forward: it is there for good, a ready one is retained when
\* it is deleted, a deletion and a URL are final.
Forward(old, new) ==
  /\ new \in Row
  /\ new.status = "absent" => new = old
  /\ old.status # "absent" => new.status # "absent"
  /\ old.status = "ready" => new.status = "ready" \/ (new.status = "deleted" /\ new.retain)
  /\ old.status = "deleted" => new.status = "deleted" /\ (new.retain <=> old.retain)
  /\ old.url # None => new.url = old.url

\* What any step does to the table and the bucket.
Moves ==
  /\ rows' \in [AssetIds -> Row]
  /\ \A id \in AssetIds : Forward(rows[id], rows'[id])
  /\ objects' \subseteq AssetIds
  /\ \A id \in objects \ objects' : rows'[id].status = "deleted" /\ ~rows'[id].retain
  /\ \A id \in AssetIds : rows'[id].status = "ready" => rows[id].status = "ready" \/ id \in objects'

----------------------------------------------------------------------------
\* A step that moves rows and objects so keeps what other requests know ...
LEMMA KnowledgeStays ==
  ASSUME IInv, Moves, NEW proc \in Proc, Knows(proc)
  PROVE  Knows(proc)'
<1>1. CASE proc.pc = "idle"
  BY <1>1 DEF Knows
<1>2. CASE proc.pc # "idle"
  <2>1. proc.id \in AssetIds /\ Forward(rows[proc.id], rows'[proc.id])
    BY <1>2 DEF Knows, Moves
  <2>2. proc.id \in objects => proc.id \in objects' \/ rows'[proc.id].status = "deleted"
    BY <2>1 DEF Moves
  <2>3. ASSUME proc.url \in Bases, Serves(rows[proc.id], proc.url)
        PROVE  Serves(rows'[proc.id], proc.url)
    BY <2>1, <2>3, AssetsAssumption DEF Serves, Forward
  <2> QED BY <2>1, <2>2, <2>3 DEF Knows, Forward
<1> QED BY <1>1, <1>2

\* ... and keeps the promises about rows, objects and given URLs.
LEMMA PromisesStay ==
  ASSUME IInv, Moves
  PROVE  /\ AbsentIsAbsent' /\ ReadyHasObject'
         /\ \A answer \in answers : rows'[answer[1]].url = answer[2]
         /\ \A ref \in published : ref[1] \in objects' /\ Serves(rows'[ref[1]], ref[2])
<1>1. /\ rows \in [AssetIds -> Row] /\ answers \subseteq AssetIds \X Bases
      /\ published \subseteq AssetIds \X Bases
  BY DEF IInv, TypeOK
<1>2. AbsentIsAbsent'
  BY DEF IInv, Moves, AbsentIsAbsent, Forward
<1>3. ReadyHasObject'
  BY DEF IInv, Moves, ReadyHasObject
<1>4. ASSUME NEW answer \in answers PROVE rows'[answer[1]].url = answer[2]
  BY <1>1, <1>4, AssetsAssumption DEF IInv, AnsweredUrlIsFinal, Moves, Forward
<1>5. ASSUME NEW ref \in published PROVE ref[1] \in objects' /\ Serves(rows'[ref[1]], ref[2])
  <2>1. /\ ref[1] \in AssetIds /\ ref[2] \in Bases /\ ref[1] \in objects
        /\ Serves(rows[ref[1]], ref[2])
    BY <1>1, <1>5 DEF IInv, PublishedMediaStays, Serves
  <2>2. Serves(rows'[ref[1]], ref[2])
    BY <2>1, AssetsAssumption DEF Moves, Forward, Serves
  <2> QED BY <2>1, <2>2 DEF Moves, Serves
<1> QED BY <1>2, <1>3, <1>4, <1>5

\* A step keeps the invariant if it moves rows and objects so, if the request
\* that takes it knows what it takes along, and if what it answers or publishes
\* is what the row holds.
LEMMA StepKeeps ==
  ASSUME IInv, Moves,
         signed' \subseteq AssetIds, upgrading' \in BOOLEAN,
         \/ UNCHANGED procs
         \/ \E p \in Requests : \E proc \in Proc : Goto(p, proc) /\ Knows(proc)',
         \/ UNCHANGED answers
         \/ \E id \in AssetIds, url \in Bases : Answer(id, url) /\ rows'[id].url = url,
         \/ UNCHANGED published
         \/ \E id \in objects', url \in Bases :
              published' = published \cup {<<id, url>>} /\ Serves(rows'[id], url)
  PROVE  IInv'
<1>1. /\ procs \in [Requests -> Proc] /\ answers \subseteq AssetIds \X Bases
      /\ published \subseteq AssetIds \X Bases /\ objects' \subseteq AssetIds
  BY DEF IInv, TypeOK, Moves
<1>2. procs' \in [Requests -> Proc] /\ \A p \in Requests : Knows(procs[p])'
  <2>1. ASSUME NEW p \in Requests, procs'[p] = procs[p]
        PROVE  Knows(procs[p])'
    <3>1. PICK proc \in Proc : proc = procs[p]
      BY <1>1
    <3>2. Knows(proc)'
      BY <3>1, KnowledgeStays DEF IInv
    <3> QED BY <2>1, <3>1, <3>2 DEF Knows
  <2>2. CASE UNCHANGED procs
    BY <1>1, <2>1, <2>2
  <2>3. ASSUME NEW p \in Requests, NEW proc \in Proc, Goto(p, proc), Knows(proc)'
        PROVE  procs' \in [Requests -> Proc] /\ \A q \in Requests : Knows(procs[q])'
    <3>1. procs'[p] = proc /\ procs' \in [Requests -> Proc]
      BY <1>1, <2>3 DEF Goto
    <3>2. \A q \in Requests \ {p} : procs'[q] = procs[q]
      BY <1>1, <2>3 DEF Goto
    <3>3. Knows(procs[p])'
      BY <2>3, <3>1 DEF Knows
    <3> QED BY <2>1, <3>1, <3>2, <3>3
  <2> QED BY <2>2, <2>3
<1>3. answers' \subseteq AssetIds \X Bases /\ AnsweredUrlIsFinal'
  BY <1>1, PromisesStay DEF Answer, AnsweredUrlIsFinal
<1>4. published' \subseteq AssetIds \X Bases /\ PublishedMediaStays'
  <2>1. \A ref \in published' : ref[1] \in objects' /\ Serves(rows'[ref[1]], ref[2])
    BY <1>1, PromisesStay
  <2>2. published' \subseteq AssetIds \X Bases
    BY <1>1
  <2> QED BY <2>1, <2>2 DEF Serves, PublishedMediaStays
<1> QED BY <1>2, <1>3, <1>4, PromisesStay DEF IInv, TypeOK, Moves

----------------------------------------------------------------------------
LEMMA NothingMoves ==
  ASSUME IInv, UNCHANGED <<rows, objects>>
  PROVE  Moves
BY DEF IInv, TypeOK, Moves, Forward

\* One row moves, and no object.
LEMMA RowMoves ==
  ASSUME IInv, NEW id \in AssetIds, NEW row, rows' = [rows EXCEPT ![id] = row], Forward(rows[id], row),
         row.status = "ready" => rows[id].status = "ready" \/ id \in objects, UNCHANGED objects
  PROVE  Moves /\ rows'[id] = row
<1>1. rows \in [AssetIds -> Row] /\ row \in Row /\ objects \subseteq AssetIds
  BY DEF IInv, TypeOK, Forward
<1>2. rows'[id] = row /\ \A other \in AssetIds \ {id} : rows'[other] = rows[other]
  BY <1>1
<1>3. \A other \in AssetIds : Forward(rows[other], rows'[other])
  BY <1>1, <1>2 DEF Forward
<1> QED BY <1>1, <1>2, <1>3 DEF Moves

LEMMA IdleProc == Idle \in Proc /\ Knows(Idle)'
BY DEF Idle, Proc, Knows

\* The row that a completion, a repair or a listing writes.
LEMMA FilledRow ==
  ASSUME IInv, NEW id \in AssetIds, rows[id].status # "absent", NEW url \in Bases
  PROVE  /\ Filled(id, url) \in Bases
         /\ Forward(rows[id], [rows[id] EXCEPT !.url = Filled(id, url)])
         /\ rows[id].status \in {"pending", "ready"}
              => Forward(rows[id], [rows[id] EXCEPT !.status = "ready", !.url = Filled(id, url)])
<1>1. rows[id] \in Row
  BY DEF IInv, TypeOK
<1>2. Filled(id, url) \in Bases /\ (rows[id].url # None => Filled(id, url) = rows[id].url)
  BY <1>1 DEF Filled, Row
<1> QED BY <1>1, <1>2 DEF Forward, Row

----------------------------------------------------------------------------
\* The uploads, by this server and by one that does not know source_url.
LEMMA UploadSteps ==
  ASSUME IInv, NEW id \in AssetIds,
         CreateUpload(id) \/ CreateWithoutUrl(id) \/ CompleteWithoutUrl(id) \/ Upload(id) \/ Expire(id)
  PROVE  Moves /\ IInv'
<1>1. /\ rows[id] \in Row /\ rows \in [AssetIds -> Row] /\ OldBase \in Bases /\ None \notin Bases
      /\ signed \subseteq AssetIds /\ objects \subseteq AssetIds /\ upgrading \in BOOLEAN
  BY AssetsAssumption DEF IInv, TypeOK
<1>2. CASE CreateUpload(id)
  <2>1. PICK url \in PublicUrls :
          /\ rows' = [rows EXCEPT ![id] = Pending(url)]
          /\ \/ signed' = signed \cup {id} /\ Answer(id, url)
             \/ UNCHANGED <<signed, answers>>
    BY <1>2 DEF CreateUpload
  <2>2. url \in Bases
    BY <1>1, <2>1 DEF PublicUrls
  <2>3. Forward(rows[id], Pending(url))
    BY <1>2, <2>2 DEF CreateUpload, Forward, Pending, Absent, Row
  <2>4. Pending(url).status # "ready" /\ Pending(url).url = url
    BY DEF Pending
  <2>5. Moves /\ rows'[id] = Pending(url)
    BY <1>2, <2>1, <2>3, <2>4, RowMoves DEF CreateUpload
  <2>6. UNCHANGED answers \/ (Answer(id, url) /\ rows'[id].url = url)
    BY <2>1, <2>4, <2>5
  <2> QED BY <1>1, <1>2, <2>1, <2>2, <2>5, <2>6, StepKeeps DEF CreateUpload
<1>3. CASE CreateWithoutUrl(id)
  <2>1. Forward(rows[id], Pending(None)) /\ Pending(None).status # "ready"
    BY <1>3 DEF CreateWithoutUrl, Forward, Pending, Absent, Row
  <2>2. Moves
    BY <1>3, <2>1, RowMoves DEF CreateWithoutUrl
  <2> QED BY <1>1, <1>3, <2>2, StepKeeps DEF CreateWithoutUrl
<1>4. CASE CompleteWithoutUrl(id)
  <2>1. Forward(rows[id], [rows[id] EXCEPT !.status = "ready"])
    BY <1>1, <1>4 DEF CompleteWithoutUrl, Forward, Row
  <2>2. Moves
    BY <1>1, <1>4, <2>1, RowMoves DEF CompleteWithoutUrl
  <2> QED BY <1>1, <1>4, <2>2, StepKeeps DEF CompleteWithoutUrl
<1>5. CASE Upload(id)
  <2>1. Moves
    BY <1>1, <1>5 DEF Upload, Moves, Forward
  <2> QED BY <1>1, <1>5, <2>1, StepKeeps DEF Upload
<1>6. CASE Expire(id)
  <2>1. Moves
    BY <1>6, NothingMoves DEF Expire
  <2> QED BY <1>1, <1>6, <2>1, StepKeeps DEF Expire
<1> QED BY <1>2, <1>3, <1>4, <1>5, <1>6

\* What a request takes along from reading a row.
LEMMA ReadingSteps ==
  ASSUME IInv, NEW p \in Requests, NEW id \in AssetIds,
         \/ StartComplete(p, id) \/ StartList(p, id) \/ StartDelete(p, id)
         \/ \E url \in Bases : StartPublish(p, id, url)
  PROVE  Moves /\ IInv'
<1>1. /\ rows[id] \in Row /\ signed \subseteq AssetIds /\ upgrading \in BOOLEAN /\ None \notin Bases
      /\ answers \subseteq AssetIds \X Bases
  BY AssetsAssumption DEF IInv, TypeOK
<1>2. UNCHANGED <<rows, objects, signed, upgrading, published>>
  BY DEF StartComplete, StartList, StartDelete, StartPublish
<1>3. Moves
  BY <1>2, NothingMoves
<1>4. ASSUME NEW url \in Bases, Answer(id, url), rows[id].url = url, UNCHANGED procs
      PROVE  IInv'
  BY <1>1, <1>2, <1>3, <1>4, StepKeeps
<1>5. ASSUME NEW proc \in Proc, Goto(p, proc), Knows(proc)', UNCHANGED answers
      PROVE  IInv'
  BY <1>1, <1>2, <1>3, <1>5, StepKeeps
<1>6. ASSUME NEW pc \in {"stat", "resolve", "delete", "unlink"},
             NEW op \in {"complete", "repair", "list", "delete"}, NEW url \in Bases \cup {None},
             op = "complete" => pc = "stat", rows[id].status # "absent",
             pc = "unlink" => rows[id].status = "deleted" /\ ~rows[id].retain
      PROVE  At(pc, op, id, url) \in Proc /\ Knows(At(pc, op, id, url))'
  BY <1>2, <1>6 DEF At, Proc, Knows
<1>7. CASE StartComplete(p, id)
  <2>1. rows[id].url \in Bases \cup {None} /\ rows[id].status # "absent"
    BY <1>1, <1>7 DEF Row, StartComplete
  <2>2. CASE Goto(p, At("stat", "complete", id, rows[id].url)) /\ UNCHANGED answers
    BY <1>3, <1>5, <1>6, <2>1, <2>2
  <2>3. CASE Goto(p, At("resolve", "repair", id, None)) /\ UNCHANGED answers
    BY <1>3, <1>5, <1>6, <2>1, <2>3
  <2>4. CASE rows[id].url # None /\ Answer(id, rows[id].url) /\ UNCHANGED procs
    BY <1>3, <1>4, <2>1, <2>4
  <2> QED BY <1>3, <1>7, <2>2, <2>3, <2>4 DEF StartComplete
<1>8. CASE StartList(p, id)
  <2>1. rows[id].url \in Bases \cup {None} /\ rows[id].status # "absent"
    BY <1>1, <1>8 DEF Row, StartList, IInv, AbsentIsAbsent
  <2>2. CASE Goto(p, At("resolve", "list", id, None)) /\ UNCHANGED answers
    BY <1>3, <1>5, <1>6, <2>1, <2>2
  <2>3. CASE rows[id].url # None /\ Answer(id, rows[id].url) /\ UNCHANGED procs
    BY <1>3, <1>4, <2>1, <2>3
  <2> QED BY <1>3, <1>8, <2>2, <2>3 DEF StartList
<1>9. CASE StartDelete(p, id)
  <2>1. CASE rows[id].status \in {"pending", "ready"} /\ Goto(p, At("delete", "delete", id, None))
    BY <1>3, <1>5, <1>6, <1>9, <2>1 DEF StartDelete
  <2>2. CASE /\ rows[id].status = "deleted" /\ ~rows[id].retain
             /\ Goto(p, At("unlink", "delete", id, None))
    BY <1>3, <1>5, <1>6, <1>9, <2>2 DEF StartDelete
  <2> QED BY <1>3, <1>9, <2>1, <2>2 DEF StartDelete
<1>10. ASSUME NEW url \in Bases, StartPublish(p, id, url) PROVE IInv'
  <2>1. rows[id].status = "ready" /\ rows[id].url = url
    BY <1>10 DEF StartPublish, PublishableRow, IInv, AnsweredUrlIsFinal
  <2>2. At("stat", "publish", id, url) \in Proc /\ Knows(At("stat", "publish", id, url))'
    BY <1>2, <2>1 DEF At, Proc, Knows, Serves
  <2> QED BY <1>5, <1>10, <2>2 DEF StartPublish
<1> QED BY <1>3, <1>7, <1>8, <1>9, <1>10
\* The steps of a request between its reads and its transaction.
LEMMA WaitingSteps ==
  ASSUME IInv, NEW p \in Requests,
         StatUpload(p) \/ ResolveUrl(p) \/ RefuseDeleted(p) \/ StatReference(p) \/ Abandon(p)
  PROVE  Moves /\ IInv'
<1> DEFINE proc == procs[p]
<1>1. /\ proc \in Proc /\ Knows(proc) /\ signed \subseteq AssetIds /\ upgrading \in BOOLEAN
      /\ None \notin Bases /\ OldBase \in Bases
  BY AssetsAssumption DEF IInv, TypeOK
<1>2. UNCHANGED <<rows, objects, signed, upgrading, answers>>
  BY DEF StatUpload, ResolveUrl, RefuseDeleted, StatReference, Abandon
<1>3. Moves
  BY <1>2, NothingMoves
<1>4. CASE Goto(p, Idle) /\ UNCHANGED published
  BY <1>1, <1>2, <1>3, <1>4, IdleProc, StepKeeps
<1>5. ASSUME NEW new \in Proc, Goto(p, new), Knows(new)', UNCHANGED published
      PROVE  IInv'
  BY <1>1, <1>2, <1>3, <1>5, StepKeeps
<1>6. CASE StatUpload(p) /\ proc.id \in objects
  <2>1. proc.id \in AssetIds /\ rows[proc.id].status # "absent" /\ proc.op = "complete"
    BY <1>1, <1>6 DEF StatUpload, Knows
  <2>2. PICK new \in Proc :
          /\ new = [proc EXCEPT !.pc = IF proc.url = None THEN "resolve" ELSE "write"]
          /\ new.id = proc.id /\ new.op = "complete" /\ new.url = proc.url
          /\ new.pc = (IF proc.url = None THEN "resolve" ELSE "write")
    <3> DEFINE moved == [proc EXCEPT !.pc = IF proc.url = None THEN "resolve" ELSE "write"]
    <3>1. /\ moved \in Proc /\ moved.id = proc.id /\ moved.op = "complete" /\ moved.url = proc.url
          /\ moved.pc = (IF proc.url = None THEN "resolve" ELSE "write")
      BY <1>1, <2>1 DEF Proc
    <3> QED BY <3>1
  <2>3. Goto(p, new) /\ UNCHANGED published
    BY <1>6, <2>2 DEF StatUpload
  <2>4. proc.url # None => proc.url \in Bases
    BY <1>1 DEF Proc
  <2>5. Knows(new)'
    BY <1>2, <1>6, <2>1, <2>2, <2>4 DEF Knows
  <2> QED BY <1>3, <1>5, <2>2, <2>3, <2>5
<1>7. CASE StatUpload(p) /\ proc.id \notin objects
  BY <1>3, <1>4, <1>7 DEF StatUpload
<1>8. CASE ResolveUrl(p)
  <2>1. PICK url \in PublicUrls : Goto(p, [proc EXCEPT !.pc = "write", !.url = url])
    BY <1>8 DEF ResolveUrl
  <2>2. url \in Bases
    BY <1>1, <2>1 DEF PublicUrls
  <2>3. PICK new \in Proc :
          /\ new = [proc EXCEPT !.pc = "write", !.url = url]
          /\ new.id = proc.id /\ new.op = proc.op /\ new.url = url /\ new.pc = "write"
    <3> DEFINE moved == [proc EXCEPT !.pc = "write", !.url = url]
    <3>1. /\ moved \in Proc /\ moved.id = proc.id /\ moved.op = proc.op /\ moved.url = url
          /\ moved.pc = "write"
      BY <1>1, <2>2 DEF Proc
    <3> QED BY <3>1
  <2>4. Goto(p, new) /\ UNCHANGED published
    BY <1>8, <2>1, <2>3 DEF ResolveUrl
  <2>5. Knows(new)'
    BY <1>1, <1>2, <1>8, <2>2, <2>3 DEF Knows, ResolveUrl
  <2> QED BY <1>3, <1>5, <2>3, <2>4, <2>5
<1>9. CASE StatReference(p)
  <2>1. /\ proc.pc = "stat" /\ proc.op = "publish" /\ Goto(p, Idle)
        /\ published' = IF proc.id \in objects THEN published \cup {<<proc.id, proc.url>>}
                        ELSE published
    BY <1>9 DEF StatReference
  <2>2. proc.id \in AssetIds /\ proc.url \in Bases /\ Serves(rows[proc.id], proc.url)
    BY <1>1, <2>1 DEF Knows
  <2>3. CASE proc.id \notin objects
    BY <1>3, <1>4, <2>1, <2>3
  <2>4. CASE proc.id \in objects
    <3>1. /\ proc.id \in objects' /\ published' = published \cup {<<proc.id, proc.url>>}
          /\ Serves(rows'[proc.id], proc.url)
      BY <1>2, <2>1, <2>2, <2>4
    <3> HIDE DEF proc
    <3> QED BY <1>1, <1>2, <1>3, <2>1, <2>2, <3>1, IdleProc, StepKeeps
  <2> QED BY <2>3, <2>4
<1>10. CASE RefuseDeleted(p) \/ Abandon(p)
  BY <1>3, <1>4, <1>10 DEF RefuseDeleted, Abandon
<1> QED BY <1>6, <1>7, <1>8, <1>9, <1>10

\* The steps of a request that write a row, or remove its object.
LEMMA WritingSteps ==
  ASSUME IInv, NEW p \in Requests,
         FinishUpload(p) \/ RepairUrl(p) \/ EnsureUrl(p) \/ MarkDeleted(p) \/ DeleteObject(p)
  PROVE  Moves /\ IInv'
<1> DEFINE proc == procs[p]
           id == procs[p].id
<1>1. /\ proc \in Proc /\ Knows(proc) /\ signed \subseteq AssetIds /\ upgrading \in BOOLEAN
      /\ proc.pc # "idle" /\ rows \in [AssetIds -> Row] /\ objects \subseteq AssetIds
  BY DEF IInv, TypeOK, FinishUpload, RepairUrl, EnsureUrl, MarkDeleted, DeleteObject
<1>2. id \in AssetIds /\ rows[id] \in Row /\ rows[id].status # "absent"
  BY <1>1 DEF Knows
<1>3. UNCHANGED <<signed, upgrading, published>>
  BY DEF FinishUpload, RepairUrl, EnsureUrl, MarkDeleted, DeleteObject
<1>4. ASSUME Moves, Goto(p, Idle), NEW url \in Bases, Answer(id, url), rows'[id].url = url PROVE IInv'
  BY <1>1, <1>2, <1>3, <1>4, IdleProc, StepKeeps
<1>5. CASE FinishUpload(p)
  <2> DEFINE url == Filled(id, proc.url)
             row == [rows[id] EXCEPT !.status = "ready", !.url = url]
  <2>1. /\ proc.pc = "write" /\ proc.op = "complete" /\ rows[id].status \in {"pending", "ready"}
        /\ rows' = [rows EXCEPT ![id].status = "ready", ![id].url = url]
        /\ Answer(id, url) /\ Goto(p, Idle) /\ UNCHANGED objects
    BY <1>5 DEF FinishUpload
  <2>2. id \in objects /\ proc.url \in Bases
    BY <1>1, <2>1 DEF Knows
  <2>3. Forward(rows[id], row) /\ url \in Bases /\ row.url = url /\ row.status = "ready"
    BY <1>2, <2>1, <2>2, FilledRow DEF Row
  <2>4. rows' = [rows EXCEPT ![id] = row]
    BY <1>1, <1>2, <2>1
  <2> HIDE DEF row, url
  <2>5. Moves /\ rows'[id] = row
    BY <1>2, <2>1, <2>2, <2>3, <2>4, RowMoves
  <2> QED BY <1>4, <2>1, <2>3, <2>5
<1>6. CASE RepairUrl(p) \/ EnsureUrl(p)
  <2> DEFINE url == Filled(id, proc.url)
             row == [rows[id] EXCEPT !.url = url]
  <2>1. /\ proc.pc = "write" /\ rows' = [rows EXCEPT ![id].url = url]
        /\ Answer(id, url) /\ Goto(p, Idle) /\ UNCHANGED objects
    BY <1>6 DEF RepairUrl, EnsureUrl
  <2>2. proc.url \in Bases
    BY <1>1, <2>1 DEF Knows
  <2>3. Forward(rows[id], row) /\ url \in Bases /\ row.url = url /\ row.status = rows[id].status
    BY <1>2, <2>2, FilledRow DEF Row
  <2>4. rows' = [rows EXCEPT ![id] = row]
    BY <1>1, <1>2, <2>1
  <2> HIDE DEF row, url
  <2>5. Moves /\ rows'[id] = row
    BY <1>2, <2>1, <2>3, <2>4, RowMoves
  <2> QED BY <1>4, <2>1, <2>3, <2>5
<1>7. CASE MarkDeleted(p)
  <2> DEFINE row == Deleted(rows[id])
             next == IF row.retain THEN Idle ELSE [proc EXCEPT !.pc = "unlink"]
  <2>1. /\ rows' = [rows EXCEPT ![id] = row] /\ Goto(p, next)
        /\ UNCHANGED <<objects, answers>> /\ proc.pc = "delete"
    BY <1>7 DEF MarkDeleted
  <2>2. Forward(rows[id], row) /\ row.status = "deleted" /\ row.retain \in BOOLEAN
    BY <1>2 DEF Deleted, Forward, Row
  <2> HIDE DEF row
  <2>3. Moves /\ rows'[id] = row
    BY <1>2, <2>1, <2>2, RowMoves
  <2>4. \E new \in Proc : new = next /\ Knows(new)'
    <3>1. CASE row.retain
      BY <3>1, IdleProc
    <3>2. CASE ~row.retain
      <4>1. PICK new \in Proc : new = next /\ new.pc = "unlink" /\ new.id = id
        <5>1. next = [proc EXCEPT !.pc = "unlink"]
          BY <3>2
        <5>2. next \in Proc /\ next.pc = "unlink" /\ next.id = id
          BY <1>1, <5>1 DEF Proc
        <5> QED BY <5>2
      <4> QED BY <1>2, <2>2, <2>3, <3>2, <4>1 DEF Knows
    <3> QED BY <3>1, <3>2
  <2> HIDE DEF next
  <2> QED BY <1>1, <1>3, <2>1, <2>3, <2>4, StepKeeps
<1>8. CASE DeleteObject(p)
  <2>1. /\ proc.pc = "unlink" /\ objects' = objects \ {id} /\ Goto(p, Idle)
        /\ UNCHANGED <<rows, answers>>
    BY <1>8 DEF DeleteObject
  <2>2. rows[id].status = "deleted" /\ ~rows[id].retain
    BY <1>1, <2>1 DEF Knows
  <2>3. Moves
    BY <1>1, <2>1, <2>2 DEF Moves, Forward
  <2> QED BY <1>1, <1>3, <2>1, <2>3, IdleProc, StepKeeps
<1> QED BY <1>5, <1>6, <1>7, <1>8

LEMMA InitIInv == Init => IInv
BY DEF Init, IInv, TypeOK, AbsentIsAbsent, ReadyHasObject, AnsweredUrlIsFinal, PublishedMediaStays,
       Knows, Absent, Row, Idle, Proc

LEMMA NextIInv == IInv /\ [Next]_vars => Moves /\ IInv'
<1> SUFFICES ASSUME IInv, [Next]_vars PROVE Moves /\ IInv'
  OBVIOUS
<1>1. CASE EndUpgrade
  <2>1. Moves
    BY <1>1, NothingMoves DEF EndUpgrade
  <2> QED BY <1>1, <2>1, StepKeeps DEF EndUpgrade, IInv, TypeOK
<1>2. CASE UNCHANGED vars
  <2>1. Moves
    BY <1>2, NothingMoves DEF vars
  <2> QED BY <1>2, <2>1, StepKeeps DEF vars, IInv, TypeOK
<1> QED BY <1>1, <1>2, UploadSteps, ReadingSteps, WaitingSteps, WritingSteps DEF Next, Handle

LEMMA InvariantHolds == Spec => []IInv
<1>1. IInv /\ [Next]_vars => IInv'
  BY NextIInv
<1> QED BY <1>1, InitIInv, PTL DEF Spec

----------------------------------------------------------------------------
\* Rows, objects, requests and histories keep their types.
THEOREM TypeCorrect == Spec => []TypeOK
<1>1. IInv => TypeOK
  BY DEF IInv
<1> QED BY <1>1, InvariantHolds, PTL

\* However completions and deletions of an asset meet, a ready one has its object.
THEOREM ReadyIsStored == Spec => []ReadyHasObject
<1>1. IInv => ReadyHasObject
  BY DEF IInv
<1> QED BY <1>1, InvariantHolds, PTL

\* Media of a published snapshot stay, under the URL the snapshot holds.
THEOREM PublishedMediaIsKept == Spec => []PublishedMediaStays
<1>1. IInv => PublishedMediaStays
  BY DEF IInv
<1> QED BY <1>1, InvariantHolds, PTL

\* A URL given to a client once is the URL of the asset for good.
THEOREM UrlIsFrozen == Spec => []AnsweredUrlIsFinal
<1>1. IInv => AnsweredUrlIsFinal
  BY DEF IInv
<1> QED BY <1>1, InvariantHolds, PTL

\* No late completion revives a deleted asset or changes what its deletion kept.
THEOREM DeletedForGood == Spec => DeletionIsFinal
<1>1. IInv /\ [Next]_vars => [\A id \in AssetIds :
       rows[id].status = "deleted" =>
         rows'[id].status = "deleted" /\ rows'[id].retain = rows[id].retain]_vars
  <2>1. ASSUME Moves, IInv, NEW id \in AssetIds, rows[id].status = "deleted"
        PROVE  rows'[id].status = "deleted" /\ rows'[id].retain = rows[id].retain
    <3>1. /\ rows'[id].status = "deleted" /\ (rows'[id].retain <=> rows[id].retain)
          /\ rows[id].retain \in BOOLEAN /\ rows'[id].retain \in BOOLEAN
      BY <2>1 DEF Moves, Forward, Row, IInv, TypeOK
    <3> QED BY <3>1
  <2> QED BY <2>1, NextIInv
<1> QED BY <1>1, InvariantHolds, PTL DEF Spec, DeletionIsFinal
============================================================================
