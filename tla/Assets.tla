------------------------------- MODULE Assets -------------------------------
(* The media library: uploads to an object store through signed URLs, their *)
(* completion and deletion, and the public URL frozen with each asset.      *)
(* Requests run concurrently; the calls of the object store are outside the *)
(* transactions, which lock the row they read again.  Publishing appears as *)
(* its validation of one media reference of a snapshot.                     *)
(*                                                                          *)
(* A URL is the public base it was made from: the rest of it is the key of  *)
(* the asset.  Size, type, checksum and rights of an upload are declared    *)
(* when it is signed; the store takes no other object for that URL.         *)
CONSTANTS
  AssetIds,   \* identifiers service.newID("asset_") can still hand out
  Bases,      \* public base URLs servers may be configured with
  OldBase,    \* the base that is kept while instances before 0004 run
  Requests,   \* concurrent requests to the API
  None

ASSUME AssetsAssumption == OldBase \in Bases /\ None \notin Bases \cup AssetIds

VARIABLES
  rows,       \* table assets
  objects,    \* objects of the bucket, by asset
  signed,     \* assets with a signed upload URL that has not expired
  upgrading,  \* instances that write no source_url may still run
  procs,      \* local state of the requests
  answers,    \* history: URLs a client was given for an asset
  published   \* history: media references of snapshots admitted to publishing

vars == <<rows, objects, signed, upgrading, procs, answers, published>>

\* url: source_url, None for NULL.  retain: metadata.retainBlob.
Row == [status : {"absent", "pending", "ready", "deleted"}, url : Bases \cup {None},
        retain : BOOLEAN]
Absent == [status |-> "absent", url |-> None, retain |-> FALSE]
Pending(url) == [status |-> "pending", url |-> url, retain |-> FALSE]

Proc == [pc : {"idle", "stat", "resolve", "write", "delete", "unlink"},
         op : {"none", "complete", "repair", "list", "delete", "publish"},
         id : AssetIds \cup {None}, url : Bases \cup {None}]
Idle == [pc |-> "idle", op |-> "none", id |-> None, url |-> None]
At(pc, op, id, url) == [pc |-> pc, op |-> op, id |-> id, url |-> url]

Goto(p, proc) == procs' = [procs EXCEPT ![p] = proc]

\* BlobStore.PublicURL: servers may be given another base once the upgrade is over.
PublicUrls == IF upgrading THEN {OldBase} ELSE Bases

\* Mutant of Filled: the URL is taken from the configuration each time.
FilledAgain(id, url) == url

\* The first URL that was stored wins.
Filled(id, url) == IF rows[id].url = None THEN url ELSE rows[id].url

Answer(id, url) == answers' = answers \cup {<<id, url>>}

----------------------------------------------------------------------------
\* CreateUpload: the upload is signed, then the row is inserted with its URL.
\* The client may not get the answer.
CreateUpload(id) ==
  /\ rows[id] = Absent
  /\ \E url \in PublicUrls :
       /\ rows' = [rows EXCEPT ![id] = Pending(url)]
       /\ \/ signed' = signed \cup {id} /\ Answer(id, url)
          \/ UNCHANGED <<signed, answers>>
  /\ UNCHANGED <<objects, upgrading, procs, published>>

\* An instance that does not know the column, during a rolling upgrade.
CreateWithoutUrl(id) ==
  /\ upgrading
  /\ rows[id] = Absent
  /\ rows' = [rows EXCEPT ![id] = Pending(None)]
  /\ signed' = signed \cup {id}
  /\ UNCHANGED <<objects, upgrading, procs, answers, published>>

CompleteWithoutUrl(id) ==
  /\ upgrading
  /\ rows[id].status = "pending" /\ id \in objects
  /\ rows' = [rows EXCEPT ![id].status = "ready"]
  /\ UNCHANGED <<objects, signed, upgrading, procs, answers, published>>

\* The client sends the file, possibly again, while the signed URL is valid.
Upload(id) ==
  /\ id \in signed
  /\ objects' = objects \cup {id}
  /\ UNCHANGED <<rows, signed, upgrading, procs, answers, published>>

Expire(id) ==
  /\ id \in signed
  /\ signed' = signed \ {id}
  /\ UNCHANGED <<rows, objects, upgrading, procs, answers, published>>

----------------------------------------------------------------------------
\* CompleteUpload.

\* The row is read without a lock; a ready one only lacks its URL, if anything.
StartComplete(p, id) ==
  LET row == rows[id] IN
  /\ procs[p] = Idle
  /\ \/ /\ row.status = "pending"
        /\ Goto(p, At("stat", "complete", id, row.url)) /\ UNCHANGED answers
     \/ /\ row.status = "ready" /\ row.url = None
        /\ Goto(p, At("resolve", "repair", id, None)) /\ UNCHANGED answers
     \/ /\ row.status = "ready" /\ row.url # None
        /\ Answer(id, row.url) /\ UNCHANGED procs
  /\ UNCHANGED <<rows, objects, signed, upgrading, published>>

\* Mutant of StatUpload: the object is not looked for.
StatNothing(p) ==
  LET proc == procs[p] IN
  /\ proc.pc = "stat" /\ proc.op = "complete"
  /\ Goto(p, [proc EXCEPT !.pc = IF proc.url = None THEN "resolve" ELSE "write"])
  /\ UNCHANGED <<rows, objects, signed, upgrading, answers, published>>

StatUpload(p) ==
  LET proc == procs[p] IN
  /\ proc.pc = "stat" /\ proc.op = "complete"
  /\ Goto(p, IF proc.id \in objects
             THEN [proc EXCEPT !.pc = IF proc.url = None THEN "resolve" ELSE "write"]
             ELSE Idle)
  /\ UNCHANGED <<rows, objects, signed, upgrading, answers, published>>

\* PublicURL, for a row read without one.
ResolveUrl(p) ==
  /\ procs[p].pc = "resolve"
  /\ \E url \in PublicUrls : Goto(p, [procs[p] EXCEPT !.pc = "write", !.url = url])
  /\ UNCHANGED <<rows, objects, signed, upgrading, answers, published>>

\* The transaction of CompleteUpload; a repeated completion is not an error.
FinishUpload(p) ==
  LET id == procs[p].id
      url == Filled(id, procs[p].url)
  IN
  /\ procs[p].pc = "write" /\ procs[p].op = "complete"
  /\ rows[id].status \in {"pending", "ready"}
  /\ rows' = [rows EXCEPT ![id].status = "ready", ![id].url = url]
  /\ Answer(id, url)
  /\ Goto(p, Idle)
  /\ UNCHANGED <<objects, signed, upgrading, published>>

\* persistMissingReadySourceURL.
RepairUrl(p) ==
  LET id == procs[p].id
      url == Filled(id, procs[p].url)
  IN
  /\ procs[p].pc = "write" /\ procs[p].op = "repair"
  /\ rows[id].status = "ready"
  /\ rows' = [rows EXCEPT ![id].url = url]
  /\ Answer(id, url)
  /\ Goto(p, Idle)
  /\ UNCHANGED <<objects, signed, upgrading, published>>

\* Both refuse a row that was deleted since it was read.
RefuseDeleted(p) ==
  /\ procs[p].pc = "write" /\ procs[p].op \in {"complete", "repair"}
  /\ rows[procs[p].id].status = "deleted"
  /\ Goto(p, Idle)
  /\ UNCHANGED <<rows, objects, signed, upgrading, answers, published>>

----------------------------------------------------------------------------
\* List: a listed asset, deleted ones included, is given a URL it lacks.

StartList(p, id) ==
  LET row == rows[id] IN
  /\ procs[p] = Idle
  /\ row # Absent
  /\ \/ row.url # None /\ Answer(id, row.url) /\ UNCHANGED procs
     \/ row.url = None /\ Goto(p, At("resolve", "list", id, None)) /\ UNCHANGED answers
  /\ UNCHANGED <<rows, objects, signed, upgrading, published>>

\* EnsureAssetSourceURL: one statement that keeps a stored URL and returns it.
EnsureUrl(p) ==
  LET id == procs[p].id
      url == Filled(id, procs[p].url)
  IN
  /\ procs[p].pc = "write" /\ procs[p].op = "list"
  /\ rows' = [rows EXCEPT ![id].url = url]
  /\ Answer(id, url)
  /\ Goto(p, Idle)
  /\ UNCHANGED <<objects, signed, upgrading, published>>

----------------------------------------------------------------------------
\* Delete: the row first, then the object unless it was ever ready.

StartDelete(p, id) ==
  LET row == rows[id] IN
  /\ procs[p] = Idle
  /\ \/ /\ row.status \in {"pending", "ready"}
        /\ Goto(p, At("delete", "delete", id, None))
     \/ /\ row.status = "deleted" /\ ~row.retain
        /\ Goto(p, At("unlink", "delete", id, None))
  /\ UNCHANGED <<rows, objects, signed, upgrading, answers, published>>

\* Mutant of Deleted: the object of a ready asset is not retained.
DeletedWhole(row) == [row EXCEPT !.status = "deleted"]

\* A ready asset may be in a published snapshot: its object is retained.
Deleted(row) ==
  [row EXCEPT !.status = "deleted", !.retain = @ \/ row.status = "ready"]

\* The transaction of Delete; the object is removed after it committed.
MarkDeleted(p) ==
  LET id == procs[p].id
      row == Deleted(rows[id])
  IN
  /\ procs[p].pc = "delete"
  /\ rows' = [rows EXCEPT ![id] = row]
  /\ Goto(p, IF row.retain THEN Idle ELSE [procs[p] EXCEPT !.pc = "unlink"])
  /\ UNCHANGED <<objects, signed, upgrading, answers, published>>

\* BlobStore.Delete; a missing object is as good.
DeleteObject(p) ==
  /\ procs[p].pc = "unlink"
  /\ objects' = objects \ {procs[p].id}
  /\ Goto(p, Idle)
  /\ UNCHANGED <<rows, signed, upgrading, answers, published>>

----------------------------------------------------------------------------
\* validateManagedAssets for a first publish, of a reference whose URL a client
\* was given: the row is read, later the object is looked up.

PublishableRow(row, url) ==
  /\ row.status = "ready"
  /\ row.url = url \/ (row.url = None /\ url \in PublicUrls)

StartPublish(p, id, url) ==
  /\ procs[p] = Idle
  /\ <<id, url>> \in answers
  /\ PublishableRow(rows[id], url)
  /\ Goto(p, At("stat", "publish", id, url))
  /\ UNCHANGED <<rows, objects, signed, upgrading, answers, published>>

StatReference(p) ==
  LET proc == procs[p] IN
  /\ proc.pc = "stat" /\ proc.op = "publish"
  /\ published' = IF proc.id \in objects THEN published \cup {<<proc.id, proc.url>>}
                  ELSE published
  /\ Goto(p, Idle)
  /\ UNCHANGED <<rows, objects, signed, upgrading, answers>>

----------------------------------------------------------------------------
\* An error of the database or the store, a canceled request, a restart.
Abandon(p) ==
  /\ procs[p] # Idle
  /\ Goto(p, Idle)
  /\ UNCHANGED <<rows, objects, signed, upgrading, answers, published>>

\* The old instances are gone and every row has its URL; only now may the
\* public base be changed.
EndUpgrade ==
  /\ upgrading
  /\ \A id \in AssetIds : rows[id] = Absent \/ rows[id].url # None
  /\ upgrading' = FALSE
  /\ UNCHANGED <<rows, objects, signed, procs, answers, published>>

Init ==
  /\ rows = [id \in AssetIds |-> Absent]
  /\ objects = {} /\ signed = {}
  /\ upgrading = TRUE
  /\ procs = [p \in Requests |-> Idle]
  /\ answers = {} /\ published = {}

Handle(p) ==
  \/ \E id \in AssetIds : StartComplete(p, id) \/ StartList(p, id) \/ StartDelete(p, id)
  \/ \E id \in AssetIds, url \in Bases : StartPublish(p, id, url)
  \/ StatUpload(p) \/ ResolveUrl(p) \/ FinishUpload(p) \/ RepairUrl(p) \/ RefuseDeleted(p)
  \/ EnsureUrl(p) \/ MarkDeleted(p) \/ DeleteObject(p) \/ StatReference(p) \/ Abandon(p)

Next ==
  \/ \E id \in AssetIds :
       CreateUpload(id) \/ CreateWithoutUrl(id) \/ CompleteWithoutUrl(id)
       \/ Upload(id) \/ Expire(id)
  \/ \E p \in Requests : Handle(p)
  \/ EndUpgrade

Spec == Init /\ [][Next]_vars

----------------------------------------------------------------------------
\* Every row and every request holds values of its type.
TypeOK ==
  /\ rows \in [AssetIds -> Row]
  /\ objects \subseteq AssetIds /\ signed \subseteq AssetIds
  /\ upgrading \in BOOLEAN
  /\ procs \in [Requests -> Proc]
  /\ answers \subseteq AssetIds \X Bases
  /\ published \subseteq AssetIds \X Bases

\* A ready asset has its object: completion and deletion race through calls of
\* the store, and the one that commits second sees what the first decided.
ReadyHasObject == \A id \in AssetIds : rows[id].status = "ready" => id \in objects

\* Whatever was published can be published again by a rollback: its object is
\* there and its row has the URL that the snapshot holds, although the asset
\* may have been deleted from the library since.
PublishedMediaStays ==
  \A ref \in published :
    LET row == rows[ref[1]] IN
    /\ ref[1] \in objects
    /\ row.status = "ready" \/ (row.status = "deleted" /\ row.retain)
    /\ row.url = ref[2]

\* A URL given to a client is the URL of that asset for good: no completion,
\* repair or listing by a server of another base or view replaces it.
AnsweredUrlIsFinal == \A answer \in answers : rows[answer[1]].url = answer[2]

\* A deleted asset is not revived by a late completion, and what its deletion
\* decided about the object is not decided again.
DeletionIsFinal ==
  [][\A id \in AssetIds :
       rows[id].status = "deleted" =>
         rows'[id].status = "deleted" /\ rows'[id].retain = rows[id].retain]_vars
============================================================================
