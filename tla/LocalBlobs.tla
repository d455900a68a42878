----------------------------- MODULE LocalBlobs -----------------------------
(***************************************************************************)
(* The development blob store (internal/providers/local/blob.go): objects  *)
(* kept as files of one temporary directory, written by reserved PUT       *)
(* uploads, read by /media/ requests, deleted by the asset library, and    *)
(* removed with the directory when the process closes the store.           *)
(*                                                                         *)
(* One step per section the code runs under store.mu or between two calls  *)
(* of the file system; pc says where the handler of a request stands.  A   *)
(* key is reserved once (the asset service draws a fresh key for every     *)
(* upload), so all uploads of a key declare the same size and checksum.    *)
(***************************************************************************)
CONSTANTS Procs,  \* the goroutines that serve requests, one request at a time
          Keys,   \* object keys
          Stored  \* the owner of a file that an object names

ASSUME LocalBlobsAssumption == Keys # {} /\ Stored \notin Procs

VARIABLES
  reservations, \* store.reservations: "unused" keys were never reserved
  objects,      \* the keys of store.objects
  files,        \* the files of the temporary directory
  root,         \* rootOnce, rootPath and rootErr
  closed,       \* store.closed
  pc,           \* the next step of each request
  key,          \* the key it names; SomeKey between requests
  gone,         \* the requests whose connection the server has closed
  fate          \* what clients were told of a key: "none", "answered" (an upload
                \* succeeded) or "retired" (and then a deletion, with no upload left)

blobVars == <<reservations, objects, files, root, closed, pc, key, gone, fate>>

Requests == {"reserve", "put", "get", "delete"}
\* Steps between beginOperation and finish: store.active counts them.
Counted == {"lookup", "root", "create", "write", "publish", "open", "serve", "remove"}
Steps == {"idle", "begin", "settle", "api"} \cup Requests \cup Counted
Files == {f \in [key : Keys, owner : Procs \cup {Stored}, whole : BOOLEAN] : f.owner = Stored => f.whole}

Active == {p \in Procs : pc[p] \in Counted}
FilesOf(p) == {f \in files : f.owner = p}
FileOf(k) == {f \in files : f.owner = Stored /\ f.key = k}

SomeKey == CHOOSE k \in Keys : TRUE

BlobInit ==
  /\ reservations = [k \in Keys |-> "unused"]
  /\ objects = {} /\ files = {}
  /\ root = "none" /\ closed = FALSE
  /\ pc = [p \in Procs |-> "idle"]
  /\ key = [p \in Procs |-> SomeKey]
  /\ gone = {} /\ fate = [k \in Keys |-> "none"]

Goes(p, step) == pc' = [pc EXCEPT ![p] = step]
At(p, step) == pc[p] = step
Goto(p, step) == Goes(p, step) /\ UNCHANGED <<key, gone>>
Ends(p) == Goes(p, "idle") /\ gone' = gone \ {p} /\ key' = [key EXCEPT ![p] = SomeKey]
SameStore == UNCHANGED <<reservations, objects, files, root, closed, fate>>

Uploading == {"begin", "lookup", "root", "create", "write", "publish", "settle"}

(***************************************************************************)
(* Reservations.                                                           *)
(***************************************************************************)
CreateUpload(p) ==
  /\ At(p, "reserve")
  /\ IF closed \/ reservations[key[p]] # "unused"
     THEN UNCHANGED reservations
     ELSE reservations' = [k \in Keys |->
            IF k = key[p] THEN "open"
            ELSE IF reservations[k] = "expired" THEN "none" ELSE reservations[k]]
  /\ Ends(p) /\ UNCHANGED <<objects, files, root, closed, fate>>

\* The reservation's lifetime ends.
Expire(k) ==
  /\ reservations[k] = "open"
  /\ reservations' = [reservations EXCEPT ![k] = "expired"]
  /\ UNCHANGED <<objects, files, root, closed, pc, key, gone, fate>>

\* A PUT with an open reservation that fits its declaration goes on ...
AcceptPut(p) ==
  /\ At(p, "put") /\ reservations[key[p]] = "open"
  /\ Goto(p, "begin") /\ SameStore

\* ... any other is refused; an expired reservation is dropped on the way.
RefusePut(p) ==
  /\ At(p, "put") /\ Ends(p)
  /\ reservations' = IF reservations[key[p]] = "expired"
                     THEN [reservations EXCEPT ![key[p]] = "none"] ELSE reservations
  /\ UNCHANGED <<objects, files, root, closed, fate>>

(***************************************************************************)
(* put and writeTemporaryObject.                                           *)
(***************************************************************************)
BeginOperation(p, step) ==
  /\ IF closed THEN Ends(p) ELSE Goto(p, step)
  /\ SameStore

BeginPut(p) == At(p, "begin") /\ BeginOperation(p, "lookup")

\* An object that is there already makes a retry succeed without a write.
LookUp(p) ==
  /\ At(p, "lookup")
  /\ Goto(p, IF key[p] \in objects THEN "settle" ELSE "root")
  /\ SameStore

\* The directory is made by the first upload, once; a failure is kept.
LocalRoot(p) ==
  /\ At(p, "root")
  /\ IF closed THEN Ends(p) /\ UNCHANGED root
     ELSE /\ Goto(p, "create")
          /\ IF root = "none" THEN root' \in {"made", "failed"} ELSE UNCHANGED root
  /\ UNCHANGED <<reservations, objects, files, closed, fate>>

CreateTemp(p) ==
  /\ At(p, "create")
  /\ \/ /\ ~closed /\ root = "made"
        /\ files' = files \cup {[key |-> key[p], owner |-> p, whole |-> FALSE]}
        /\ Goto(p, "write")
     \/ Ends(p) /\ UNCHANGED files
  /\ UNCHANGED <<reservations, objects, root, closed, fate>>

\* The payload arrived in full, with the declared size and checksum.
WriteEnds(p) ==
  /\ At(p, "write") /\ Goto(p, "publish")
  /\ files' = (files \ FilesOf(p)) \cup {[f EXCEPT !.whole = TRUE] : f \in FilesOf(p)}
  /\ UNCHANGED <<reservations, objects, root, closed, fate>>

\* Too long, too short, a wrong checksum, a broken connection, a full disk.
WriteFails(p) ==
  /\ At(p, "write") /\ Ends(p)
  /\ files' = files \ FilesOf(p)
  /\ UNCHANGED <<reservations, objects, root, closed, fate>>

\* Mutant of PublishObject: keepFile is set before the object is looked up.
PublishKeeping(p) ==
  /\ At(p, "publish")
  /\ IF closed \/ key[p] \in objects
     THEN UNCHANGED <<files, objects>>
     ELSE /\ objects' = objects \cup {key[p]}
          /\ files' = (files \ FilesOf(p)) \cup {[f EXCEPT !.owner = Stored] : f \in FilesOf(p)}
  /\ IF closed THEN Ends(p) ELSE Goto(p, "settle")
  /\ UNCHANGED <<reservations, root, closed, fate>>

\* Under store.mu; an upload that may not publish removes its own file.
PublishObject(p) ==
  /\ At(p, "publish")
  /\ IF closed \/ key[p] \in objects
     THEN files' = files \ FilesOf(p) /\ UNCHANGED objects
     ELSE /\ objects' = objects \cup {key[p]}
          /\ files' = (files \ FilesOf(p)) \cup {[f EXCEPT !.owner = Stored] : f \in FilesOf(p)}
  /\ IF closed THEN Ends(p) ELSE Goto(p, "settle")
  /\ UNCHANGED <<reservations, root, closed, fate>>

\* A successful upload spends the reservation, whoever wrote the object.
Settle(p) ==
  /\ At(p, "settle") /\ Ends(p)
  /\ reservations' = [reservations EXCEPT ![key[p]] = IF @ = "unused" THEN @ ELSE "none"]
  /\ fate' = [fate EXCEPT ![key[p]] = "answered"]
  /\ UNCHANGED <<objects, files, root, closed>>

(***************************************************************************)
(* Reads and deletions.                                                    *)
(***************************************************************************)
BeginRead(p) == At(p, "get") /\ BeginOperation(p, "open")

OpenMedia(p) ==
  /\ At(p, "open") /\ SameStore
  /\ IF key[p] \in objects /\ FileOf(key[p]) # {} THEN Goto(p, "serve") ELSE Ends(p)

ServeEnds(p) == At(p, "serve") /\ Ends(p) /\ SameStore

BeginDelete(p) == At(p, "delete") /\ BeginOperation(p, "remove")

\* Under store.mu: the file first, then the entry; a failure keeps both.
Delete(p) ==
  /\ At(p, "remove") /\ Ends(p)
  /\ \/ /\ objects' = objects \ {key[p]} /\ files' = files \ FileOf(key[p])
        /\ fate' = IF fate[key[p]] = "answered" /\ \A q \in Procs : key[q] = key[p] => pc[q] \notin Uploading
                   THEN [fate EXCEPT ![key[p]] = "retired"] ELSE fate
     \/ UNCHANGED <<objects, files, fate>>
  /\ UNCHANGED <<reservations, root, closed>>

(***************************************************************************)
(* Close, in the three parts between which store.mu is free.               *)
(***************************************************************************)
CloseMarks ==
  /\ closed' = TRUE
  /\ reservations' = [k \in Keys |-> IF reservations[k] = "unused" THEN "unused" ELSE "none"]
  /\ UNCHANGED <<objects, files, root, pc, key, gone, fate>>

CloseWaits ==
  /\ Active = {}
  /\ objects' = {}
  /\ UNCHANGED <<reservations, files, root, closed, pc, key, gone, fate>>

CloseRemoves ==
  /\ root' = IF root = "made" THEN "removed" ELSE root
  /\ files' = IF root = "made" THEN {} ELSE files
  /\ UNCHANGED <<reservations, objects, closed, pc, key, gone, fate>>

\* The steps a handler takes by itself, and those that wait for its client.
HandlerStep(p) ==
  \/ CreateUpload(p) \/ AcceptPut(p) \/ RefusePut(p)
  \/ BeginPut(p) \/ LookUp(p) \/ LocalRoot(p) \/ CreateTemp(p)
  \/ PublishObject(p) \/ Settle(p)
  \/ BeginRead(p) \/ OpenMedia(p) \/ BeginDelete(p) \/ Delete(p)
TransferEnds(p) == WriteEnds(p) \/ WriteFails(p) \/ ServeEnds(p)

(***************************************************************************)
(* Properties.                                                             *)
(***************************************************************************)
BlobTypeOK ==
  /\ reservations \in [Keys -> {"unused", "open", "expired", "none"}]
  /\ objects \subseteq Keys /\ files \subseteq Files
  /\ root \in {"none", "made", "failed", "removed"} /\ closed \in BOOLEAN
  /\ pc \in [Procs -> Steps] /\ key \in [Procs -> Keys] /\ gone \subseteq Procs
  /\ fate \in [Keys -> {"none", "answered", "retired"}]

\* Every object that a read may find has its whole file: two uploads of one key,
\* or an upload and a deletion, never leave an entry without its payload (put
\* 274-287, Delete 292-308).
ObjectsReadable ==
  \A k \in objects : \E f \in FileOf(k) : f.whole

\* No file is left behind: each belongs to an object or to an upload under way
\* (the deferred removals of put and writeTemporaryObject).
NoOrphanFile ==
  \A f \in files : IF f.owner = Stored THEN f.key \in objects \/ closed
                   ELSE f.owner \in Active

\* Close takes the directory away only when no request uses its files, though
\* requests begin while it runs (beginOperation 330-338, Close 311-326).
DirectoryOutlivesUse == root = "removed" => Active = {} /\ files = {}

\* An object that was deleted after its upload had been answered, with no other
\* upload of the key under way, does not come back: a PUT repeated with the old
\* URL finds its reservation spent (175-178).
RetiredStaysAway == \A k \in objects : fate[k] # "retired"

\* Entries and files go together, and both stay away once they are gone.
FilesMatchObjects == ObjectsReadable /\ NoOrphanFile /\ RetiredStaysAway
==============================================================================
