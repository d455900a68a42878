------------------------ MODULE ServerProcess_proofs ------------------------
(***************************************************************************)
(* Proofs about ServerProcess, and the blob store in it, for every number  *)
(* of requests at a time and every set of object keys.                     *)
(***************************************************************************)
EXTENDS ServerProcess, TLAPS

\* A file that no object names yet is the one its upload is writing, which is
\* whole before the upload publishes it.
OwnFiles ==
  /\ \A f \in files : f.owner # Stored =>
       /\ pc[f.owner] \in {"write", "publish"} /\ f.key = key[f.owner]
       /\ pc[f.owner] = "publish" => f.whole
  /\ \A p \in Procs : pc[p] \in {"write", "publish"} => FilesOf(p) # {}

\* Files are in the directory, and a removed directory was closed before.
InDirectory ==
  /\ root # "made" => files = {}
  /\ root = "removed" => closed

\* An upload under way has had a reservation; one that was answered has spent
\* it; and once its object is deleted for good there is no upload of the key.
Spent ==
  /\ \A p \in Procs : pc[p] \in Uploading => reservations[key[p]] # "unused"
  /\ \A k \in Keys : fate[k] # "none" => reservations[k] = "none"
  /\ \A k \in Keys : fate[k] = "retired" => \A p \in Procs : key[p] = k => pc[p] \notin Uploading

BlobInv == BlobTypeOK /\ OwnFiles /\ InDirectory /\ Spent /\ FilesMatchObjects

\* A production process has a database and no blobs, a development process
\* blobs and no database.
Modes ==
  /\ mode = "production" =>
       /\ objects = {} /\ files = {} /\ root = "none" /\ ~closed
       /\ \A p \in Procs : pc[p] \in {"idle", "api"}
       /\ main \notin {"wait", "remove"}
  /\ mode = "development" => db = "none" /\ main \notin {"open", "setup"}

\* Where run() stands tells who may still run, and what is released.
Phases ==
  /\ main \in Starting => rec = "off" /\ how = "none" /\ Idle
  /\ main \in {"serving", "draining"} => how = "none"
  /\ main \in Closing \cup {"exited"} => rec \in {"off", "done"}
  /\ main \in Closing \cup {"stopping", "exited"} /\ how \in {"none", "drained"} => Idle
  /\ main = "open" => db = "none"
  /\ db = "closed" => main = "exited"
  /\ main = "exited" => db # "open"

\* Close in its three parts: once it has waited nobody begins.
Closes ==
  /\ closed => main \in {"wait", "remove", "exited"}
  /\ main \in {"wait", "remove"} => closed
  /\ main = "exited" /\ mode = "development" => closed /\ files = {}
  /\ root = "removed" => main = "exited"
  /\ main = "remove" \/ (closed /\ main = "exited") => Active = {} /\ objects = {}

IInv == TypeOK /\ BlobInv /\ Modes /\ Phases /\ Closes

----------------------------------------------------------------------------
\* One request takes a step: only a PUT with an open reservation becomes an
\* upload, and only a store that is not closed lets an operation begin.
Moves(p) ==
  /\ pc' \in [Procs -> Steps] /\ key' \in [Procs -> Keys] /\ gone' \subseteq Procs
  /\ \A q \in Procs \ {p} : pc'[q] = pc[q] /\ key'[q] = key[q]
  /\ pc'[p] \in Uploading =>
       key'[p] = key[p] /\ (pc[p] \in Uploading \/ reservations[key[p]] = "open")
  /\ pc'[p] \in Counted => key'[p] = key[p] /\ (pc[p] \in Counted \/ ~closed)

\* Reservations are opened once, and stay spent.
Reserves ==
  /\ reservations' \in [Keys -> {"unused", "open", "expired", "none"}]
  /\ \A k \in Keys : /\ reservations[k] # "unused" => reservations'[k] # "unused"
                     /\ reservations[k] = "none" => reservations'[k] = "none"

\* The directory is made and removed once.
RootMoves ==
  /\ root' \in {"none", "made", "failed", "removed"}
  /\ root' = root \/ (root = "none" /\ root' \in {"made", "failed"})

SameObjects == UNCHANGED <<objects, files, closed, fate>>

----------------------------------------------------------------------------
\* The two ways a handler moves on.
LEMMA GotoMoves ==
  ASSUME BlobTypeOK, NEW p \in Procs, NEW step \in Steps, Goto(p, step)
  PROVE  /\ pc' \in [Procs -> Steps] /\ key' = key /\ key' \in [Procs -> Keys] /\ gone' \subseteq Procs
         /\ pc'[p] = step /\ \A q \in Procs \ {p} : pc'[q] = pc[q]
BY DEF BlobTypeOK, Goto, Goes

LEMMA EndsMoves ==
  ASSUME BlobTypeOK, NEW p \in Procs, Ends(p)
  PROVE  /\ pc' \in [Procs -> Steps] /\ key' \in [Procs -> Keys] /\ gone' \subseteq Procs
         /\ pc'[p] = "idle" /\ \A q \in Procs \ {p} : pc'[q] = pc[q] /\ key'[q] = key[q]
         /\ Moves(p)
<1>1. SomeKey \in Keys
  BY LocalBlobsAssumption DEF SomeKey
<1>2. "idle" \in Steps
  BY DEF Steps
<1>3. /\ pc' \in [Procs -> Steps] /\ key' \in [Procs -> Keys] /\ gone' \subseteq Procs
      /\ pc'[p] = "idle" /\ \A q \in Procs \ {p} : pc'[q] = pc[q] /\ key'[q] = key[q]
  BY <1>1, <1>2 DEF BlobTypeOK, Ends, Goes
<1> QED
  BY <1>3 DEF Moves, Uploading, Counted

\* What is spent stays spent, whatever the request does to the files.
LEMMA SpentStays ==
  ASSUME BlobTypeOK, Spent, NEW p \in Procs, Moves(p), Reserves,
         fate' \in [Keys -> {"none", "answered", "retired"}],
         \A k \in Keys :
           \/ fate'[k] = fate[k]
           \/ /\ reservations'[k] = "none"
              /\ \/ fate'[k] = "answered"
                 \/ \A q \in Procs : key'[q] = k => pc'[q] \notin Uploading
  PROVE  Spent'
<1>1. \A q \in Procs : pc'[q] \in Uploading =>
        /\ key'[q] = key[q] /\ key[q] \in Keys
        /\ pc[q] \in Uploading \/ reservations[key[q]] = "open"
  BY DEF Moves, BlobTypeOK
<1>2. \A q \in Procs : pc'[q] \in Uploading => reservations'[key'[q]] # "unused"
  BY <1>1 DEF Spent, Reserves
<1>3. \A k \in Keys : fate'[k] # "none" => reservations'[k] = "none"
  BY DEF Spent, Reserves
<1>4. ASSUME NEW k \in Keys, fate'[k] = "retired"
      PROVE  \A q \in Procs : key'[q] = k => pc'[q] \notin Uploading
  <2>1. CASE fate'[k] = fate[k]
    <3>1. reservations[k] = "none"
      BY <1>4, <2>1 DEF Spent
    <3>2. \A q \in Procs : key[q] = k => pc[q] \notin Uploading
      BY <1>4, <2>1 DEF Spent
    <3> QED
      BY <1>1, <3>1, <3>2
  <2>2. CASE fate'[k] # fate[k]
    BY <1>4, <2>2
  <2> QED
    BY <2>1, <2>2
<1> QED
  BY <1>2, <1>3, <1>4 DEF Spent

\* A step that touches neither objects nor files, of a request without a file.
LEMMA QuietKeeps ==
  ASSUME BlobInv, NEW p \in Procs, Moves(p), Reserves, RootMoves, UNCHANGED <<objects, files, closed>>,
         pc[p] \notin {"write", "publish"}, pc'[p] \notin {"write", "publish"},
         \/ UNCHANGED fate
         \/ /\ reservations'[key[p]] = "none" /\ key[p] \notin {k \in Keys : fate[k] = "retired"}
            /\ fate' = [fate EXCEPT ![key[p]] = "answered"]
  PROVE  BlobInv'
<1>1. BlobTypeOK /\ key[p] \in Keys
  BY DEF BlobInv, BlobTypeOK
<1>2. /\ fate' \in [Keys -> {"none", "answered", "retired"}]
      /\ \A k \in Keys : fate'[k] = fate[k] \/ (reservations'[k] = "none" /\ fate'[k] = "answered")
  BY <1>1 DEF BlobTypeOK
<1>3. BlobTypeOK'
  BY <1>1, <1>2 DEF BlobTypeOK, Moves, Reserves, RootMoves
<1>4. Spent'
  BY <1>1, <1>2, SpentStays DEF BlobInv
<1>5. OwnFiles'
  <2>1. \A q \in Procs : pc[q] \in {"write", "publish"} \/ pc'[q] \in {"write", "publish"} =>
          pc'[q] = pc[q] /\ key'[q] = key[q]
    BY DEF Moves
  <2>2. \A f \in files : f.owner # Stored => f.owner \in Procs
    BY <1>1 DEF BlobTypeOK, Files
  <2> QED
    BY <2>1, <2>2 DEF BlobInv, OwnFiles, FilesOf
<1>6. InDirectory'
  BY DEF BlobInv, InDirectory, RootMoves
<1>7. FilesMatchObjects'
  <2>1. ObjectsReadable'
    BY DEF BlobInv, FilesMatchObjects, ObjectsReadable, FileOf
  <2>2. NoOrphanFile'
    BY <1>5, <1>3 DEF BlobInv, FilesMatchObjects, NoOrphanFile, OwnFiles, Active, Counted, BlobTypeOK, Files
  <2>3. RetiredStaysAway'
    BY <1>1, <1>2 DEF BlobInv, FilesMatchObjects, RetiredStaysAway, BlobTypeOK
  <2> QED
    BY <2>1, <2>2, <2>3 DEF FilesMatchObjects
<1> QED
  BY <1>3, <1>4, <1>5, <1>6, <1>7 DEF BlobInv

----------------------------------------------------------------------------
\* The steps that reserve, look up, read and answer.
LEMMA CreateUploadKeeps ==
  ASSUME BlobInv, NEW p \in Procs, CreateUpload(p)
  PROVE  BlobInv'
<1>1. BlobTypeOK /\ key[p] \in Keys /\ pc[p] = "reserve" /\ Ends(p)
  BY DEF BlobInv, BlobTypeOK, CreateUpload, At
<1>2. Reserves
  BY <1>1 DEF CreateUpload, Reserves, BlobTypeOK
<1>3. RootMoves
  BY <1>1 DEF CreateUpload, RootMoves, BlobTypeOK
<1> QED
  BY <1>1, <1>2, <1>3, EndsMoves, QuietKeeps DEF CreateUpload

LEMMA ExpireKeeps ==
  ASSUME BlobInv, NEW k \in Keys, Expire(k)
  PROVE  BlobInv'
<1>1. /\ UNCHANGED <<objects, files, root, closed, pc, key, gone, fate>>
      /\ reservations' = [reservations EXCEPT ![k] = "expired"] /\ reservations[k] = "open"
  BY DEF Expire
<1>2. BlobTypeOK'
  BY <1>1 DEF BlobInv, BlobTypeOK
<1>3. OwnFiles' /\ InDirectory' /\ FilesMatchObjects'
  BY <1>1 DEF BlobInv, OwnFiles, InDirectory, FilesMatchObjects, FilesOf, ObjectsReadable, FileOf,
              NoOrphanFile, Active, RetiredStaysAway
<1>4. Spent'
  BY <1>1 DEF BlobInv, BlobTypeOK, Spent
<1> QED
  BY <1>2, <1>3, <1>4 DEF BlobInv

\* A request moves on to a step that no file belongs to.
LEMMA QuietGoto ==
  ASSUME BlobInv, NEW p \in Procs,
         NEW step \in {"begin", "lookup", "root", "create", "settle", "open", "serve", "remove"},
         Goto(p, step),
         step \in Uploading => pc[p] \in Uploading \/ reservations[key[p]] = "open",
         step \in Counted => pc[p] \in Counted \/ ~closed,
         pc[p] \notin {"write", "publish"}, RootMoves,
         UNCHANGED <<reservations, objects, files, closed, fate>>
  PROVE  BlobInv'
<1>1. BlobTypeOK
  BY DEF BlobInv
<1>2. step \in Steps
  BY DEF Steps, Counted
<1>3. Moves(p) /\ pc'[p] = step
  BY <1>1, <1>2, GotoMoves DEF Moves
<1>4. Reserves
  BY <1>1 DEF Reserves, BlobTypeOK
<1> QED
  BY <1>3, <1>4, QuietKeeps

LEMMA QuietEnds ==
  ASSUME BlobInv, NEW p \in Procs, Ends(p), pc[p] \notin {"write", "publish"},
         UNCHANGED <<reservations, objects, files, root, closed, fate>>
  PROVE  BlobInv'
<1>1. BlobTypeOK
  BY DEF BlobInv
<1>2. Reserves /\ RootMoves
  BY <1>1 DEF Reserves, RootMoves, BlobTypeOK
<1> QED
  BY <1>1, <1>2, EndsMoves, QuietKeeps

LEMMA AcceptPutKeeps ==
  ASSUME BlobInv, NEW p \in Procs, AcceptPut(p)
  PROVE  BlobInv'
<1>1. RootMoves
  BY DEF AcceptPut, SameStore, RootMoves, BlobInv, BlobTypeOK
<1> QED
  BY <1>1, QuietGoto DEF AcceptPut, At, SameStore, Counted

LEMMA RefusePutKeeps ==
  ASSUME BlobInv, NEW p \in Procs, RefusePut(p)
  PROVE  BlobInv'
<1>1. BlobTypeOK /\ key[p] \in Keys /\ pc[p] = "put" /\ Ends(p)
  BY DEF BlobInv, BlobTypeOK, RefusePut, At
<1>2. Reserves /\ RootMoves
  BY <1>1 DEF RefusePut, Reserves, RootMoves, BlobTypeOK
<1> QED
  BY <1>1, <1>2, EndsMoves, QuietKeeps DEF RefusePut

LEMMA BeginsKeep ==
  ASSUME BlobInv, NEW p \in Procs, BeginPut(p) \/ BeginRead(p) \/ BeginDelete(p)
  PROVE  BlobInv'
<1>1. PICK step \in {"lookup", "open", "remove"} :
        /\ BeginOperation(p, step)
        /\ pc[p] \in {"begin", "get", "delete"} /\ (step = "lookup" => pc[p] = "begin")
  BY DEF BeginPut, BeginRead, BeginDelete, At
<1>2. RootMoves
  BY <1>1 DEF BeginOperation, SameStore, RootMoves, BlobInv, BlobTypeOK
<1>3. CASE closed
  BY <1>1, <1>3, QuietEnds DEF BeginOperation, SameStore
<1>4. CASE ~closed
  BY <1>1, <1>2, <1>4, QuietGoto DEF BeginOperation, SameStore, Uploading
<1> QED
  BY <1>3, <1>4

LEMMA LookUpKeeps ==
  ASSUME BlobInv, NEW p \in Procs, LookUp(p)
  PROVE  BlobInv'
<1>1. RootMoves
  BY DEF LookUp, SameStore, RootMoves, BlobInv, BlobTypeOK
<1>2. pc[p] = "lookup" /\ pc[p] \in Uploading /\ pc[p] \in Counted
  BY DEF LookUp, At, Uploading, Counted
<1>3. CASE Goto(p, "settle")
  BY <1>1, <1>2, <1>3, QuietGoto DEF LookUp, SameStore
<1>4. CASE Goto(p, "root")
  BY <1>1, <1>2, <1>4, QuietGoto DEF LookUp, SameStore
<1> QED
  BY <1>3, <1>4 DEF LookUp

LEMMA LocalRootKeeps ==
  ASSUME BlobInv, NEW p \in Procs, LocalRoot(p)
  PROVE  BlobInv'
<1>1. RootMoves
  BY DEF LocalRoot, RootMoves, BlobInv, BlobTypeOK
<1>2. pc[p] = "root" /\ pc[p] \in Uploading /\ pc[p] \in Counted
  BY DEF LocalRoot, At, Uploading, Counted
<1>3. CASE closed
  BY <1>2, <1>3, QuietEnds DEF LocalRoot
<1>4. CASE ~closed
  BY <1>1, <1>2, <1>4, QuietGoto DEF LocalRoot
<1> QED
  BY <1>3, <1>4

LEMMA SettleKeeps ==
  ASSUME BlobInv, NEW p \in Procs, Settle(p)
  PROVE  BlobInv'
<1>1. /\ BlobTypeOK /\ key[p] \in Keys /\ pc[p] = "settle" /\ Ends(p)
      /\ pc[p] \in Uploading
  BY DEF BlobInv, BlobTypeOK, Settle, At, Uploading
<1>2. reservations[key[p]] # "unused" /\ fate[key[p]] # "retired"
  BY <1>1 DEF BlobInv, Spent
<1>3. Reserves /\ RootMoves /\ reservations'[key[p]] = "none"
  BY <1>1, <1>2 DEF Settle, Reserves, RootMoves, BlobTypeOK
<1> QED
  BY <1>1, <1>2, <1>3, EndsMoves, QuietKeeps DEF Settle

LEMMA OpenMediaKeeps ==
  ASSUME BlobInv, NEW p \in Procs, OpenMedia(p)
  PROVE  BlobInv'
<1>1. RootMoves
  BY DEF OpenMedia, SameStore, RootMoves, BlobInv, BlobTypeOK
<1>2. pc[p] = "open" /\ pc[p] \in Counted
  BY DEF OpenMedia, At, Counted
<1>3. CASE Goto(p, "serve")
  BY <1>1, <1>2, <1>3, QuietGoto DEF OpenMedia, SameStore, Uploading
<1>4. CASE Ends(p)
  BY <1>2, <1>4, QuietEnds DEF OpenMedia, SameStore
<1> QED
  BY <1>3, <1>4 DEF OpenMedia

LEMMA AnswersKeep ==
  ASSUME BlobInv, NEW p \in Procs, ServeEnds(p) \/ (At(p, "api") /\ Ends(p) /\ SameStore)
  PROVE  BlobInv'
BY QuietEnds DEF ServeEnds, SameStore, At

----------------------------------------------------------------------------
\* The steps that write, publish and delete files.
LEMMA FileOwners ==
  ASSUME BlobInv
  PROVE  /\ Stored \notin Procs
         /\ \A f \in files : /\ f \in Files /\ f.key \in Keys /\ f.owner \in Procs \cup {Stored}
                             /\ f.whole \in BOOLEAN /\ (f.owner = Stored => f.whole)
BY LocalBlobsAssumption DEF BlobInv, BlobTypeOK, Files

\* What a step of an upload that spares the objects' files leaves true.
LEMMA UploadKeeps ==
  ASSUME BlobInv, NEW p \in Procs, Moves(p), files' \subseteq Files,
         UNCHANGED <<reservations, objects, root, closed, fate>>, root = "made" \/ files' = files,
         \A f \in files' : f.owner = p =>
           /\ pc'[p] \in {"write", "publish"} /\ f.key = key'[p] /\ (pc'[p] = "publish" => f.whole),
         \A f : f.owner # p => (f \in files' <=> f \in files),
         pc'[p] \in {"write", "publish"} => \E f \in files' : f.owner = p
  PROVE  BlobInv'
<1>1. BlobTypeOK /\ Stored # p
  BY FileOwners DEF BlobInv
<1>2. BlobTypeOK' /\ Reserves
  BY <1>1 DEF BlobTypeOK, Moves, Reserves
<1>3. Spent'
  BY <1>1, <1>2, SpentStays DEF BlobInv, BlobTypeOK
<1>4. InDirectory'
  BY DEF BlobInv, InDirectory
<1>5. OwnFiles'
  <2>1. ASSUME NEW f \in files', f.owner # Stored
        PROVE  /\ pc'[f.owner] \in {"write", "publish"} /\ f.key = key'[f.owner]
               /\ pc'[f.owner] = "publish" => f.whole
    <3>1. CASE f.owner = p
      BY <3>1
    <3>2. CASE f.owner # p
      <4>1. f \in files /\ f.owner \in Procs \ {p}
        BY <2>1, <3>2, FileOwners
      <4> QED
        BY <2>1, <4>1 DEF BlobInv, OwnFiles, Moves
    <3> QED
      BY <3>1, <3>2
  <2>2. ASSUME NEW q \in Procs, pc'[q] \in {"write", "publish"}
        PROVE  \E f \in files' : f.owner = q
    <3>1. CASE q = p
      BY <2>2, <3>1
    <3>2. CASE q # p
      <4>1. pc[q] \in {"write", "publish"}
        BY <2>2, <3>2 DEF Moves
      <4>2. PICK f \in files : f.owner = q
        BY <4>1 DEF BlobInv, OwnFiles, FilesOf
      <4> QED
        BY <3>2, <4>2
    <3> QED
      BY <3>1, <3>2
  <2> QED
    BY <2>1, <2>2 DEF OwnFiles, FilesOf
<1>6. FilesMatchObjects'
  <2>1. ObjectsReadable'
    BY <1>1 DEF BlobInv, FilesMatchObjects, ObjectsReadable, FileOf
  <2>2. NoOrphanFile'
    <3>1. \A f \in files' : f.owner = Stored => f.key \in objects \/ closed
      BY <1>1 DEF BlobInv, FilesMatchObjects, NoOrphanFile
    <3>2. \A f \in files' : f.owner # Stored => f.owner \in Procs /\ pc'[f.owner] \in Counted
      BY <1>2, <1>5 DEF OwnFiles, BlobTypeOK, Files, Counted
    <3> QED
      BY <3>1, <3>2 DEF NoOrphanFile, Active
  <2>3. RetiredStaysAway'
    BY DEF BlobInv, FilesMatchObjects, RetiredStaysAway
  <2> QED
    BY <2>1, <2>2, <2>3 DEF FilesMatchObjects
<1> QED
  BY <1>2, <1>3, <1>4, <1>5, <1>6 DEF BlobInv

\* An upload has files of its own only while it writes or publishes.
LEMMA NoFileYet ==
  ASSUME BlobInv, NEW p \in Procs, pc[p] \notin {"write", "publish"}
  PROVE  \A f \in files : f.owner # p
BY FileOwners DEF BlobInv, OwnFiles

LEMMA CreateTempKeeps ==
  ASSUME BlobInv, NEW p \in Procs, CreateTemp(p)
  PROVE  BlobInv'
<1>1. /\ BlobTypeOK /\ key[p] \in Keys /\ pc[p] = "create" /\ p # Stored
      /\ pc[p] \in Uploading /\ pc[p] \in Counted /\ pc[p] \notin {"write", "publish"}
  BY FileOwners DEF BlobInv, BlobTypeOK, CreateTemp, At, Uploading, Counted
<1>2. UNCHANGED <<reservations, objects, root, closed, fate>>
  BY DEF CreateTemp
<1>3. CASE /\ root = "made" /\ Goto(p, "write")
           /\ files' = files \cup {[key |-> key[p], owner |-> p, whole |-> FALSE]}
  <2>1. "write" \in Steps
    BY DEF Steps, Counted
  <2>2. Moves(p) /\ pc'[p] = "write" /\ key'[p] = key[p]
    BY <1>1, <1>3, <2>1, GotoMoves DEF Moves
  <2> DEFINE new == [key |-> key[p], owner |-> p, whole |-> FALSE]
  <2>3. new \in Files /\ new.owner = p /\ new.key = key[p]
    BY <1>1 DEF Files
  <2>4. files' = files \cup {new}
    BY <1>3
  <2> HIDE DEF new
  <2>5. files' \subseteq Files
    BY <1>1, <2>3, <2>4 DEF BlobTypeOK
  <2>6. \A f \in files : f.owner # p
    BY <1>1, NoFileYet
  <2>7. \A f \in files' : f.owner = p => f.key = key[p]
    BY <2>3, <2>4, <2>6
  <2>8. \A f : f.owner # p => (f \in files' <=> f \in files)
    BY <2>3, <2>4
  <2>9. \E f \in files' : f.owner = p
    BY <2>3, <2>4
  <2> QED
    BY <1>2, <1>3, <2>2, <2>5, <2>7, <2>8, <2>9, UploadKeeps
<1>4. CASE Ends(p) /\ UNCHANGED files
  BY <1>1, <1>2, <1>4, QuietEnds
<1> QED
  BY <1>3, <1>4 DEF CreateTemp

LEMMA WriteEndsKeeps ==
  ASSUME BlobInv, NEW p \in Procs, WriteEnds(p)
  PROVE  BlobInv'
<1>1. /\ BlobTypeOK /\ key[p] \in Keys /\ pc[p] = "write" /\ p # Stored
      /\ pc[p] \in Uploading /\ pc[p] \in Counted
  BY FileOwners DEF BlobInv, BlobTypeOK, WriteEnds, At, Uploading, Counted
<1>2. UNCHANGED <<reservations, objects, root, closed, fate>>
  BY DEF WriteEnds
<1>3. files' = (files \ FilesOf(p)) \cup {[f EXCEPT !.whole = TRUE] : f \in FilesOf(p)}
  BY DEF WriteEnds
<1>4. \A f \in FilesOf(p) :
        /\ f \in files /\ f.owner = p /\ f.key = key[p]
        /\ [f EXCEPT !.whole = TRUE] \in Files
        /\ [f EXCEPT !.whole = TRUE].owner = p /\ [f EXCEPT !.whole = TRUE].key = key[p]
        /\ [f EXCEPT !.whole = TRUE].whole
  BY <1>1, FileOwners DEF FilesOf, BlobInv, OwnFiles, Files
<1>5. PICK f \in FilesOf(p) : TRUE
  BY <1>1 DEF BlobInv, OwnFiles
<1>6. "publish" \in Steps
  BY DEF Steps, Counted
<1>7. Moves(p) /\ pc'[p] = "publish" /\ key'[p] = key[p]
  BY <1>1, <1>6, GotoMoves DEF Moves, WriteEnds
<1>8. files' \subseteq Files
  BY <1>3, <1>4, FileOwners
<1>9. root = "made"
  BY <1>4, <1>5 DEF BlobInv, InDirectory
<1>10. \A g \in files' : g.owner = p => g.key = key[p] /\ g.whole
  BY <1>3, <1>4 DEF FilesOf
<1>11. \A g : g.owner # p => (g \in files' <=> g \in files)
  BY <1>3, <1>4 DEF FilesOf
<1>12. \E g \in files' : g.owner = p
  BY <1>3, <1>4, <1>5
<1> QED
  BY <1>1, <1>2, <1>7, <1>8, <1>9, <1>10, <1>11, <1>12, UploadKeeps

\* A request that ends takes its file with it.
LEMMA LosesFile ==
  ASSUME BlobInv, NEW p \in Procs, Moves(p), pc'[p] \notin {"write", "publish"},
         files' = files \ FilesOf(p), UNCHANGED <<reservations, objects, root, closed, fate>>
  PROVE  BlobInv'
<1>1. files' \subseteq Files /\ \A f \in files' : f.owner # p
  BY FileOwners DEF FilesOf
<1>2. \A f : f.owner # p => (f \in files' <=> f \in files)
  BY DEF FilesOf
<1>3. root = "made" \/ files' = files
  BY DEF BlobInv, InDirectory
<1> QED
  BY <1>1, <1>2, <1>3, UploadKeeps

LEMMA WriteFailsKeeps ==
  ASSUME BlobInv, NEW p \in Procs, WriteFails(p)
  PROVE  BlobInv'
<1>1. Moves(p) /\ pc'[p] = "idle"
  BY EndsMoves DEF WriteFails, BlobInv
<1> QED
  BY <1>1, LosesFile DEF WriteFails

LEMMA PublishObjectKeeps ==
  ASSUME BlobInv, NEW p \in Procs, PublishObject(p)
  PROVE  BlobInv'
<1>1. /\ BlobTypeOK /\ key[p] \in Keys /\ pc[p] = "publish" /\ p # Stored /\ p \in Active
      /\ pc[p] \in Uploading /\ pc[p] \in Counted
  BY FileOwners DEF BlobInv, BlobTypeOK, PublishObject, At, Uploading, Counted, Active
<1>2. UNCHANGED <<reservations, root, closed, fate>>
  BY DEF PublishObject
<1>3. Moves(p) /\ pc'[p] \in {"idle", "settle"}
  <2>1. "settle" \in Steps
    BY DEF Steps
  <2>2. ASSUME Goto(p, "settle")
        PROVE  Moves(p) /\ pc'[p] = "settle"
    BY <1>1, <2>1, <2>2, GotoMoves DEF Moves, Counted
  <2>3. ASSUME Ends(p)
        PROVE  Moves(p) /\ pc'[p] = "idle"
    BY <1>1, <2>3, EndsMoves
  <2> QED
    BY <2>2, <2>3 DEF PublishObject
<1>4. CASE closed \/ key[p] \in objects
  BY <1>2, <1>3, <1>4, LosesFile DEF PublishObject
<1>5. CASE ~closed /\ key[p] \notin objects
  <2>1. /\ objects' = objects \cup {key[p]}
        /\ files' = (files \ FilesOf(p)) \cup {[f EXCEPT !.owner = Stored] : f \in FilesOf(p)}
    BY <1>5 DEF PublishObject
  <2>2. \A f \in FilesOf(p) :
          /\ f \in files /\ f.owner = p /\ f.key = key[p] /\ f.whole
          /\ [f EXCEPT !.owner = Stored] \in Files
          /\ [f EXCEPT !.owner = Stored].owner = Stored /\ [f EXCEPT !.owner = Stored].key = key[p]
          /\ [f EXCEPT !.owner = Stored].whole
    BY <1>1, FileOwners DEF FilesOf, BlobInv, OwnFiles, Files
  <2>3. PICK mine \in FilesOf(p) : TRUE
    BY <1>1 DEF BlobInv, OwnFiles
  <2>4. /\ files' \subseteq Files
        /\ \A f \in files' : f.owner # p
        /\ \A f : f.owner # p /\ f.owner # Stored => (f \in files' <=> f \in files)
        /\ \A f \in files' : f.owner = Stored => f \in files \/ f.key = key[p]
        /\ \A f \in files : f.owner = Stored => f \in files'
        /\ \E f \in files' : f.owner = Stored /\ f.key = key[p] /\ f.whole
    <3>1. files' \subseteq Files
      BY <2>1, <2>2, FileOwners
    <3>2. \A f \in files' : f.owner # p
      BY <1>1, <2>1, <2>2 DEF FilesOf
    <3>3. \A f : f.owner # p /\ f.owner # Stored => (f \in files' <=> f \in files)
      BY <2>1, <2>2 DEF FilesOf
    <3>4. \A f \in files' : f.owner = Stored => f \in files \/ f.key = key[p]
      BY <2>1, <2>2
    <3>5. \A f \in files : f.owner = Stored => f \in files'
      BY <1>1, <2>1 DEF FilesOf
    <3>6. \E f \in files' : f.owner = Stored /\ f.key = key[p] /\ f.whole
      BY <2>1, <2>2, <2>3
    <3> QED
      BY <3>1, <3>2, <3>3, <3>4, <3>5, <3>6
  <2>5. BlobTypeOK' /\ Reserves
    BY <1>1, <1>2, <1>3, <2>1, <2>4 DEF BlobTypeOK, Moves, Reserves
  <2>6. Spent'
    BY <1>1, <1>2, <1>3, <2>5, SpentStays DEF BlobInv, BlobTypeOK
  <2>7. InDirectory'
    <3>1. root = "made"
      BY <2>2, <2>3 DEF BlobInv, InDirectory
    <3> QED
      BY <1>2, <3>1 DEF InDirectory
  <2>8. OwnFiles'
    <3>1. ASSUME NEW f \in files', f.owner # Stored
          PROVE  /\ pc'[f.owner] \in {"write", "publish"} /\ f.key = key'[f.owner]
                 /\ pc'[f.owner] = "publish" => f.whole
      <4>1. f \in files /\ f.owner \in Procs \ {p}
        BY <2>4, <3>1, FileOwners
      <4> QED
        BY <1>3, <3>1, <4>1 DEF BlobInv, OwnFiles, Moves
    <3>2. ASSUME NEW q \in Procs, pc'[q] \in {"write", "publish"}
          PROVE  \E f \in files' : f.owner = q
      <4>1. q # p /\ q # Stored /\ pc[q] \in {"write", "publish"}
        BY <1>3, <3>2, FileOwners DEF Moves
      <4>2. PICK f \in files : f.owner = q
        BY <4>1 DEF BlobInv, OwnFiles, FilesOf
      <4> QED
        BY <2>4, <4>1, <4>2
    <3> QED
      BY <3>1, <3>2 DEF OwnFiles, FilesOf
  <2>9. ObjectsReadable'
    BY <2>1, <2>4 DEF BlobInv, FilesMatchObjects, ObjectsReadable, FileOf
  <2>10. NoOrphanFile'
    <3>1. \A f \in files' : f.owner = Stored => f.key \in objects'
      BY <1>5, <2>1, <2>4 DEF BlobInv, FilesMatchObjects, NoOrphanFile
    <3>2. \A f \in files' : f.owner # Stored => f.owner \in Procs /\ pc'[f.owner] \in Counted
      BY <2>4, <2>8 DEF OwnFiles, Files, Counted
    <3> QED
      BY <3>1, <3>2 DEF NoOrphanFile, Active
  <2>11. RetiredStaysAway'
    BY <1>1, <1>2, <2>1 DEF BlobInv, FilesMatchObjects, RetiredStaysAway, Spent
  <2> QED
    BY <2>5, <2>6, <2>7, <2>8, <2>9, <2>10, <2>11 DEF BlobInv, FilesMatchObjects
<1> QED
  BY <1>4, <1>5

LEMMA DeleteKeeps ==
  ASSUME BlobInv, NEW p \in Procs, Delete(p)
  PROVE  BlobInv'
<1>1. /\ BlobTypeOK /\ key[p] \in Keys /\ pc[p] = "remove" /\ p # Stored /\ Ends(p)
      /\ UNCHANGED <<reservations, root, closed>>
  BY FileOwners DEF BlobInv, BlobTypeOK, Delete, At
<1>2. Moves(p) /\ pc'[p] = "idle"
  BY <1>1, EndsMoves
<1>3. CASE UNCHANGED <<objects, files, fate>>
  BY <1>1, <1>3, QuietEnds
<1>4. CASE /\ objects' = objects \ {key[p]} /\ files' = files \ FileOf(key[p])
           /\ fate' = IF fate[key[p]] = "answered" /\ \A q \in Procs : key[q] = key[p] => pc[q] \notin Uploading
                      THEN [fate EXCEPT ![key[p]] = "retired"] ELSE fate
  <2>1. /\ fate' \in [Keys -> {"none", "answered", "retired"}]
        /\ \A k \in Keys : k # key[p] => fate'[k] = fate[k]
        /\ fate'[key[p]] # fate[key[p]] =>
             /\ fate[key[p]] = "answered"
             /\ \A q \in Procs : key[q] = key[p] => pc[q] \notin Uploading
    BY <1>1, <1>4 DEF BlobTypeOK
  <2>2. Reserves /\ BlobTypeOK'
    BY <1>1, <1>2, <1>4, <2>1 DEF Reserves, BlobTypeOK, Moves
  <2>3. fate'[key[p]] # fate[key[p]] =>
          /\ reservations'[key[p]] = "none"
          /\ \A q \in Procs : key'[q] = key[p] => pc'[q] \notin Uploading
    <3>1. fate'[key[p]] # fate[key[p]] => reservations'[key[p]] = "none"
      BY <1>1, <2>1 DEF BlobInv, Spent
    <3>2. \A q \in Procs : q # p => pc'[q] = pc[q] /\ key'[q] = key[q]
      BY <1>2 DEF Moves
    <3>3. pc'[p] \notin Uploading
      BY <1>2 DEF Uploading
    <3> QED
      BY <2>1, <3>1, <3>2, <3>3
  <2>4. Spent'
    BY <1>1, <1>2, <2>1, <2>2, <2>3, SpentStays DEF BlobInv
  <2>5. InDirectory'
    BY <1>1, <1>4 DEF BlobInv, InDirectory
  <2>6. OwnFiles'
    <3>1. \A f : f.owner # Stored => (f \in files' <=> f \in files)
      BY <1>4 DEF FileOf
    <3>2. \A f \in files : f.owner # Stored => f.owner \in Procs \ {p}
      BY <1>1, FileOwners DEF BlobInv, OwnFiles
    <3>3. \A q \in Procs : pc'[q] \in {"write", "publish"} => q # p /\ q # Stored /\ pc[q] = pc'[q]
      BY <1>2, FileOwners DEF Moves
    <3>4. \A q \in Procs \ {p} : pc'[q] = pc[q] /\ key'[q] = key[q]
      BY <1>2 DEF Moves
    <3>5. \A f \in files' : f.owner # Stored =>
            /\ pc'[f.owner] \in {"write", "publish"} /\ f.key = key'[f.owner]
            /\ pc'[f.owner] = "publish" => f.whole
      BY <3>1, <3>2, <3>4 DEF BlobInv, OwnFiles
    <3>6. ASSUME NEW q \in Procs, pc'[q] \in {"write", "publish"}
          PROVE  \E f \in files' : f.owner = q
      <4>1. q # p /\ q # Stored /\ pc[q] \in {"write", "publish"}
        BY <3>3, <3>6
      <4>2. PICK f \in files : f.owner = q
        BY <4>1 DEF BlobInv, OwnFiles, FilesOf
      <4> QED
        BY <3>1, <4>1, <4>2
    <3> QED
      BY <3>5, <3>6 DEF OwnFiles, FilesOf
  <2>7. ObjectsReadable'
    BY <1>4 DEF BlobInv, FilesMatchObjects, ObjectsReadable, FileOf
  <2>8. NoOrphanFile'
    <3>1. \A f \in files' : f.owner = Stored => f.key \in objects' \/ closed
      BY <1>4 DEF BlobInv, FilesMatchObjects, NoOrphanFile, FileOf
    <3>2. \A f \in files' : f.owner # Stored => f.owner \in Procs /\ pc'[f.owner] \in Counted
      BY <2>2, <2>6 DEF OwnFiles, BlobTypeOK, Files, Counted
    <3> QED
      BY <1>1, <3>1, <3>2 DEF NoOrphanFile, Active
  <2>9. RetiredStaysAway'
    BY <1>1, <1>4, <2>1 DEF BlobInv, BlobTypeOK, FilesMatchObjects, RetiredStaysAway
  <2> QED
    BY <2>2, <2>4, <2>5, <2>6, <2>7, <2>8, <2>9 DEF BlobInv, FilesMatchObjects
<1> QED
  BY <1>3, <1>4 DEF Delete

----------------------------------------------------------------------------
\* Every step of a request keeps the store in order ...
LEMMA RequestsKeep ==
  ASSUME BlobInv, NEW p \in Procs,
         HandlerStep(p) \/ TransferEnds(p) \/ (At(p, "api") /\ Ends(p) /\ SameStore)
  PROVE  BlobInv'
BY CreateUploadKeeps, AcceptPutKeeps, RefusePutKeeps, BeginsKeep, LookUpKeeps, LocalRootKeeps,
   CreateTempKeeps, WriteEndsKeeps, WriteFailsKeeps, PublishObjectKeeps, SettleKeeps,
   OpenMediaKeeps, AnswersKeep, DeleteKeeps DEF HandlerStep, TransferEnds

\* ... and none begins in a closed store, or changes it from outside an operation.
LEMMA RequestsRespectClose ==
  ASSUME BlobTypeOK, NEW p \in Procs,
         HandlerStep(p) \/ TransferEnds(p) \/ (At(p, "api") /\ Ends(p) /\ SameStore)
  PROVE  /\ closed' = closed /\ pc[p] # "idle"
         /\ HandlerStep(p) \/ TransferEnds(p) => pc[p] # "api"
         /\ pc' \in [Procs -> Steps] /\ \A q \in Procs \ {p} : pc'[q] = pc[q]
         /\ closed => Active' \subseteq Active
         /\ p \notin Active => UNCHANGED <<objects, files, root>>
         /\ root' = "removed" => root = "removed"
         /\ pc[p] = "api" => pc'[p] = "idle" /\ SameStore
<1>1. /\ closed' = closed /\ pc[p] # "idle"
      /\ HandlerStep(p) \/ TransferEnds(p) => pc[p] # "api"
  BY DEF HandlerStep, TransferEnds, CreateUpload, AcceptPut, RefusePut, BeginPut, LookUp, LocalRoot,
         CreateTemp, PublishObject, Settle, BeginRead, OpenMedia, BeginDelete, Delete,
         WriteEnds, WriteFails, ServeEnds, BeginOperation, SameStore, At
<1>2. PICK step : /\ pc' = [pc EXCEPT ![p] = step] /\ step \in Steps
                  /\ step \in Counted /\ closed => pc[p] \in Counted
                  /\ pc[p] = "api" => step = "idle"
  <2>1. {"idle", "begin", "lookup", "root", "create", "write", "publish", "settle", "open", "serve",
         "remove"} \subseteq Steps
    BY DEF Steps, Counted
  <2> QED
    BY <2>1 DEF HandlerStep, TransferEnds, CreateUpload, AcceptPut, RefusePut, BeginPut, LookUp, LocalRoot,
         CreateTemp, PublishObject, Settle, BeginRead, OpenMedia, BeginDelete, Delete,
         WriteEnds, WriteFails, ServeEnds, BeginOperation, SameStore, At, Ends, Goto, Goes, Counted
<1>3. /\ pc' \in [Procs -> Steps] /\ pc'[p] = step /\ \A q \in Procs \ {p} : pc'[q] = pc[q]
  BY <1>2 DEF BlobTypeOK
<1>4. closed => Active' \subseteq Active
  BY <1>2, <1>3 DEF Active
<1>5. (p \notin Active => UNCHANGED <<objects, files, root>>) /\ (root' = "removed" => root = "removed")
  BY DEF HandlerStep, TransferEnds, CreateUpload, AcceptPut, RefusePut, BeginPut, LookUp, LocalRoot,
         CreateTemp, PublishObject, Settle, BeginRead, OpenMedia, BeginDelete, Delete,
         WriteEnds, WriteFails, ServeEnds, BeginOperation, SameStore, At, Active, Counted
<1>6. pc[p] = "api" => pc'[p] = "idle" /\ SameStore
  BY <1>1, <1>2, <1>3
<1> QED
  BY <1>1, <1>3, <1>4, <1>5, <1>6

----------------------------------------------------------------------------
\* A step of run() that leaves the blobs alone, and those of Close.
LEMMA SameBlobs ==
  ASSUME BlobInv, UNCHANGED blobVars
  PROVE  BlobInv'
<1>1. UNCHANGED <<reservations, objects, files, root, closed, pc, key, gone, fate>>
  BY DEF blobVars
<1>2. BlobTypeOK' /\ OwnFiles' /\ InDirectory' /\ Spent'
  BY <1>1 DEF BlobInv, BlobTypeOK, OwnFiles, InDirectory, Spent, FilesOf
<1>3. FilesMatchObjects'
  BY <1>1 DEF BlobInv, FilesMatchObjects, ObjectsReadable, FileOf, NoOrphanFile, Active, RetiredStaysAway
<1> QED
  BY <1>2, <1>3 DEF BlobInv

LEMMA DisconnectKeeps ==
  ASSUME BlobInv, UNCHANGED <<reservations, objects, files, root, closed, pc, key, fate>>,
         gone' \subseteq Procs
  PROVE  BlobInv'
<1>1. BlobTypeOK' /\ OwnFiles' /\ InDirectory' /\ Spent'
  BY DEF BlobInv, BlobTypeOK, OwnFiles, InDirectory, Spent, FilesOf
<1>2. FilesMatchObjects'
  BY DEF BlobInv, FilesMatchObjects, ObjectsReadable, FileOf, NoOrphanFile, Active, RetiredStaysAway
<1> QED
  BY <1>1, <1>2 DEF BlobInv

LEMMA CloseMarksKeeps ==
  ASSUME BlobInv, CloseMarks
  PROVE  BlobInv'
<1>1. /\ UNCHANGED <<objects, files, root, pc, key, gone, fate>> /\ closed' = TRUE
      /\ reservations' = [k \in Keys |-> IF reservations[k] = "unused" THEN "unused" ELSE "none"]
  BY DEF CloseMarks
<1>2. BlobTypeOK' /\ OwnFiles' /\ InDirectory'
  BY <1>1 DEF BlobInv, BlobTypeOK, OwnFiles, InDirectory, FilesOf
<1>3. Spent'
  BY <1>1 DEF BlobInv, BlobTypeOK, Spent
<1>4. FilesMatchObjects'
  BY <1>1 DEF BlobInv, FilesMatchObjects, ObjectsReadable, FileOf, NoOrphanFile, Active, RetiredStaysAway
<1> QED
  BY <1>2, <1>3, <1>4 DEF BlobInv

LEMMA CloseWaitsKeeps ==
  ASSUME BlobInv, closed, CloseWaits
  PROVE  BlobInv'
<1>1. /\ UNCHANGED <<reservations, files, root, closed, pc, key, gone, fate>> /\ objects' = {}
  BY DEF CloseWaits
<1>2. BlobTypeOK' /\ OwnFiles' /\ InDirectory' /\ Spent'
  BY <1>1 DEF BlobInv, BlobTypeOK, OwnFiles, InDirectory, Spent, FilesOf
<1>3. FilesMatchObjects'
  BY <1>1 DEF BlobInv, FilesMatchObjects, ObjectsReadable, FileOf, NoOrphanFile, Active, RetiredStaysAway
<1> QED
  BY <1>2, <1>3 DEF BlobInv

LEMMA CloseRemovesKeeps ==
  ASSUME BlobInv, closed, Active = {}, objects = {}, CloseRemoves
  PROVE  BlobInv' /\ files' = {}
<1>1. /\ UNCHANGED <<reservations, objects, closed, pc, key, gone, fate>> /\ files' = {}
      /\ root' = IF root = "made" THEN "removed" ELSE root
  BY DEF CloseRemoves, BlobInv, InDirectory
<1>2. \A p \in Procs : pc[p] \notin {"write", "publish"}
  BY DEF Active, Counted
<1>3. BlobTypeOK' /\ OwnFiles' /\ InDirectory' /\ Spent'
  BY <1>1, <1>2 DEF BlobInv, BlobTypeOK, OwnFiles, InDirectory, Spent
<1>4. FilesMatchObjects'
  BY <1>1 DEF FilesMatchObjects, ObjectsReadable, NoOrphanFile, RetiredStaysAway
<1> QED
  BY <1>1, <1>3, <1>4 DEF BlobInv

\* The memory of a new process.
LEMMA NewBlobs == BlobInit => BlobInv /\ Idle
<1> SUFFICES ASSUME BlobInit PROVE BlobInv /\ Idle
  OBVIOUS
<1>1. SomeKey \in Keys /\ "idle" \in Steps
  BY LocalBlobsAssumption DEF SomeKey, Steps
<1>2. BlobTypeOK
  BY <1>1 DEF BlobInit, BlobTypeOK
<1>3. \A p \in Procs : pc[p] = "idle"
  BY DEF BlobInit
<1>4. OwnFiles /\ InDirectory
  BY <1>3 DEF BlobInit, OwnFiles, InDirectory
<1>5. Spent
  BY <1>3 DEF BlobInit, Spent, Uploading
<1>6. FilesMatchObjects
  BY DEF BlobInit, FilesMatchObjects, ObjectsReadable, NoOrphanFile, RetiredStaysAway
<1> QED
  BY <1>2, <1>3, <1>4, <1>5, <1>6 DEF BlobInv, Idle

----------------------------------------------------------------------------
\* The steps of run(), of the reconciler and of the signal.
LEMMA StartUpKeeps ==
  ASSUME IInv, OpenDatabase \/ SetUp \/ BuildHandler \/ StartReconciler
  PROVE  IInv'
<1>1. /\ UNCHANGED blobVars
      /\ UNCHANGED <<reservations, objects, files, root, closed, pc, key, gone, fate, mode, cancelled, how>>
      /\ main \in Starting
  BY DEF OpenDatabase, SetUp, BuildHandler, StartReconciler, blobVars, Starting
<1>2. BlobInv' /\ Idle' /\ Active' = Active
  BY <1>1, SameBlobs DEF IInv, Phases, Idle, Active
<1>3. TypeOK'
  BY <1>1, <1>2 DEF IInv, BlobInv, TypeOK, OpenDatabase, SetUp, BuildHandler, StartReconciler,
                    Starting, Closing
<1>4. Modes'
  BY <1>1 DEF IInv, Modes, OpenDatabase, SetUp, BuildHandler, StartReconciler
<1>5. Phases'
  BY <1>1, <1>2 DEF IInv, Phases, OpenDatabase, SetUp, BuildHandler, StartReconciler, Starting, Closing
<1>6. Closes'
  BY <1>1, <1>2 DEF IInv, Closes, Modes, OpenDatabase, SetUp, BuildHandler, StartReconciler, Starting
<1> QED
  BY <1>2, <1>3, <1>4, <1>5, <1>6 DEF IInv

LEMMA SideStepsKeep ==
  ASSUME IInv, Reconciled \/ TimerFires \/ LoopReturns \/ Signal
  PROVE  IInv'
<1>1. /\ UNCHANGED blobVars
      /\ UNCHANGED <<reservations, objects, files, root, closed, pc, key, gone, fate, mode, main, db, how>>
  BY DEF Reconciled, TimerFires, LoopReturns, Signal, blobVars
<1>2. BlobInv' /\ (Idle' <=> Idle) /\ Active' = Active
  BY <1>1, SameBlobs DEF IInv, Idle, Active
<1>3. TypeOK'
  BY <1>1, <1>2 DEF IInv, BlobInv, TypeOK, Reconciled, TimerFires, LoopReturns, Signal
<1>4. Modes' /\ Closes'
  BY <1>1, <1>2 DEF IInv, Modes, Closes
<1>5. Phases'
  BY <1>1, <1>2 DEF IInv, Phases, TypeOK, Reconciled, TimerFires, LoopReturns, Signal
<1> QED
  BY <1>2, <1>3, <1>4, <1>5 DEF IInv

LEMMA ShutdownKeeps ==
  ASSUME IInv, Drain \/ DrainEnds \/ DrainTimesOut \/ ServeFails \/ StopReconciler
  PROVE  IInv'
<1>1. UNCHANGED <<reservations, objects, files, root, closed, pc, key, fate, mode, db, rec, cancelled>>
  BY DEF Drain, DrainEnds, DrainTimesOut, ServeFails, StopReconciler, blobVars
<1>2. gone' \subseteq Procs
  BY DEF IInv, BlobInv, BlobTypeOK, Drain, DrainEnds, DrainTimesOut, ServeFails, StopReconciler, blobVars
<1>3. BlobInv' /\ (Idle' <=> Idle) /\ Active' = Active
  BY <1>1, <1>2, DisconnectKeeps DEF IInv, Idle, Active
<1>4. TypeOK'
  BY <1>1, <1>3 DEF IInv, BlobInv, TypeOK, Drain, DrainEnds, DrainTimesOut, ServeFails, StopReconciler,
                    Starting, Closing
<1>5. Modes' /\ Closes'
  BY <1>1, <1>3 DEF IInv, Modes, Closes, Drain, DrainEnds, DrainTimesOut, ServeFails, StopReconciler
<1>6. Phases'
  BY <1>1, <1>3 DEF IInv, Phases, Drain, DrainEnds, DrainTimesOut, ServeFails, StopReconciler,
                    Starting, Closing
<1> QED
  BY <1>3, <1>4, <1>5, <1>6 DEF IInv

LEMMA CloseDatabaseKeeps ==
  ASSUME IInv, CloseDatabase
  PROVE  IInv'
<1>1. /\ UNCHANGED blobVars /\ main = "close" /\ mode = "production" /\ db' = "closed" /\ main' = "exited"
      /\ UNCHANGED <<reservations, objects, files, root, closed, pc, key, gone, fate, mode, rec, cancelled, how>>
  BY DEF CloseDatabase, blobVars
<1>2. BlobInv' /\ (Idle' <=> Idle) /\ Active' = Active
  BY <1>1, SameBlobs DEF IInv, Idle, Active
<1>3. TypeOK'
  BY <1>1, <1>2 DEF IInv, BlobInv, TypeOK
<1>4. Modes' /\ Closes'
  BY <1>1, <1>2 DEF IInv, Modes, Closes
<1>5. Phases'
  BY <1>1, <1>2 DEF IInv, Phases, Starting, Closing
<1> QED
  BY <1>2, <1>3, <1>4, <1>5 DEF IInv

LEMMA CloseBlobsKeeps ==
  ASSUME IInv, CloseBlobs
  PROVE  IInv'
<1>1. mode = "development" /\ UNCHANGED <<mode, db, rec, cancelled, how, pc, key, gone>>
  BY DEF CloseBlobs, CloseMarks, CloseWaits, CloseRemoves
<1>2. (Idle' <=> Idle) /\ Active' = Active
  BY <1>1 DEF Idle, Active
<1>3. CASE main = "close" /\ CloseMarks /\ main' = "wait"
  <2>1. closed' /\ root' = root /\ BlobInv'
    BY <1>3, CloseMarksKeeps DEF IInv, CloseMarks
  <2>2. TypeOK' /\ Modes' /\ Closes'
    BY <1>1, <1>2, <1>3, <2>1 DEF IInv, BlobInv, TypeOK, Modes, Closes, Closing
  <2>3. Phases'
    BY <1>1, <1>2, <1>3 DEF IInv, Phases, Starting, Closing
  <2> QED
    BY <2>1, <2>2, <2>3 DEF IInv
<1>4. CASE main = "wait" /\ CloseWaits /\ main' = "remove"
  <2>1. closed /\ closed' = closed /\ root' = root /\ Active = {} /\ objects' = {} /\ BlobInv'
    BY <1>4, CloseWaitsKeeps DEF IInv, Closes, CloseWaits
  <2>2. TypeOK' /\ Modes' /\ Closes'
    BY <1>1, <1>2, <1>4, <2>1 DEF IInv, BlobInv, TypeOK, Modes, Closes, Closing
  <2>3. Phases'
    BY <1>1, <1>2, <1>4 DEF IInv, Phases, Starting, Closing
  <2> QED
    BY <2>1, <2>2, <2>3 DEF IInv
<1>5. CASE main = "remove" /\ CloseRemoves /\ main' = "exited"
  <2>1. closed /\ closed' = closed /\ Active = {} /\ objects = {} /\ objects' = objects
    BY <1>5 DEF IInv, Closes, CloseRemoves
  <2>2. BlobInv' /\ files' = {}
    BY <1>5, <2>1, CloseRemovesKeeps DEF IInv
  <2>3. TypeOK' /\ Modes' /\ Closes'
    BY <1>1, <1>2, <1>5, <2>1, <2>2 DEF IInv, BlobInv, TypeOK, Modes, Closes
  <2>4. Phases'
    BY <1>1, <1>2, <1>5 DEF IInv, Phases, Modes, Starting, Closing
  <2> QED
    BY <2>2, <2>3, <2>4 DEF IInv
<1> QED
  BY <1>3, <1>4, <1>5 DEF CloseBlobs

----------------------------------------------------------------------------
\* The steps of requests.
LEMMA ArriveKeeps ==
  ASSUME IInv, NEW p \in Procs, NEW k \in Keys, NEW request \in Requests \cup {"api"},
         Arrive(p, request, k)
  PROVE  IInv'
<1>1. /\ main = "serving" /\ pc[p] = "idle" /\ request \in Steps
      /\ request \in (IF mode = "production" THEN {"api"} ELSE Requests)
      /\ pc' = [pc EXCEPT ![p] = request] /\ key' = [key EXCEPT ![p] = k]
      /\ UNCHANGED <<reservations, objects, files, root, closed, gone, fate, mode, main, db, rec, cancelled, how>>
  BY DEF Arrive, procVars, Steps
<1>2. BlobTypeOK /\ ~closed
  BY <1>1 DEF IInv, BlobInv, Closes
<1>3. /\ pc' \in [Procs -> Steps] /\ pc'[p] = request /\ request \notin Uploading \cup Counted
      /\ key' \in [Procs -> Keys]
      /\ \A q \in Procs \ {p} : pc'[q] = pc[q] /\ key'[q] = key[q]
  BY <1>1, <1>2 DEF BlobTypeOK, Requests, Uploading, Counted
<1>4. Moves(p) /\ Reserves /\ RootMoves /\ pc'[p] \notin {"write", "publish"}
  BY <1>1, <1>2, <1>3 DEF Moves, Reserves, RootMoves, BlobTypeOK, Counted
<1>5. BlobInv'
  BY <1>1, <1>4, QuietKeeps DEF IInv
<1>6. TypeOK'
  BY <1>1, <1>5 DEF IInv, BlobInv, TypeOK
<1>7. Modes'
  BY <1>1, <1>3 DEF IInv, Modes
<1>8. Phases' /\ Closes'
  BY <1>1, <1>2 DEF IInv, Phases, Closes, Starting, Closing
<1> QED
  BY <1>5, <1>6, <1>7, <1>8 DEF IInv

LEMMA RequestRunsKeeps ==
  ASSUME IInv, NEW p \in Procs, Api(p) \/ HandlerRuns(p) \/ TransferRuns(p)
  PROVE  IInv'
<1>1. /\ UNCHANGED <<mode, main, db, rec, cancelled, how>>
      /\ HandlerStep(p) \/ TransferEnds(p) \/ (At(p, "api") /\ Ends(p) /\ SameStore)
  BY DEF Api, HandlerRuns, TransferRuns, procVars
<1>2. BlobTypeOK /\ BlobInv'
  BY <1>1, RequestsKeep DEF IInv, BlobInv
<1>3. /\ closed' = closed /\ pc[p] # "idle"
      /\ HandlerStep(p) \/ TransferEnds(p) => pc[p] # "api"
      /\ pc' \in [Procs -> Steps] /\ \A q \in Procs \ {p} : pc'[q] = pc[q]
      /\ closed => Active' \subseteq Active
      /\ p \notin Active => UNCHANGED <<objects, files, root>>
      /\ root' = "removed" => root = "removed"
      /\ pc[p] = "api" => pc'[p] = "idle" /\ SameStore
  BY <1>1, <1>2, RequestsRespectClose
<1>4. ~Idle
  BY <1>3 DEF Idle
<1>5. TypeOK'
  BY <1>1, <1>2 DEF IInv, BlobInv, TypeOK
<1>6. Modes'
  <2>1. mode = "production" => pc[p] = "api"
    BY <1>3 DEF IInv, Modes
  <2>2. mode = "production" => \A q \in Procs : pc'[q] \in {"idle", "api"}
    BY <1>3, <2>1 DEF IInv, Modes
  <2> QED
    BY <1>1, <1>3, <2>1, <2>2 DEF IInv, Modes, SameStore
<1>7. Phases'
  BY <1>1, <1>4 DEF IInv, Phases
<1>8. Closes'
  <2>1. closed /\ main = "exited" => Active = {} /\ objects = {}
    BY DEF IInv, Closes
  <2>2. main = "remove" => closed /\ Active = {} /\ objects = {}
    BY DEF IInv, Closes
  <2>3. main = "remove" \/ (closed /\ main = "exited") => Active' = {} /\ objects' = {} /\ files' = files
    BY <1>3, <2>1, <2>2
  <2> QED
    BY <1>1, <1>3, <2>3 DEF IInv, Closes
<1> QED
  BY <1>2, <1>5, <1>6, <1>7, <1>8 DEF IInv

LEMMA TimePassesKeeps ==
  ASSUME IInv, NEW k \in Keys, TimePasses(k)
  PROVE  IInv'
<1>1. /\ Expire(k)
      /\ UNCHANGED <<objects, files, root, closed, pc, key, gone, fate, mode, main, db, rec, cancelled, how>>
  BY DEF TimePasses, Expire, procVars
<1>2. BlobInv' /\ (Idle' <=> Idle) /\ Active' = Active
  BY <1>1, ExpireKeeps DEF IInv, Idle, Active
<1>3. TypeOK' /\ Modes' /\ Phases' /\ Closes'
  BY <1>1, <1>2 DEF IInv, BlobInv, TypeOK, Modes, Phases, Closes
<1> QED
  BY <1>2, <1>3 DEF IInv

----------------------------------------------------------------------------
\* A process that starts.
LEMMA StartHolds == mode \in {"production", "development"} /\ ProcessInit => IInv
<1> SUFFICES ASSUME mode \in {"production", "development"}, ProcessInit PROVE IInv
  OBVIOUS
<1>1. BlobInv /\ Idle
  BY NewBlobs DEF ProcessInit
<1>2. /\ objects = {} /\ files = {} /\ root = "none" /\ closed = FALSE
      /\ main = IF mode = "production" THEN "open" ELSE "handler"
      /\ db = "none" /\ rec = "off" /\ cancelled = FALSE /\ how = "none"
  BY DEF ProcessInit, BlobInit
<1>3. TypeOK
  BY <1>1, <1>2 DEF BlobInv, TypeOK, Starting
<1>4. Modes
  BY <1>1, <1>2 DEF Modes, Idle
<1>5. Phases /\ Closes
  BY <1>1, <1>2 DEF Phases, Closes, Starting, Closing
<1> QED
  BY <1>1, <1>3, <1>4, <1>5 DEF IInv

LEMMA RestartKeeps ==
  ASSUME IInv, Restart
  PROVE  IInv'
<1>1. mode' \in {"production", "development"} /\ ProcessInit'
  BY DEF IInv, TypeOK, Restart, ProcessInit, BlobInit
<1>2. (mode \in {"production", "development"} /\ ProcessInit => IInv)'
  BY StartHolds, PTL
<1> QED
  BY <1>1, <1>2

LEMMA StutterKeeps ==
  ASSUME IInv, UNCHANGED vars
  PROVE  IInv'
<1>1. /\ UNCHANGED blobVars
      /\ UNCHANGED <<objects, files, root, closed, pc, mode, main, db, rec, cancelled, how>>
  BY DEF vars, blobVars, procVars
<1>2. BlobInv' /\ (Idle' <=> Idle) /\ Active' = Active
  BY <1>1, SameBlobs DEF IInv, Idle, Active
<1>3. TypeOK' /\ Modes' /\ Phases' /\ Closes'
  BY <1>1, <1>2 DEF IInv, BlobInv, TypeOK, Modes, Phases, Closes
<1> QED
  BY <1>2, <1>3 DEF IInv

LEMMA NextKeeps ==
  ASSUME IInv, [Next]_vars
  PROVE  IInv'
<1>1. CASE MainStep
  BY <1>1, StartUpKeeps, ShutdownKeeps, CloseDatabaseKeeps, CloseBlobsKeeps DEF MainStep
<1>2. CASE ServeFails \/ Signal \/ Restart \/ Reconciled \/ TimerFires \/ LoopReturns
  BY <1>2, ShutdownKeeps, SideStepsKeep, RestartKeeps
<1>3. ASSUME NEW p \in Procs, NEW k \in Keys, NEW request \in Requests \cup {"api"},
             Arrive(p, request, k)
      PROVE  IInv'
  BY <1>3, ArriveKeeps
<1>4. ASSUME NEW p \in Procs, Api(p) \/ HandlerRuns(p) \/ TransferRuns(p)
      PROVE  IInv'
  BY <1>4, RequestRunsKeeps
<1>5. ASSUME NEW k \in Keys, TimePasses(k)
      PROVE  IInv'
  BY <1>5, TimePassesKeeps
<1>6. CASE UNCHANGED vars
  BY <1>6, StutterKeeps
<1> QED
  BY <1>1, <1>2, <1>3, <1>4, <1>5, <1>6 DEF Next

LEMMA Invariance == Spec => []IInv
<1>1. Init => IInv
  BY StartHolds DEF Init
<1>2. IInv /\ [Next]_vars => IInv'
  BY NextKeeps
<1> QED
  BY <1>1, <1>2, PTL DEF Spec

\* The process and its blob store are always of their types.
THEOREM TypeCorrect == Spec => []TypeOK
<1>1. IInv => TypeOK
  BY DEF IInv
<1> QED
  BY <1>1, Invariance, PTL

\* Whatever uploads of one key, reads, deletions and Close do between each
\* other's steps, an object has its whole file, a file belongs to an object or
\* to an upload under way, and what was deleted for good does not come back.
THEOREM FilesFollowObjects == Spec => []FilesMatchObjects
<1>1. IInv => FilesMatchObjects
  BY DEF IInv, BlobInv
<1> QED
  BY <1>1, Invariance, PTL

\* However the process ends, at start-up, by a signal, at the timeout or by a
\* failed listener, what it opened is released after its users: the reconciler,
\* the requests that were drained, and the operations on files.
THEOREM ReleasesInOrder == Spec => []ReleasedInOrder
<1>1. IInv => ReleasedInOrder
  <2> SUFFICES ASSUME IInv PROVE ReleasedInOrder
    OBVIOUS
  <2>1. StoresOutliveUsers
    <3>1. db = "closed" \/ closed => main \in Closing \cup {"exited"}
      BY DEF IInv, Phases, Closes, Closing
    <3> QED
      BY <3>1 DEF IInv, Phases, StoresOutliveUsers
  <2>2. DirectoryOutlivesUse
    <3>1. root = "removed" => closed /\ files = {}
      BY DEF IInv, BlobInv, InDirectory
    <3> QED
      BY <3>1 DEF IInv, Closes, DirectoryOutlivesUse
  <2>3. NothingLeft
    BY DEF IInv, TypeOK, Modes, Phases, Closes, NothingLeft
  <2> QED
    BY <2>1, <2>2, <2>3 DEF ReleasedInOrder
<1> QED
  BY <1>1, Invariance, PTL
============================================================================
