---------------------------- MODULE AssetLibrary ----------------------------
(* The asset library of the admin page (useAssetWorkspace.ts) over the pages *)
(* of GET /api/v1/assets: a list that is read page by page while assets come *)
(* and go, is read anew under another filter, and is overtaken by the upload *)
(* that the same page completes.  A list call is answered from one statement *)
(* and its answer taken in later; only the answer of the last call is taken. *)
(*                                                                           *)
(* An asset is a number: the order of the numbers is that of the ids.  When  *)
(* it was created never changes, so that a cursor is the asset it names, and *)
(* rows may be inserted in any order of their creation times.                *)
EXTENDS Naturals, FiniteSets

CONSTANTS
  Ids,        \* a finite set of natural numbers
  Created,    \* created_at of each asset
  PageSize,   \* the limit a page asks for
  MaxUploads, \* bound of the model: uploads that the page sees completed
  Filters     \* status filters the administrator chooses, "" for none

NoAsset == 0
ListParameters ==
  /\ Ids \subseteq Nat \ {NoAsset} /\ IsFiniteSet(Ids)
  /\ Created \in [Ids -> Nat] /\ PageSize \in Nat \ {0} /\ MaxUploads \in Nat
  /\ Filters \subseteq {"", "pending", "ready", "deleted"} /\ "" \in Filters

VARIABLES
  rows,       \* table assets: the status of each asset
  filter,     \* statusFilter
  shown,      \* assets: the status the page shows of each asset
  cursor,     \* nextCursor
  listing,    \* the last call of listAssets, while it loads
  older,      \* an answer on its way when its call was replaced (the last one)
  upload,     \* the page's upload
  since,      \* history: assets of the filter ever since the list was asked for
  confirmed   \* history: assets this page was answered are ready

listVars == <<rows, filter, shown, cursor, listing, older, upload, since, confirmed>>

Listing == [Ids -> {"none", "pending", "ready", "deleted"}]
Nothing == [id \in Ids |-> "none"]

\* The list call asks for the page after cursor if it loads more, and for the
\* first page otherwise.  answered: the server has, with page and then the
\* assets from next on; done: uploadsDuringList; since: see the variable.
Call == [op : {"none", "first", "more"}, answered : BOOLEAN, page : Listing,
         next : Ids \cup {NoAsset}, done : SUBSET Ids, since : SUBSET Ids]
NoListCall == [op |-> "none", answered |-> FALSE, page |-> Nothing, next |-> NoAsset,
               done |-> {}, since |-> {}]
Upload == [step : {"none", "created", "confirmed"}, id : Ids \cup {NoAsset}]
NoUpload == [step |-> "none", id |-> NoAsset]

----------------------------------------------------------------------------
\* The server: one page of the descending order of creation time and id.

Before(id, boundary) ==
  \/ Created[id] < Created[boundary]
  \/ Created[id] = Created[boundary] /\ id < boundary

Statuses(status) == IF status = "" THEN {"pending", "ready"} ELSE {status}

\* Mutant of Matching: the next page starts at the next creation time.
MatchingByTime(after) ==
  {id \in Ids : rows[id] \in Statuses(filter) /\ (after = NoAsset \/ Created[id] < Created[after])}

\* after: the asset the request's cursor names, which may be gone.
Matching(after) ==
  {id \in Ids : rows[id] \in Statuses(filter) /\ (after = NoAsset \/ Before(id, after))}

Newest(ids, n) == {id \in ids : Cardinality({other \in ids : Before(id, other)}) < n}

\* One row more than the page tells whether there is a next page.
Found == Matching(IF listing.op = "more" THEN cursor ELSE NoAsset)
Items == Newest(Found, PageSize)
NextCursor == IF Items = Found THEN NoAsset
              ELSE CHOOSE last \in Items : \A id \in Items : id = last \/ Before(last, id)

ListHandled ==
  /\ listing.op # "none" /\ ~listing.answered
  /\ listing' = [listing EXCEPT !.answered = TRUE, !.next = NextCursor,
       !.page = [id \in Ids |-> IF id \in Items THEN rows[id] ELSE "none"]]
  /\ UNCHANGED <<rows, filter, shown, cursor, older, upload, since, confirmed>>

\* A row changes: the histories keep the assets that still match.
RowBecomes(id, status) ==
  /\ rows' = [rows EXCEPT ![id] = status]
  /\ since' = {other \in since : rows'[other] \in Statuses(filter)}
  /\ listing' = [listing EXCEPT !.since = {other \in @ : rows'[other] \in Statuses(filter)}]

\* Other administrators, or other pages.
OthersChange(id) ==
  /\ \/ rows[id] = "none" /\ RowBecomes(id, "pending")
     \/ rows[id] = "pending" /\ RowBecomes(id, "ready")
     \/ rows[id] \in {"pending", "ready"} /\ RowBecomes(id, "deleted")
  /\ UNCHANGED <<filter, shown, cursor, older, upload, confirmed>>

----------------------------------------------------------------------------
\* The list of the page.

\* matchesStatus.
Matches(status) == status \in Statuses(filter)
Kept(list) == [id \in Ids |-> IF Matches(list[id]) THEN list[id] ELSE "none"]

Merged(list, incoming) == [id \in Ids |-> IF incoming[id] = "none" THEN list[id] ELSE incoming[id]]

\* Every call has the next listSequence and a new map of completed uploads.
Ask(op, matching) ==
  /\ listing' = [NoListCall EXCEPT !.op = op, !.since = matching]
  /\ older' = IF listing.answered THEN [listing EXCEPT !.since = {}, !.done = {}] ELSE older

LoadAssets ==
  /\ Ask("first", Matching(NoAsset))
  /\ UNCHANGED <<rows, filter, shown, cursor, upload, since, confirmed>>

LoadMore ==
  /\ cursor # NoAsset /\ listing = NoListCall
  /\ Ask("more", {})
  /\ UNCHANGED <<rows, filter, shown, cursor, upload, since, confirmed>>

SetStatusFilter(status) ==
  /\ filter' = status
  /\ shown' = Nothing /\ cursor' = NoAsset /\ since' = {}
  /\ Ask("first", {id \in Ids : rows[id] \in Statuses(status)})
  /\ UNCHANGED <<rows, upload, confirmed>>

\* An upload completed while the call was in flight is newer than its page.
Incoming(answer) ==
  Kept([id \in Ids |-> IF id \in answer.done THEN "ready" ELSE answer.page[id]])

\* The answer of the last call.
ListArrives ==
  /\ listing.answered
  /\ shown' = IF listing.op = "more" THEN Merged(shown, Incoming(listing)) ELSE Incoming(listing)
  /\ cursor' = listing.next
  /\ since' = IF listing.op = "more" THEN since ELSE listing.since
  /\ listing' = NoListCall
  /\ UNCHANGED <<rows, filter, older, upload, confirmed>>

ListFails ==
  /\ listing.op # "none"
  /\ listing' = NoListCall
  /\ UNCHANGED <<rows, filter, shown, cursor, older, upload, since, confirmed>>

\* Mutant of LateAnswer: an answer is not asked which call it belongs to.
LateAnswerTaken ==
  /\ older.answered
  /\ shown' = IF older.op = "more" THEN Merged(shown, Incoming(older)) ELSE Incoming(older)
  /\ cursor' = older.next
  /\ older' = NoListCall
  /\ UNCHANGED <<rows, filter, listing, upload, since, confirmed>>

\* activeList: the answer of a call that was replaced changes nothing.
LateAnswer ==
  /\ older.op # "none"
  /\ older' = NoListCall
  /\ UNCHANGED <<rows, filter, shown, cursor, listing, upload, since, confirmed>>

----------------------------------------------------------------------------
\* The upload of the page.

\* The row is created and the page answered; another upload may be given up.
CreateUpload(id) ==
  /\ rows[id] = "none" /\ Cardinality(confirmed) < MaxUploads
  /\ RowBecomes(id, "pending")
  /\ upload' = [step |-> "created", id |-> id]
  /\ UNCHANGED <<filter, shown, cursor, older, confirmed>>

\* The server completes the upload, also for a repeated request.
CompleteHandled ==
  /\ upload.step = "created" /\ rows[upload.id] \in {"pending", "ready"}
  /\ RowBecomes(upload.id, "ready")
  /\ upload' = [upload EXCEPT !.step = "confirmed"]
  /\ UNCHANGED <<filter, shown, cursor, older, confirmed>>

\* The answer is lost: retryComplete asks again.
CompleteFails ==
  /\ upload.step = "confirmed"
  /\ upload' = [upload EXCEPT !.step = "created"]
  /\ UNCHANGED <<rows, filter, shown, cursor, listing, older, since, confirmed>>

FinishUpload ==
  /\ upload.step = "confirmed"
  /\ shown' = Kept([shown EXCEPT ![upload.id] = "ready"])
  /\ listing' = IF listing = NoListCall THEN listing ELSE [listing EXCEPT !.done = @ \cup {upload.id}]
  /\ confirmed' = confirmed \cup {upload.id}
  /\ upload' = NoUpload
  /\ UNCHANGED <<rows, filter, cursor, older, since>>

----------------------------------------------------------------------------
ListInit ==
  /\ rows = Nothing
  /\ filter = "" /\ shown = Nothing /\ cursor = NoAsset
  /\ listing = NoListCall /\ older = NoListCall /\ upload = NoUpload
  /\ since = {} /\ confirmed = {}

ListNext ==
  \/ ListHandled \/ \E id \in Ids : OthersChange(id)
  \/ LoadAssets \/ LoadMore \/ \E status \in Filters : SetStatusFilter(status)
  \/ ListArrives \/ ListFails \/ LateAnswer
  \/ \E id \in Ids : CreateUpload(id)
  \/ CompleteHandled \/ CompleteFails \/ FinishUpload

ListSpec == ListInit /\ [][ListNext]_listVars

----------------------------------------------------------------------------
\* Variables are of their types; a page after another is asked for after a
\* cursor, and only a call that loads is answered or told of uploads.
ListTypeOK ==
  /\ rows \in Listing /\ filter \in Filters /\ shown \in Listing
  /\ cursor \in Ids \cup {NoAsset} /\ listing \in Call /\ older \in Call /\ upload \in Upload
  /\ since \subseteq Ids /\ confirmed \subseteq Ids
  /\ listing.op = "none" => listing = NoListCall
  /\ listing.op = "more" => cursor # NoAsset
  /\ older.op = "none" => older = NoListCall
  /\ upload.step = "none" <=> upload.id = NoAsset

\* A page that lists deleted assets drops one that was deleted after its upload
\* was confirmed and before this page is told so (finishUpload).
Overtaken(id) == filter = "deleted" /\ id \in confirmed

\* Reading page by page skips nothing: an asset that matches the filter ever
\* since the list was asked for is shown, or is after the cursor, although
\* assets of the same time, and the one the cursor names, come and go.
NothingSkipped ==
  \A id \in since : shown[id] # "none" \/ (cursor # NoAsset /\ Before(id, cursor)) \/ Overtaken(id)

\* The list holds what the filter says, and nothing of another filter's list.
ShownMatchesFilter == \A id \in Ids : shown[id] \in {"none"} \cup Statuses(filter)

\* What this page was told is ready is not shown as pending by a list that was
\* read before (useAssetWorkspace.ts 214-215).
ReadyStaysReady == \A id \in confirmed : shown[id] # "pending"

\* The list is of the page's filter and of the page's uploads, whichever answer
\* came last.
ShownIsCurrent == ShownMatchesFilter /\ ReadyStaysReady
============================================================================
