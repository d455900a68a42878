-------------------------- MODULE ReviewWorkflow --------------------------
(* Editors and reviewers working on the same versions through the API.  A   *)
(* client opens a version, works on what it read, and sends the revision it *)
(* read with its next operation; its answer may be lost, so that it retries *)
(* with the old revision.  The publish service appears as an environment    *)
(* that moves approved versions on, without its jobs: EndToEnd shows that   *)
(* Publishing does nothing else to them.                                    *)
EXTENDS ContentVersions

CONSTANTS
  Clients,
  NoView,
  WrittenRevisions   \* bound: revisions of the rows the publish service writes

VARIABLES
  views,      \* what each client last read: a version id, its revision and content
  reviewed    \* history: content on the reviewer's screen at the last approval

vars == <<versions, views, reviewed>>

View == [id : VersionIds, revision : Nat, content : Contents]

\* NoView is something else than a view.
Parameters == NoView \notin View

\* GetVersion: the client keeps what the API returned.
ViewOf(id, version) == [id |-> id, revision |-> version.revision, content |-> version.content]

\* Mutant of Open: a version that is not there is not reported as missing.
OpenMissing(client, id) ==
  /\ views' = [views EXCEPT ![client] = ViewOf(id, versions[id])]
  /\ UNCHANGED <<versions, reviewed>>

Open(client, id) ==
  /\ versions[id] # Absent
  /\ views' = [views EXCEPT ![client] = ViewOf(id, versions[id])]
  /\ UNCHANGED <<versions, reviewed>>

\* The client takes the returned version for its next request, unless the
\* response is lost: then it still holds the revision it sent.
Answered(client, id) ==
  \/ views' = [views EXCEPT ![client] = ViewOf(id, versions'[id])]
  \/ UNCHANGED views

Create(client, id) ==
  /\ \/ \E c \in Contents : CreateNamedDraft(id, c)
     \/ \E source \in VersionIds : CloneVersion(source, id)
  /\ Answered(client, id)
  /\ UNCHANGED reviewed

Update(client) ==
  LET view == views[client] IN
  /\ view # NoView
  /\ \E c \in Contents : UpdateDraft(view.id, view.revision, c)
  /\ Answered(client, view.id)
  /\ UNCHANGED reviewed

Submit(client) ==
  LET view == views[client] IN
  /\ view # NoView
  /\ SubmitReview(view.id, view.revision)
  /\ Answered(client, view.id)
  /\ UNCHANGED reviewed

Reject(client) ==
  LET view == views[client] IN
  /\ view # NoView
  /\ RejectReview(view.id, view.revision)
  /\ Answered(client, view.id)
  /\ UNCHANGED reviewed

Approve(client) ==
  LET view == views[client] IN
  /\ view # NoView
  /\ ApproveReview(view.id, view.revision)
  /\ Answered(client, view.id)
  /\ reviewed' = [reviewed EXCEPT ![view.id] = view.content]

\* The publish service admits an approved version, or releases its target.
Admit(id) ==
  /\ CanTransition(versions[id].status, "publishing", versions[id].approved)
  /\ versions' = [versions EXCEPT ![id] = Admitted(@)]

Release(id) ==
  /\ versions[id].status = "publishing"
  /\ \E preserve \in BOOLEAN : versions' = [versions EXCEPT ![id] = Released(@, preserve)]

\* It publishes the target of a publish or a rollback, and in the same
\* transaction archives the version that was published until then.
Promote(id) ==
  /\ versions[id].status \in {"publishing", "archived", "published"}
  /\ \/ versions' = [versions EXCEPT ![id] = Promoted(@)]
     \/ \E replaced \in VersionIds \ {id} :
          /\ versions[replaced].status = "published"
          /\ versions[replaced].revision \in WrittenRevisions
          /\ versions' = [versions EXCEPT ![id] = Promoted(@), ![replaced] = Archived(@)]

PublishService(id) ==
  /\ versions[id].revision \in WrittenRevisions
  /\ Admit(id) \/ Release(id) \/ Promote(id)
  /\ UNCHANGED <<views, reviewed>>

Init ==
  /\ VersionsInit
  /\ views = [client \in Clients |-> NoView]
  /\ reviewed = [id \in VersionIds |-> NoContent]

Next ==
  \/ \E client \in Clients, id \in VersionIds : Open(client, id) \/ Create(client, id)
  \/ \E client \in Clients :
       Update(client) \/ Submit(client) \/ Approve(client) \/ Reject(client)
  \/ \E id \in VersionIds : PublishService(id)

Spec == Init /\ [][Next]_vars

----------------------------------------------------------------------------
\* Versions, views and review history are of their types.
TypeOK ==
  /\ VersionsTypeOK
  /\ views \in [Clients -> View \cup {NoView}]
  /\ reviewed \in [VersionIds -> Contents \cup {NoContent}]

\* An approval is an approval of the content the reviewer read: no update,
\* resubmission or publish slips other content under it.  (ApproveReview takes
\* only a revision; UpdateDraft must be impossible once a review is open.)
ApprovedContentWasRead ==
  \A id \in VersionIds : versions[id].approved => versions[id].content = reviewed[id]

\* A revision names one content: a client holding the current revision of a
\* version holds its current content.  (mutate's revision + 1 and its CAS.)
RevisionNamesContent ==
  \A client \in Clients :
    LET view == views[client] IN
    view # NoView /\ view.revision = versions[view.id].revision
      => view.content = versions[view.id].content

\* Nobody overwrites a change they have not seen: the client whose update goes
\* through holds the version as it is, content included, whatever others hold;
\* and content changes in no other way.  (UpdateDraft compares revisions only.)
NoLostUpdate ==
  [][/\ \A client \in Clients : Update(client) =>
          views[client] = ViewOf(views[client].id, versions[views[client].id])
     /\ \A id \in VersionIds :
          versions[id] # Absent /\ versions'[id].content # versions[id].content
            => \E client \in Clients : Update(client) /\ views[client].id = id]_vars

\* What was published is what can be rolled back to: the content of a version
\* never changes again once it has been published.
PublishedContentIsFinal ==
  [][\A id \in VersionIds :
       versions[id].status \in {"published", "archived"}
         => /\ versions'[id].status \in {"published", "archived"}
            /\ versions'[id].content = versions[id].content]_vars
============================================================================
