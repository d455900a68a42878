----------------------- MODULE ReviewWorkflow_proofs -----------------------
(* Proofs about ReviewWorkflow for every set of versions, snapshots and     *)
(* clients.                                                                 *)
EXTENDS ReviewWorkflow, TLAPS

\* A row is Absent or has a snapshot, and a draft is not approved.
Sound(version) ==
  /\ version \in Version
  /\ version.status = "absent" => version = Absent
  /\ version.status # "absent" => version.content \in Contents
  /\ version.approved => version.status \notin {"absent", "draft"}

\* What a client holds was true once: its version is there, at the revision it
\* holds or a later one, and at that revision it has the content it holds.
ViewsWereTrue ==
  \A client \in Clients :
    views[client] # NoView =>
      /\ versions[views[client].id].status # "absent"
      /\ views[client].revision \leq versions[views[client].id].revision
      /\ views[client].revision = versions[views[client].id].revision
           => views[client].content = versions[views[client].id].content

IInv ==
  /\ TypeOK
  /\ \A id \in VersionIds : Sound(versions[id])
  /\ ViewsWereTrue
  /\ ApprovedContentWasRead

\* What any operation does to the table: one row becomes a sound one, and a row
\* that was there goes to its next revision.
Edits(id) ==
  /\ versions' = [versions EXCEPT ![id] = versions'[id]]
  /\ Sound(versions'[id]) /\ versions'[id].status # "absent"
  /\ versions[id].status # "absent" => versions'[id].revision = versions[id].revision + 1

----------------------------------------------------------------------------
\* mutate is an edit if the change keeps the row sound.
LEMMA MutateEdits ==
  ASSUME IInv, NEW id \in VersionIds, NEW expected, NEW row, Mutate(id, expected, row),
         Sound(row), row.status # "absent", row.revision = versions[id].revision
  PROVE  /\ Edits(id) /\ versions[id].revision = expected
         /\ versions'[id].status = row.status
         /\ versions'[id].content = row.content
         /\ versions'[id].approved = row.approved
<1>1. versions \in [VersionIds -> Version]
  BY DEF IInv, TypeOK, VersionsTypeOK
<1>2. versions'[id] = [row EXCEPT !.revision = @ + 1]
  BY <1>1 DEF Mutate
<1>3. row \in Version
  BY DEF Sound
<1>4. /\ versions'[id] \in Version
      /\ versions'[id].revision = versions[id].revision + 1
      /\ versions'[id].status = row.status
      /\ versions'[id].content = row.content
      /\ versions'[id].approved = row.approved
  BY <1>2, <1>3 DEF Version
<1>5. Sound(versions'[id])
  BY <1>4 DEF Sound
<1>6. versions' = [versions EXCEPT ![id] = versions'[id]]
  BY <1>1, <1>2 DEF Mutate
<1> QED BY <1>4, <1>5, <1>6 DEF Mutate, Edits

\* Creating and cloning insert a sound row.
LEMMA CreateEdits ==
  ASSUME IInv, NEW id \in VersionIds,
         \/ \E c \in Contents : CreateNamedDraft(id, c)
         \/ \E source \in VersionIds : CloneVersion(source, id)
  PROVE  Edits(id) /\ versions[id] = Absent /\ ~versions'[id].approved
<1>1. versions \in [VersionIds -> Version]
  BY DEF IInv, TypeOK, VersionsTypeOK
<1>2. PICK c \in Contents : versions[id] = Absent /\ versions' = [versions EXCEPT ![id] = NewDraft(c)]
  <2>1. CASE \E c \in Contents : CreateNamedDraft(id, c)
    BY <2>1 DEF CreateNamedDraft
  <2>2. CASE \E source \in VersionIds : CloneVersion(source, id)
    <3>1. PICK source \in VersionIds : CloneVersion(source, id)
      BY <2>2
    <3>2. versions[source].status # "absent" /\ versions[source].content \in Contents
      BY <3>1 DEF CloneVersion, IInv, Sound
    <3> QED BY <3>1, <3>2 DEF CloneVersion
  <2> QED BY <2>1, <2>2
<1>3. versions'[id] = NewDraft(c)
  BY <1>1, <1>2
<1>4. Sound(NewDraft(c)) /\ NewDraft(c).status = "draft" /\ ~NewDraft(c).approved
  BY DEF Sound, NewDraft, Version, Statuses
<1>5. versions[id].status = "absent"
  BY <1>2 DEF Absent
<1> QED BY <1>1, <1>2, <1>3, <1>4, <1>5 DEF Edits

\* UpdateDraft replaces the content of a draft, which stays one ...
LEMMA UpdateEdits ==
  ASSUME IInv, NEW id \in VersionIds, NEW expected, NEW c \in Contents, UpdateDraft(id, expected, c)
  PROVE  /\ Edits(id) /\ versions[id].revision = expected
         /\ versions[id].status = "draft" /\ ~versions'[id].approved
<1> DEFINE row == [versions[id] EXCEPT !.content = c]
<1>1. Sound(versions[id]) /\ versions[id].status = "draft" /\ Mutate(id, expected, row)
  BY DEF IInv, UpdateDraft
<1>2. /\ Sound(row) /\ row.status = "draft" /\ row.revision = versions[id].revision
      /\ ~row.approved
  BY <1>1 DEF Sound, Version
<1> HIDE DEF row
<1> QED BY <1>1, <1>2, MutateEdits

\* ... and the operations of a review keep the content, and what was published.
LEMMA ReviewEdits ==
  ASSUME IInv, NEW id \in VersionIds, NEW expected,
         SubmitReview(id, expected) \/ RejectReview(id, expected) \/ ApproveReview(id, expected)
  PROVE  /\ Edits(id) /\ versions[id].revision = expected
         /\ versions'[id].content = versions[id].content
         /\ versions[id].status \in {"draft", "in_review", "publishing"}
         /\ SubmitReview(id, expected) \/ RejectReview(id, expected) => ~versions'[id].approved
<1>1. Sound(versions[id])
  BY DEF IInv
<1>2. ASSUME NEW status \in {"draft", "in_review"}, NEW approved \in BOOLEAN,
             versions[id].status \in {"draft", "in_review", "publishing"}, approved => status = "in_review",
             Mutate(id, expected, [versions[id] EXCEPT !.status = status, !.approved = approved])
      PROVE  /\ Edits(id) /\ versions[id].revision = expected
             /\ versions'[id].content = versions[id].content
             /\ versions'[id].approved = approved
  <2> DEFINE row == [versions[id] EXCEPT !.status = status, !.approved = approved]
  <2>1. /\ Sound(row) /\ row.status = status /\ row.revision = versions[id].revision
        /\ row.content = versions[id].content /\ row.approved = approved
    BY <1>1, <1>2 DEF Sound, Version, Statuses
  <2>2. Mutate(id, expected, row)
    BY <1>2
  <2> HIDE DEF row
  <2> QED BY <1>2, <2>1, <2>2, MutateEdits
<1>3. CASE SubmitReview(id, expected)
  BY <1>2, <1>3 DEF SubmitReview, CanTransition
<1>4. CASE RejectReview(id, expected)
  BY <1>2, <1>4 DEF RejectReview, CanTransition
<1>5. CASE ApproveReview(id, expected) /\ ~(SubmitReview(id, expected) \/ RejectReview(id, expected))
  <2>1. [versions[id] EXCEPT !.approved = TRUE]
          = [versions[id] EXCEPT !.status = "in_review", !.approved = TRUE]
    BY <1>1, <1>5 DEF ApproveReview, Sound, Version
  <2> QED BY <1>2, <1>5, <2>1 DEF ApproveReview
<1> QED BY <1>3, <1>4, <1>5

\* What the publish service writes to a row.
LEMMA WrittenRows ==
  ASSUME NEW version \in Version, NEW b \in BOOLEAN
  PROVE  /\ \A new \in {Admitted(version), Promoted(version), Archived(version)} :
              /\ new \in Version /\ new.revision = version.revision + 1
              /\ new.content = version.content /\ (new.approved <=> version.approved)
         /\ Admitted(version).status = "publishing" /\ Promoted(version).status = "published"
         /\ Archived(version).status = "archived"
         /\ version.status = "publishing" =>
              LET new == Released(version, b) IN
              /\ new \in Version /\ new.revision = version.revision + 1
              /\ new.content = version.content
              /\ new.status = (IF b THEN "in_review" ELSE "draft")
              /\ new.approved <=> b /\ version.approved
<1>1. /\ version.revision + 1 \in Nat
      /\ version.content \in Contents \cup {NoContent}
      /\ version.approved \in BOOLEAN
      /\ version = [status |-> version.status, revision |-> version.revision,
                    content |-> version.content, approved |-> version.approved]
  BY DEF Version
<1>2. ASSUME NEW status \in Statuses, NEW approved \in BOOLEAN
      PROVE  LET new == [version EXCEPT !.status = status, !.approved = approved, !.revision = @ + 1] IN
             /\ new \in Version /\ new.revision = version.revision + 1
             /\ new.content = version.content /\ new.status = status /\ (new.approved <=> approved)
  BY <1>1, <1>2 DEF Version
<1>3. ASSUME NEW status \in Statuses
      PROVE  LET new == [version EXCEPT !.status = status, !.revision = @ + 1] IN
             /\ new \in Version /\ new.revision = version.revision + 1
             /\ new.content = version.content /\ new.status = status /\ (new.approved <=> version.approved)
  BY <1>1, <1>3 DEF Version
<1>4. \A new \in {Admitted(version), Promoted(version), Archived(version)} :
        /\ new \in Version /\ new.revision = version.revision + 1
        /\ new.content = version.content /\ (new.approved <=> version.approved)
  BY <1>3 DEF Statuses, Admitted, Promoted, Archived
<1>5. /\ Admitted(version).status = "publishing" /\ Promoted(version).status = "published"
      /\ Archived(version).status = "archived"
  BY <1>3 DEF Statuses, Admitted, Promoted, Archived
<1>6. ASSUME version.status = "publishing"
      PROVE  LET new == Released(version, b) IN
             /\ new \in Version /\ new.revision = version.revision + 1
             /\ new.content = version.content
             /\ new.status = (IF b THEN "in_review" ELSE "draft")
             /\ new.approved <=> b /\ version.approved
  <2>1. CASE b
    <3>1. Released(version, b) = [version EXCEPT !.status = "in_review", !.revision = @ + 1]
      BY <1>1, <1>6, <2>1 DEF Released
    <3>2. LET new == [version EXCEPT !.status = "in_review", !.revision = @ + 1] IN
          /\ new \in Version /\ new.revision = version.revision + 1
          /\ new.content = version.content /\ new.status = "in_review" /\ (new.approved <=> version.approved)
      BY <1>3 DEF Statuses
    <3> QED BY <2>1, <3>1, <3>2
  <2>2. CASE ~b
    <3>1. Released(version, b) = [version EXCEPT !.status = "draft", !.approved = FALSE,
                                                 !.revision = @ + 1]
      BY <1>6, <2>2 DEF Released
    <3>2. LET new == [version EXCEPT !.status = "draft", !.approved = FALSE, !.revision = @ + 1] IN
          /\ new \in Version /\ new.revision = version.revision + 1
          /\ new.content = version.content /\ new.status = "draft" /\ ~new.approved
      BY <1>2 DEF Statuses
    <3> QED BY <2>2, <3>1, <3>2
  <2> QED BY <2>1, <2>2
<1> QED BY <1>4, <1>5, <1>6

\* What the publish service may make of a row: its next revision, of the same
\* content, with no approval it did not have, and published for good.
Keeps(old, new) ==
  /\ old.status # "absent" /\ new.status # "absent"
  /\ new.revision = old.revision + 1
  /\ new.content = old.content
  /\ new.approved => old.approved
  /\ old.status \in {"published", "archived"} => new.status \in {"published", "archived"}

Stays(i) == versions'[i] = versions[i]
MovesOn(i) == Sound(versions'[i]) /\ Keeps(versions[i], versions'[i])

LEMMA WrittenKeeps ==
  ASSUME NEW version, Sound(version)
  PROVE  /\ CanTransition(version.status, "publishing", version.approved)
              => Sound(Admitted(version)) /\ Keeps(version, Admitted(version))
         /\ version.status \in {"publishing", "archived", "published"}
              => Sound(Promoted(version)) /\ Keeps(version, Promoted(version))
         /\ version.status = "published"
              => Sound(Archived(version)) /\ Keeps(version, Archived(version))
         /\ version.status = "publishing" => \A b \in BOOLEAN :
              Sound(Released(version, b)) /\ Keeps(version, Released(version, b))
<1>1. /\ version \in Version
      /\ version.status # "absent" => version.content \in Contents
      /\ version.approved => version.status \notin {"absent", "draft"}
  BY DEF Sound
<1>2. ASSUME version.status # "absent", NEW new \in Version, new.revision = version.revision + 1,
             new.content = version.content, new.status # "absent", new.approved => version.approved,
             new.approved => new.status # "draft",
             version.status \in {"published", "archived"} => new.status \in {"published", "archived"}
      PROVE  Sound(new) /\ Keeps(version, new)
  BY <1>1, <1>2 DEF Sound, Keeps
<1>3. CanTransition(version.status, "publishing", version.approved) => version.status = "in_review"
  BY DEF CanTransition
<1>4. \A b \in BOOLEAN : version.status = "publishing" =>
        Sound(Released(version, b)) /\ Keeps(version, Released(version, b))
  BY <1>1, <1>2, WrittenRows
<1>5. /\ \A new \in {Admitted(version), Promoted(version), Archived(version)} :
           /\ new \in Version /\ new.revision = version.revision + 1
           /\ new.content = version.content /\ (new.approved <=> version.approved)
      /\ Admitted(version).status = "publishing" /\ Promoted(version).status = "published"
      /\ Archived(version).status = "archived"
  <2>1. TRUE \in BOOLEAN
    OBVIOUS
  <2> QED BY <1>1, <2>1, WrittenRows
<1>6. version.status = "in_review" => Sound(Admitted(version)) /\ Keeps(version, Admitted(version))
  BY <1>2, <1>5
<1>7. version.status \in {"publishing", "archived", "published"}
        => Sound(Promoted(version)) /\ Keeps(version, Promoted(version))
  BY <1>2, <1>5
<1>8. version.status = "published" => Sound(Archived(version)) /\ Keeps(version, Archived(version))
  BY <1>2, <1>5
<1> QED BY <1>3, <1>4, <1>6, <1>7, <1>8

\* The publish service writes one row, or the row of its target and that of the
\* version its target replaces.
LEMMA PublishEdits ==
  ASSUME IInv, NEW id \in VersionIds, PublishService(id)
  PROVE  /\ versions' \in [VersionIds -> Version]
         /\ \A i \in VersionIds : Stays(i) \/ MovesOn(i)
<1>1. versions \in [VersionIds -> Version] /\ \A i \in VersionIds : Sound(versions[i])
  BY DEF IInv, TypeOK, VersionsTypeOK
<1>2. ASSUME NEW new, Sound(new), Keeps(versions[id], new), versions' = [versions EXCEPT ![id] = new]
      PROVE  /\ versions' \in [VersionIds -> Version]
             /\ \A i \in VersionIds : Stays(i) \/ MovesOn(i)
  <2>1. new \in Version
    BY <1>2 DEF Sound
  <2> QED BY <1>1, <1>2, <2>1 DEF Stays, MovesOn
<1>3. CASE Admit(id)
  BY <1>1, <1>2, <1>3, WrittenKeeps DEF Admit
<1>4. CASE Release(id)
  BY <1>1, <1>2, <1>4, WrittenKeeps DEF Release
<1>5. ASSUME versions[id].status \in {"publishing", "archived", "published"},
             versions' = [versions EXCEPT ![id] = Promoted(@)]
      PROVE  /\ versions' \in [VersionIds -> Version]
             /\ \A i \in VersionIds : Stays(i) \/ MovesOn(i)
  BY <1>1, <1>2, <1>5, WrittenKeeps
<1>6. ASSUME versions[id].status \in {"publishing", "archived", "published"},
             NEW replaced \in VersionIds \ {id}, versions[replaced].status = "published",
             versions' = [versions EXCEPT ![id] = Promoted(@), ![replaced] = Archived(@)]
      PROVE  /\ versions' \in [VersionIds -> Version]
             /\ \A i \in VersionIds : Stays(i) \/ MovesOn(i)
  <2>1. /\ Sound(Promoted(versions[id])) /\ Keeps(versions[id], Promoted(versions[id]))
        /\ Sound(Archived(versions[replaced])) /\ Keeps(versions[replaced], Archived(versions[replaced]))
    BY <1>1, <1>6, WrittenKeeps
  <2>2. Promoted(versions[id]) \in Version /\ Archived(versions[replaced]) \in Version
    BY <2>1 DEF Sound
  <2>3. /\ versions'[id] = Promoted(versions[id]) /\ versions'[replaced] = Archived(versions[replaced])
        /\ \A i \in VersionIds \ {id, replaced} : versions'[i] = versions[i]
        /\ versions' \in [VersionIds -> Version]
    BY <1>1, <1>6, <2>2
  <2> QED BY <2>1, <2>3 DEF Stays, MovesOn
<1> QED BY <1>3, <1>4, <1>5, <1>6 DEF PublishService, Promote

----------------------------------------------------------------------------
\* An edit keeps the rows sound, and the views true, whether or not the client
\* gets the answer.
LEMMA EditKeeps ==
  ASSUME IInv, NEW id \in VersionIds, Edits(id),
         UNCHANGED views \/ \E client \in Clients : Answered(client, id)
  PROVE  /\ VersionsTypeOK' /\ views' \in [Clients -> View \cup {NoView}]
         /\ \A i \in VersionIds : Sound(versions'[i])
         /\ ViewsWereTrue'
<1>1. /\ versions \in [VersionIds -> Version] /\ views \in [Clients -> View \cup {NoView}]
      /\ \A i \in VersionIds : Sound(versions[i])
  BY DEF IInv, TypeOK, VersionsTypeOK
<1>2. /\ Sound(versions'[id]) /\ versions'[id].status # "absent"
      /\ \A i \in VersionIds \ {id} : versions'[i] = versions[i]
      /\ versions' \in [VersionIds -> Version]
  BY <1>1 DEF Edits, Sound
<1>3. \A i \in VersionIds : Sound(versions'[i])
  BY <1>1, <1>2
<1>4. ASSUME NEW client \in Clients, views[client] # NoView
      PROVE  /\ versions'[views[client].id].status # "absent"
             /\ views[client].revision \leq versions'[views[client].id].revision
             /\ views[client].revision = versions'[views[client].id].revision
                  => views[client].content = versions'[views[client].id].content
  <2>1. /\ views[client].id \in VersionIds /\ views[client].revision \in Nat
        /\ versions[views[client].id].revision \in Nat
    BY <1>1, <1>4 DEF View, Version
  <2>2. CASE views[client].id # id
    BY <1>2, <1>4, <2>1, <2>2 DEF IInv, ViewsWereTrue
  <2>3. CASE views[client].id = id
    <3>1. /\ versions[id].status # "absent" /\ views[client].revision \leq versions[id].revision
      BY <1>4, <2>3 DEF IInv, ViewsWereTrue
    <3>2. versions'[id].revision = versions[id].revision + 1
      BY <3>1 DEF Edits
    <3> QED BY <1>2, <2>1, <2>3, <3>1, <3>2
  <2> QED BY <2>2, <2>3
<1>5. LET seen == ViewOf(id, versions'[id])
      IN /\ seen \in View /\ seen.id = id /\ seen.revision = versions'[id].revision
         /\ seen.content = versions'[id].content /\ seen.revision \in Nat
  BY <1>2 DEF ViewOf, View, Sound, Version
<1>6. CASE UNCHANGED views
  BY <1>1, <1>2, <1>3, <1>4, <1>6 DEF ViewsWereTrue, VersionsTypeOK
<1>7. ASSUME NEW client \in Clients, views' = [views EXCEPT ![client] = ViewOf(id, versions'[id])]
      PROVE  views' \in [Clients -> View \cup {NoView}] /\ ViewsWereTrue'
  <2>1. /\ views'[client] = ViewOf(id, versions'[id])
        /\ \A other \in Clients \ {client} : views'[other] = views[other]
        /\ views' \in [Clients -> View \cup {NoView}]
    BY <1>1, <1>5, <1>7
  <2> QED BY <1>2, <1>4, <1>5, <2>1 DEF ViewsWereTrue
<1> QED BY <1>2, <1>3, <1>6, <1>7 DEF Answered, VersionsTypeOK

\* So does what the publish service writes.
LEMMA PublishKeeps ==
  ASSUME IInv, NEW id \in VersionIds, PublishService(id)
  PROVE  IInv'
<1>1. /\ versions \in [VersionIds -> Version] /\ views \in [Clients -> View \cup {NoView}]
      /\ reviewed \in [VersionIds -> Contents \cup {NoContent}]
      /\ \A i \in VersionIds : Sound(versions[i])
      /\ UNCHANGED <<views, reviewed>>
  BY DEF IInv, TypeOK, VersionsTypeOK, PublishService
<1>2. /\ versions' \in [VersionIds -> Version]
      /\ \A i \in VersionIds : Stays(i) \/ MovesOn(i)
  BY PublishEdits
<1>3. ApprovedContentWasRead'
  BY <1>1, <1>2 DEF IInv, ApprovedContentWasRead, Stays, MovesOn, Keeps
<1>4. ViewsWereTrue'
  <2> SUFFICES ASSUME NEW client \in Clients, views[client] # NoView
               PROVE  LET i == views[client].id IN
                      /\ versions'[i].status # "absent"
                      /\ views[client].revision \leq versions'[i].revision
                      /\ views[client].revision = versions'[i].revision
                           => views[client].content = versions'[i].content
    BY <1>1 DEF ViewsWereTrue
  <2> DEFINE i == views[client].id
  <2>1. i \in VersionIds /\ views[client].revision \in Nat /\ versions[i].revision \in Nat
    BY <1>1 DEF View, Version
  <2>2. /\ versions[i].status # "absent" /\ views[client].revision \leq versions[i].revision
        /\ views[client].revision = versions[i].revision => views[client].content = versions[i].content
    BY DEF IInv, ViewsWereTrue
  <2> QED BY <1>2, <2>1, <2>2 DEF Stays, MovesOn, Keeps
<1>5. \A i \in VersionIds : Sound(versions'[i])
  BY <1>1, <1>2 DEF Stays, MovesOn
<1> QED BY <1>1, <1>2, <1>3, <1>4, <1>5 DEF IInv, TypeOK, VersionsTypeOK

LEMMA InitIInv == Init => IInv
BY DEF Init, VersionsInit, IInv, TypeOK, VersionsTypeOK, Sound, Absent, Version, ViewsWereTrue,
       ApprovedContentWasRead

\* The invariant is inductive: Approve takes the content the client holds, which
\* is the version's because its revision is.
LEMMA NextIInv == IInv /\ [Next]_vars => IInv'
<1> SUFFICES ASSUME IInv, [Next]_vars PROVE IInv'
  OBVIOUS
<1> USE DEF IInv
<1>a. /\ versions \in [VersionIds -> Version] /\ views \in [Clients -> View \cup {NoView}]
      /\ reviewed \in [VersionIds -> Contents \cup {NoContent}]
  BY DEF TypeOK, VersionsTypeOK
<1>b. ASSUME NEW id \in VersionIds, Edits(id), UNCHANGED reviewed,
             versions'[id].approved => versions[id].approved /\ versions'[id].content = versions[id].content
      PROVE  ApprovedContentWasRead' /\ reviewed' \in [VersionIds -> Contents \cup {NoContent}]
  BY <1>a, <1>b DEF Edits, ApprovedContentWasRead
<1>1. ASSUME NEW client \in Clients, NEW id \in VersionIds, Open(client, id) PROVE IInv'
  <2>1. Sound(versions[id]) /\ versions[id].status # "absent"
    BY <1>1 DEF Open, Sound
  <2>2. ViewOf(id, versions[id]) \in View
    BY <2>1 DEF ViewOf, View, Sound, Version
  <2>3. /\ views'[client] = ViewOf(id, versions[id]) /\ UNCHANGED <<versions, reviewed>>
        /\ \A other \in Clients \ {client} : views'[other] = views[other]
        /\ views' \in [Clients -> View \cup {NoView}]
    BY <1>a, <1>1, <2>2 DEF Open
  <2>4. ViewsWereTrue'
    <3>1. versions[id].revision \in Nat
      BY <2>1 DEF Sound, Version
    <3> QED BY <2>1, <2>3, <3>1 DEF ViewsWereTrue, ViewOf
  <2> QED BY <2>3, <2>4 DEF TypeOK, VersionsTypeOK, ApprovedContentWasRead
<1>2. ASSUME NEW client \in Clients, NEW id \in VersionIds, Create(client, id) PROVE IInv'
  <2>1. Edits(id) /\ ~versions'[id].approved
    BY <1>2, CreateEdits DEF Create
  <2> QED BY <1>b, <1>2, <2>1, EditKeeps DEF Create, TypeOK
<1>3. ASSUME NEW client \in Clients, Update(client) PROVE IInv'
  <2>1. views[client].id \in VersionIds
    BY <1>a, <1>3 DEF Update, View
  <2>2. PICK c \in Contents : UpdateDraft(views[client].id, views[client].revision, c)
    BY <1>3 DEF Update
  <2>3. Edits(views[client].id) /\ ~versions'[views[client].id].approved
    BY <2>1, <2>2, UpdateEdits
  <2> QED BY <1>b, <1>3, <2>1, <2>3, EditKeeps DEF Update, TypeOK
<1>4. ASSUME NEW client \in Clients, Submit(client) \/ Reject(client) PROVE IInv'
  <2>1. views[client].id \in VersionIds
    BY <1>a, <1>4 DEF Submit, Reject, View
  <2>2. Edits(views[client].id) /\ ~versions'[views[client].id].approved
    BY <1>4, <2>1, ReviewEdits DEF Submit, Reject
  <2> QED BY <1>b, <1>4, <2>1, <2>2, EditKeeps DEF Submit, Reject, TypeOK
<1>5. ASSUME NEW client \in Clients, Approve(client) PROVE IInv'
  <2> DEFINE id == views[client].id
  <2>1. id \in VersionIds /\ views[client].content \in Contents /\ views[client] # NoView
    BY <1>a, <1>5 DEF Approve, View
  <2>2. /\ Edits(id) /\ versions[id].revision = views[client].revision
        /\ versions'[id].content = versions[id].content
    BY <1>5, <2>1, ReviewEdits DEF Approve
  <2>3. versions'[id].content = views[client].content
    BY <2>1, <2>2 DEF ViewsWereTrue
  <2>4. ApprovedContentWasRead' /\ reviewed' \in [VersionIds -> Contents \cup {NoContent}]
    BY <1>a, <1>5, <2>1, <2>2, <2>3 DEF Approve, ApprovedContentWasRead, Edits
  <2> QED BY <1>5, <2>1, <2>2, <2>4, EditKeeps DEF Approve, TypeOK
<1>6. ASSUME NEW id \in VersionIds, PublishService(id) PROVE IInv'
  BY <1>6, PublishKeeps
<1>7. CASE UNCHANGED vars
  BY <1>7 DEF vars, TypeOK, VersionsTypeOK, ViewsWereTrue, ApprovedContentWasRead
<1> QED BY <1>1, <1>2, <1>3, <1>4, <1>5, <1>6, <1>7 DEF Next


----------------------------------------------------------------------------
LEMMA InvariantHolds == Spec => []IInv
BY InitIInv, NextIInv, PTL DEF Spec

\* Versions, views and review history keep their types.
THEOREM TypeCorrect == Spec => []TypeOK
<1>1. IInv => TypeOK
  BY DEF IInv
<1> QED BY <1>1, InvariantHolds, PTL

\* Whatever clients and the publish service do, and whichever answers are lost,
\* an approval stands for the content its reviewer had read.
THEOREM ApprovalsAreInformed == Spec => []ApprovedContentWasRead
<1>1. IInv => ApprovedContentWasRead
  BY DEF IInv
<1> QED BY <1>1, InvariantHolds, PTL

\* A client that holds the current revision of a version holds its content.
THEOREM RevisionsNameContent == Spec => []RevisionNamesContent
<1>1. IInv => RevisionNamesContent
  BY DEF IInv, ViewsWereTrue, RevisionNamesContent
<1> QED BY <1>1, InvariantHolds, PTL

\* The client that updates has the version it updates on its screen, and there
\* is no other way for the content of a version to change.
THEOREM NoUpdateIsLost == Spec => NoLostUpdate
<1>1. ASSUME IInv, NEW client \in Clients, Update(client)
      PROVE  views[client] = ViewOf(views[client].id, versions[views[client].id])
  <2> DEFINE id == views[client].id
  <2>1. views \in [Clients -> View \cup {NoView}] /\ versions \in [VersionIds -> Version]
    BY <1>1 DEF IInv, TypeOK, VersionsTypeOK
  <2>2. views[client] # NoView /\ views[client] \in View /\ id \in VersionIds
    BY <1>1, <2>1 DEF Update, View
  <2>3. views[client].revision = versions[id].revision
    BY <1>1, <2>1, <2>2, UpdateEdits DEF Update, View
  <2>4. views[client].content = versions[id].content
    BY <1>1, <2>2, <2>3 DEF IInv, ViewsWereTrue
  <2> QED BY <2>2, <2>3, <2>4 DEF View, ViewOf
<1>2. ASSUME IInv, [Next]_vars, NEW id \in VersionIds, versions[id] # Absent,
             versions'[id].content # versions[id].content
      PROVE  \E client \in Clients : Update(client) /\ views[client].id = id
  <2>1. versions \in [VersionIds -> Version] /\ views \in [Clients -> View \cup {NoView}]
    BY <1>2 DEF IInv, TypeOK, VersionsTypeOK
  <2>2. ASSUME NEW i \in VersionIds, Edits(i) PROVE i = id
    BY <1>2, <2>1, <2>2 DEF Edits
  <2>3. \A client \in Clients, i \in VersionIds : ~Open(client, i)
    BY <1>2 DEF Open
  <2>4. ASSUME NEW client \in Clients, NEW i \in VersionIds, Create(client, i) PROVE FALSE
    BY <1>2, <2>2, <2>4, CreateEdits DEF Create
  <2>5. ASSUME NEW client \in Clients, Submit(client) \/ Reject(client) \/ Approve(client) PROVE FALSE
    <3>1. views[client].id \in VersionIds
      BY <2>1, <2>5 DEF Submit, Reject, Approve, View
    <3> QED BY <1>2, <2>2, <2>5, <3>1, ReviewEdits DEF Submit, Reject, Approve
  <2>6. ASSUME NEW i \in VersionIds, PublishService(i) PROVE FALSE
    BY <1>2, <2>6, PublishEdits DEF Stays, MovesOn, Keeps
  <2>7. PICK client \in Clients : Update(client)
    BY <1>2, <2>3, <2>4, <2>5, <2>6 DEF Next, vars
  <2>8. views[client] \in View
    BY <2>1, <2>7 DEF Update
  <2>9. views[client].id = id
    BY <1>2, <2>2, <2>7, <2>8, UpdateEdits DEF Update, View
  <2> QED BY <2>7, <2>9
<1> DEFINE Informed ==
      /\ \A client \in Clients : Update(client) =>
           views[client] = ViewOf(views[client].id, versions[views[client].id])
      /\ \A id \in VersionIds :
           versions[id] # Absent /\ versions'[id].content # versions[id].content
             => \E client \in Clients : Update(client) /\ views[client].id = id
<1>3. IInv /\ [Next]_vars => [Informed]_vars
  BY <1>1, <1>2
<1>4. [][Informed]_vars => NoLostUpdate
  BY DEF NoLostUpdate
<1> HIDE DEF Informed
<1> QED BY <1>3, <1>4, InvariantHolds, PTL DEF Spec

\* What was published, and may be rolled back to, keeps its content for good.
THEOREM PublishedIsFinal == Spec => PublishedContentIsFinal
<1>1. ASSUME IInv, [Next]_vars, NEW id \in VersionIds, versions[id].status \in {"published", "archived"}
      PROVE  /\ versions'[id].status \in {"published", "archived"}
             /\ versions'[id].content = versions[id].content
  <2>1. versions \in [VersionIds -> Version] /\ views \in [Clients -> View \cup {NoView}]
    BY <1>1 DEF IInv, TypeOK, VersionsTypeOK
  <2>2. ASSUME NEW i \in VersionIds, Edits(i), i # id PROVE versions'[id] = versions[id]
    BY <2>1, <2>2 DEF Edits
  <2>3. ASSUME NEW client \in Clients, NEW i \in VersionIds, Open(client, i) \/ Create(client, i)
        PROVE  versions'[id] = versions[id]
    BY <1>1, <2>2, <2>3, CreateEdits DEF Open, Create, Absent
  <2>4. ASSUME NEW client \in Clients,
               Update(client) \/ Submit(client) \/ Reject(client) \/ Approve(client)
        PROVE  versions'[id] = versions[id]
    <3>1. views[client].id \in VersionIds
      BY <2>1, <2>4 DEF Update, Submit, Reject, Approve, View
    <3>2. Edits(views[client].id) /\ versions[views[client].id].status \in {"draft", "in_review", "publishing"}
      BY <1>1, <2>4, <3>1, UpdateEdits, ReviewEdits DEF Update, Submit, Reject, Approve
    <3> QED BY <1>1, <2>2, <3>1, <3>2
  <2>5. ASSUME NEW i \in VersionIds, PublishService(i)
        PROVE  /\ versions'[id].status \in {"published", "archived"}
               /\ versions'[id].content = versions[id].content
    BY <1>1, <2>5, PublishEdits DEF Stays, MovesOn, Keeps
  <2> QED BY <1>1, <2>3, <2>4, <2>5 DEF Next, vars
<1>2. IInv /\ [Next]_vars => [\A id \in VersionIds :
       versions[id].status \in {"published", "archived"}
         => /\ versions'[id].status \in {"published", "archived"}
            /\ versions'[id].content = versions[id].content]_vars
  BY <1>1
<1> QED BY <1>2, InvariantHolds, PTL DEF Spec, PublishedContentIsFinal
============================================================================
