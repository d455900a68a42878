-------------------------- MODULE ContentVersions --------------------------
(* Content versions of the site and the operations that change one of them. *)
(* Every operation of content.Service runs in one transaction whose update  *)
(* is a compare-and-swap on the revision, so it is one action here.  The    *)
(* operators on a version record that the publish service applies inside    *)
(* its own transactions are defined here too, and used by Publishing.       *)
(*                                                                          *)
(* A snapshot is a member of Contents: it stands for its canonical JSON,    *)
(* and so also for the SHA-256 checksum and the snapshot key derived from   *)
(* it.  Names, authors, timestamps and audit rows are left out.             *)
EXTENDS Naturals

CONSTANTS
  VersionIds,   \* identifiers service.newID("ver_") can still hand out
  Contents,     \* canonical snapshots an editor may send
  NoContent,    \* content of a version that does not exist yet
  MaxRevision   \* bound: no content operation goes beyond this revision

ASSUME NoContentAssumption == NoContent \notin Contents
ASSUME MaxRevisionAssumption == MaxRevision \in Nat

VARIABLE versions   \* table content_versions, by version id

Statuses == {"draft", "in_review", "publishing", "published", "archived"}

Version == [status : Statuses \cup {"absent"}, revision : Nat,
            content : Contents \cup {NoContent}, approved : BOOLEAN]

Absent == [status |-> "absent", revision |-> 0, content |-> NoContent, approved |-> FALSE]

\* The row that creating or cloning a version inserts.
NewDraft(c) == [status |-> "draft", revision |-> 1, content |-> c, approved |-> FALSE]

\* domain.CanTransition, without the published/archived rows nobody asks about.
CanTransition(from, to, approved) ==
  \/ from = "draft" /\ to = "in_review"
  \/ from = "in_review" /\ to = "draft" /\ ~approved
  \/ from = "in_review" /\ to \in {"published", "publishing"} /\ approved
  \/ from = "publishing" /\ to \in {"in_review", "published"} /\ approved
  \/ from = "published" /\ to = "archived"

----------------------------------------------------------------------------
\* What the publish service writes to a version, always with revision + 1.

Admitted(version) == [version EXCEPT !.status = "publishing", !.revision = @ + 1]
Promoted(version) == [version EXCEPT !.status = "published", !.revision = @ + 1]
Archived(version) == [version EXCEPT !.status = "archived", !.revision = @ + 1]

\* releasePublishTarget; its early return leaves any other status alone.
Released(version, preserveApproval) ==
  IF version.status # "publishing" THEN version
  ELSE [version EXCEPT !.status = IF preserveApproval THEN "in_review" ELSE "draft",
                       !.approved = IF preserveApproval THEN @ ELSE FALSE,
                       !.revision = @ + 1]

----------------------------------------------------------------------------
\* The operations of content.Service; expected is the revision the client sent.

CreateNamedDraft(id, c) ==
  /\ versions[id] = Absent
  /\ versions' = [versions EXCEPT ![id] = NewDraft(c)]

\* A clone copies the content of a version in any status, and no approval.
CloneVersion(source, id) ==
  /\ versions[source] # Absent
  /\ versions[id] = Absent
  /\ versions' = [versions EXCEPT ![id] = NewDraft(versions[source].content)]

\* Mutant of Mutate: the revision the client sent is not compared.
MutateAnyRevision(id, expected, changed) ==
  /\ versions[id] # Absent
  /\ versions[id].revision < MaxRevision
  /\ versions' = [versions EXCEPT ![id] = [changed EXCEPT !.revision = @ + 1]]

\* mutate: refuse a stale revision, apply the change, advance the revision.
Mutate(id, expected, changed) ==
  /\ versions[id] # Absent
  /\ versions[id].revision = expected
  /\ expected < MaxRevision
  /\ versions' = [versions EXCEPT ![id] = [changed EXCEPT !.revision = @ + 1]]

\* Mutant of UpdateDraft: the status is not checked.
UpdateAnyStatus(id, expected, c) ==
  Mutate(id, expected, [versions[id] EXCEPT !.content = c])

UpdateDraft(id, expected, c) ==
  /\ versions[id].status = "draft"
  /\ Mutate(id, expected, [versions[id] EXCEPT !.content = c])

SubmitReview(id, expected) ==
  /\ CanTransition(versions[id].status, "in_review", versions[id].approved)
  /\ Mutate(id, expected, [versions[id] EXCEPT !.status = "in_review", !.approved = FALSE])

ApproveReview(id, expected) ==
  /\ versions[id].status = "in_review"
  /\ ~versions[id].approved
  /\ Mutate(id, expected, [versions[id] EXCEPT !.approved = TRUE])

RejectReview(id, expected) ==
  /\ CanTransition(versions[id].status, "draft", versions[id].approved)
  /\ Mutate(id, expected, [versions[id] EXCEPT !.status = "draft", !.approved = FALSE])

VersionsTypeOK == versions \in [VersionIds -> Version]
VersionsInit == versions = [id \in VersionIds |-> Absent]
============================================================================
