--------------------------- MODULE DocumentControl ---------------------------
(***************************************************************************)
(* One controlled document: src/backend/app/routers/documents.py and       *)
(* services/document_control.py, with the attachment of an uploaded file   *)
(* in routers/uploads.py and the deletion of one in attachments.py.        *)
(*                                                                         *)
(* A handler reads the document and a revision, checks them, and later     *)
(* commits the columns it assigns, with no lock and no version compared.   *)
(* Most requests are over before another one comes: one action each.  One  *)
(* at a time may be slow (slow): it has made its checks and others commit  *)
(* before it writes.  raced says that one of these changed a row the slow  *)
(* request had read and was to write or write about.  The document is      *)
(* followed until then: what is promised is what one request at a time     *)
(* keeps, and every overlap on other rows.                                 *)
(***************************************************************************)
EXTENDS Integers, Sequences

CONSTANTS People,
          MaxRevisions,  \* bound: revisions of the document
          None

ASSUME DocumentAssumption == MaxRevisions \in Nat /\ None \notin People

\* An API token has no person behind it.
Actors == People \cup {None}

\* RETENTION_YEARS, in periods: none, some years, permanent.
Classes == 0..2
Permanent == 2

VARIABLES revisions,   \* by revision_number
          current,     \* current_revision_uid: a number, 0 for none
          retired,     \* retired_at is set
          superseded,  \* superseded_by_uid is set
          class,       \* retention_class
          age,         \* whole periods since the last publication or retirement, 0 or 1
          deleted,
          slow,        \* the request that is under way, or None
          promised,    \* the longest class the document had while it was released
          raced

document == <<current, retired, superseded, class>>
vars == <<revisions, document, age, deleted, slow, promised, raced>>

States == {"draft", "in_review", "approved", "published", "superseded", "retired"}

Revision == [state : States, author : Actors, approver : Actors,
             out : BOOLEAN,       \* published_at is set
             newText : BOOLEAN,   \* the text is not the one its approver approved,
             newFiles : BOOLEAN,  \* nor the files
             touched : BOOLEAN]   \* after it was out, its text changed or a file was added

Handlers == {"create", "edit", "upload", "attach", "detach", "submit", "withdraw", "approve", "reject", "publish",
             "retire", "supersede", "set_retention", "delete"}

Request == [by : Handlers, rev : 0..MaxRevisions, who : Actors, arg : Classes]

TypeOK ==
  /\ revisions \in Seq(Revision) /\ Len(revisions) <= MaxRevisions
  /\ current \in 0..Len(revisions)
  /\ {retired, superseded, deleted, raced} \subseteq BOOLEAN
  /\ class \in Classes /\ promised \in Classes /\ age \in 0..1
  /\ slow \in Request \cup {None}

Init ==
  /\ revisions = <<>> /\ current = 0
  /\ retired = FALSE /\ superseded = FALSE /\ deleted = FALSE /\ raced = FALSE
  /\ class \in Classes /\ promised = 0 /\ age = 0
  /\ slow = None

----------------------------------------------------------------------------
(* What each handler reads and refuses *)

State(n) == revisions[n].state

\* released_at is not None.
Released == retired \/ \E n \in DOMAIN revisions : revisions[n].out

\* retention_view: a document that was never released holds nothing that needs keeping.
Deletable == Released => class # Permanent /\ age >= class

InForce == current # 0 /\ State(current) = "published"

\* The retention of a released document can be lengthened, not shortened.
MayRetain(arg) == arg < class => ~Released

\* Requests about the document as a whole.  Another document, one in force, supersedes it.
MayWhole(by, arg) ==
  \/ by = "create" /\ arg = 0 /\ Len(revisions) < MaxRevisions
       /\ \A n \in DOMAIN revisions : State(n) \notin {"draft", "in_review", "approved"}
  \/ by = "retire" /\ arg = 0
  \/ by = "supersede" /\ arg = 0 /\ ~superseded
  \/ by = "set_retention" /\ MayRetain(arg)
  \/ by = "delete" /\ arg = 0 /\ Deletable

\* Mutant of MayEdit: an approved revision can be edited.
MayEditApproved(n) == State(n) \in {"draft", "approved"}

MayEdit(n) == State(n) = "draft"

\* Mutant of MayAttach: files are refused on a revision that left force only.
MayAttachInForce(n) == State(n) \notin {"superseded", "retired"}

\* attach_to_document refuses a closed revision only.
MayAttach(n) == State(n) \notin {"published", "superseded", "retired"}

\* Requests about its revision n, by who.  delete_attachment asks for the permission
\* and the workspace, and not in what state the revision is.
MayRevision(by, n, who) ==
  \/ by = "edit" /\ MayEdit(n)
  \/ by \in {"upload", "submit"} /\ State(n) = "draft"
  \/ by = "attach" /\ MayAttach(n)
  \/ by = "detach"
  \/ by = "approve" /\ State(n) = "in_review" /\ (who = None \/ who # revisions[n].author)
  \/ by = "reject" /\ State(n) = "in_review"
  \/ by = "withdraw" /\ State(n) = "in_review" /\ who # None /\ who = revisions[n].author
  \/ by = "publish" /\ State(n) = "approved"

\* The handlers that keep or compare the person who calls.
Signed == {"create", "approve", "withdraw"}

May(q) ==
  /\ q.by \notin Signed => q.who = None
  /\ IF q.rev = 0 THEN MayWhole(q.by, q.arg) ELSE q.arg = 0 /\ MayRevision(q.by, q.rev, q.who)

----------------------------------------------------------------------------
(* What each handler writes *)

Put(n, rev) == revisions' = [revisions EXCEPT ![n] = rev] /\ UNCHANGED <<document, age, deleted>>

create(q) ==
  /\ q.by = "create"
  /\ revisions' = Append(revisions, [state |-> "draft", author |-> q.who, approver |-> None, out |-> FALSE,
                                     newText |-> TRUE, newFiles |-> TRUE, touched |-> FALSE])
  /\ UNCHANGED <<document, age, deleted>>

\* update_revision, and the two ways to add a file.
edit(q) ==
  LET rev == revisions[q.rev] IN
  /\ q.by \in {"edit", "upload", "attach"}
  /\ Put(q.rev, [rev EXCEPT !.newText = @ \/ q.by = "edit", !.newFiles = @ \/ q.by # "edit",
                            !.touched = @ \/ rev.out])

\* delete_attachment, of a file of the revision.
detach(q) ==
  /\ q.by = "detach"
  /\ Put(q.rev, [revisions[q.rev] EXCEPT !.newFiles = TRUE])

\* submit_revision, withdraw_revision and reject_revision.
move(q) ==
  /\ q.by \in {"submit", "withdraw", "reject"}
  /\ Put(q.rev, [revisions[q.rev] EXCEPT !.state = IF q.by = "submit" THEN "in_review" ELSE "draft"])

\* Whoever approves has read the revision as it is.
approve(q) ==
  /\ q.by = "approve"
  /\ Put(q.rev, [revisions[q.rev] EXCEPT !.state = "approved", !.approver = q.who,
                                         !.newText = FALSE, !.newFiles = FALSE])

\* Mutant of Superseding: the revision in force before is left as it is.
SupersedingNone(rev) == [revisions EXCEPT ![rev].state = "published", ![rev].out = TRUE]

Superseding(rev) ==
  [n \in DOMAIN revisions |->
     IF n = rev THEN [revisions[n] EXCEPT !.state = "published", !.out = TRUE]
     ELSE IF n = current THEN [revisions[n] EXCEPT !.state = "superseded"] ELSE revisions[n]]

\* Mutant of publish: the document points past its latest revision.
publishNext(q) ==
  /\ q.by = "publish"
  /\ revisions' = Superseding(q.rev) /\ current' = Len(revisions) + 1 /\ age' = 0
  /\ UNCHANGED <<retired, superseded, class, deleted>>

publish(q) ==
  /\ q.by = "publish"
  /\ revisions' = Superseding(q.rev) /\ current' = q.rev /\ age' = 0
  /\ UNCHANGED <<retired, superseded, class, deleted>>

\* retire_document, and document_control.supersede of the document that is replaced.
retire(q) ==
  /\ q.by \in {"retire", "supersede"}
  /\ revisions' = IF ~InForce THEN revisions
                  ELSE [revisions EXCEPT ![current].state = IF q.by = "retire" THEN "retired" ELSE "superseded"]
  /\ current' = 0 /\ retired' = TRUE /\ age' = 0
  /\ superseded' = (superseded \/ q.by = "supersede")
  /\ UNCHANGED <<class, deleted>>

set_retention(q) ==
  /\ q.by = "set_retention"
  /\ class' = q.arg
  /\ UNCHANGED <<revisions, current, retired, superseded, age, deleted>>

\* The revisions go with the document.
delete(q) ==
  /\ q.by = "delete"
  /\ deleted' = TRUE
  /\ revisions' = <<>> /\ current' = 0
  /\ UNCHANGED <<retired, superseded, class, age>>

Write(q) ==
  /\ \/ create(q) \/ edit(q) \/ detach(q) \/ move(q) \/ approve(q) \/ publish(q)
     \/ retire(q) \/ set_retention(q) \/ delete(q)
  /\ promised' = IF Released' /\ class' > promised THEN class' ELSE promised

----------------------------------------------------------------------------
(* The requests *)

\* A commit changed what request q read of the rows it writes, or writes about.
\* The deletion of a file reads nothing of its revision.
Overtaken(q) ==
  \/ q.rev # 0 /\ q.by # "detach" /\ revisions'[q.rev] # revisions[q.rev]
  \/ q.by \in {"publish", "retire", "supersede", "set_retention", "delete"}
       /\ <<document, age>>' # <<document, age>>
  \/ q.by = "create" /\ Len(revisions') # Len(revisions)

Live == ~deleted /\ ~raced

\* A request reads, checks and writes, with nothing in between.
Quick(q) ==
  /\ Live /\ May(q)
  /\ Write(q)
  /\ raced' = (slow # None /\ ~deleted' /\ Overtaken(slow))
  /\ UNCHANGED slow

\* A request reads and checks.
Start(q) ==
  /\ Live /\ slow = None /\ May(q)
  /\ slow' = q
  /\ UNCHANGED <<revisions, document, age, deleted, promised, raced>>

\* It writes, whatever its checks would say by now.
Finish ==
  /\ Live /\ slow # None
  /\ Write(slow)
  /\ slow' = None
  /\ UNCHANGED raced

\* Its process ends before it writes.
Fail ==
  /\ Live /\ slow # None
  /\ slow' = None
  /\ UNCHANGED <<revisions, document, age, deleted, promised, raced>>

\* The years of a retention class pass.
Age ==
  /\ Live /\ Released /\ age = 0
  /\ age' = 1
  /\ UNCHANGED <<revisions, document, deleted, slow, promised, raced>>

Next ==
  \/ \E by \in Handlers, rev \in 0..Len(revisions), who \in Actors, arg \in Classes :
       LET q == [by |-> by, rev |-> rev, who |-> who, arg |-> arg] IN Quick(q) \/ Start(q)
  \/ Finish \/ Fail \/ Age

Spec == Init /\ [][Next]_vars

----------------------------------------------------------------------------
(* Properties, until a request is raced *)

\* One revision is in force or none, and it is the current one (get_current_revision, "the single
\* currently-published"): publication over another, retirement and supersession keep the two tables
\* together, whatever happens meanwhile to a revision that is being written.
OneInForce == raced \/ \A n \in DOMAIN revisions : State(n) = "published" <=> n = current

\* What was released carries the text its approver read, and its approver is not its author:
\* rejection, withdrawal and further edits lead back through another review.
PublishedAsApproved ==
  \A n \in DOMAIN revisions :
    LET rev == revisions[n] IN
    rev.out => /\ rev.author # None => rev.approver # rev.author
               /\ raced \/ ~rev.newText

Sealed(rev, next) ==
  rev.out => /\ ~next.touched /\ next.out
             /\ next.state = rev.state \/ (rev.state = "published" /\ next.state \in {"superseded", "retired"})

\* models/document.py, "Published revisions are immutable": from its release on a revision keeps its
\* text, gets no new file and only leaves force, until the document is deleted; and that is only after
\* the longest retention it ever had while released, counted from its last publication or its
\* retirement, whatever became of its class in between.  Its files can be deleted (FiguresKept).
KeptOnceOut ==
  [][IF deleted' = deleted THEN \A n \in DOMAIN revisions : Sealed(revisions[n], revisions'[n])
     ELSE promised # Permanent /\ age >= promised]_vars

(* Three statements the handlers do not keep, one request at a time *)

\* documents.py: "the figure a procedure was approved with has to stay the figure that revision
\* shows".  DELETE /attachments/{uid} removes it from a revision in any state.
FiguresKept ==
  [][\A n \in DOMAIN revisions : revisions[n].out /\ deleted' = deleted
       => revisions'[n].newFiles = revisions[n].newFiles]_vars

\* uploads.py: "a published one is what was approved, figures included".  attach_to_document takes a
\* revision that is in review or approved already.
FiguresAsApproved == raced \/ \A n \in DOMAIN revisions : revisions[n].out => ~revisions[n].newFiles

\* document_control.py: "A document replaced by another is retired, points to its successor".  A new
\* revision of it can be published, and it is in force again beside its successor.
SupersededStaysRetired == superseded => raced \/ ~InForce
=============================================================================
