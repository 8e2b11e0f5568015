----------------------- MODULE DocumentControl_proofs -----------------------
(***************************************************************************)
(* Theorems about a controlled document, for any number of people and of   *)
(* revisions and every overlap of one slow request with the others; and    *)
(* about the files of its revisions, which arrive as uploads: for any size *)
(* and number of requests, what is attached is what was hashed.            *)
(***************************************************************************)
EXTENDS DocumentControl, Uploads, SequenceTheorems, TLAPS

----------------------------------------------------------------------------
(* The invariant *)

\* A revision is out in the states from its publication on; from its approval on it is what was approved.
RevisionOK(rev) ==
  /\ rev.out <=> rev.state \in {"published", "superseded", "retired"}
  /\ rev.state \in {"approved", "published", "superseded", "retired"}
       => ~rev.newText /\ (rev.author # None => rev.approver # rev.author)
  /\ ~rev.touched

\* While released, the document has the longest class it was promised; before that nothing was promised.
PromiseOK == IF Released THEN promised <= class ELSE promised = 0

\* The rows between two writes.
Rows ==
  /\ revisions \in Seq(Revision) /\ Len(revisions) <= MaxRevisions
  /\ current \in 0..Len(revisions)
  /\ {retired, superseded, deleted} \subseteq BOOLEAN
  /\ class \in Classes /\ promised \in Classes /\ age \in 0..1
  /\ \A n \in 1..Len(revisions) : RevisionOK(revisions[n])
  /\ \A n \in 1..Len(revisions) : revisions[n].state = "published" <=> n = current
  /\ deleted \/ PromiseOK

\* The checks of the slow request would still pass.
StillMay == slow # None /\ Live => slow \in Request /\ slow.rev \in 0..Len(revisions) /\ May(slow)

Kept == Rows /\ StillMay /\ raced \in BOOLEAN /\ slow \in Request \cup {None}

----------------------------------------------------------------------------
(* The handlers *)

\* What is known when a handler writes.
Ready(q) == Rows /\ Live /\ q \in Request /\ q.rev \in 0..Len(revisions) /\ May(q)

\* What it leaves: the rows in order, and what is out sealed.
Leaves ==
  /\ Rows'
  /\ Len(revisions') >= Len(revisions)
  /\ \A n \in 1..Len(revisions) : Sealed(revisions[n], revisions'[n])

\* Write's line on the promise.
Promises == promised' = IF Released' /\ class' > promised THEN class' ELSE promised

\* The parts of the sequence.
LEMMA RevisionTypes ==
  ASSUME Rows
  PROVE  /\ Len(revisions) \in Nat /\ DOMAIN revisions = 1..Len(revisions)
         /\ \A n \in 1..Len(revisions) : revisions[n] \in Revision
BY LenProperties, ElementOfSeq DEF Rows

\* The promise is kept by whatever releases no less and shortens nothing that is released.
LEMMA PromiseKept ==
  ASSUME Rows, ~deleted, Promises, class' \in Classes,
         Released => Released' /\ class' >= class
  PROVE  PromiseOK' /\ promised' \in Classes
BY DEF Rows, PromiseOK, Promises, Classes

\* A revision is written whose place in the document stays what it was.
LEMMA PutKeeps ==
  ASSUME Rows, ~deleted, Promises, NEW n \in 1..Len(revisions), NEW rev \in Revision, Put(n, rev),
         RevisionOK(rev), rev.out <=> revisions[n].out, rev.out => rev.state = revisions[n].state
  PROVE  Leaves /\ Released' = Released
<1>1. /\ revisions' \in Seq(Revision) /\ Len(revisions') = Len(revisions)
      /\ \A m \in 1..Len(revisions) : revisions'[m] = IF m = n THEN rev ELSE revisions[m]
  BY ExceptSeq DEF Rows, Put
<1>2. document' = document /\ age' = age /\ deleted' = deleted
  BY DEF Put, document
<1>3. \A m \in 1..Len(revisions) : RevisionOK(revisions'[m])
  BY <1>1 DEF Rows
<1>4. \A m \in 1..Len(revisions) : revisions'[m].state = "published" <=> m = current
  <2>1. RevisionOK(revisions[n]) /\ (rev.state = "published" <=> revisions[n].state = "published")
    BY DEF Rows, RevisionOK
  <2> QED BY <1>1, <2>1 DEF Rows
<1>5. \A m \in 1..Len(revisions) : Sealed(revisions[m], revisions'[m])
  BY <1>1 DEF Rows, RevisionOK, Sealed
<1>6. Released' = Released
  BY <1>1, <1>2, RevisionTypes, LenProperties DEF Released, document
<1>7. PromiseOK' /\ promised' \in Classes
  BY <1>2, <1>6, PromiseKept DEF Rows, document, Classes
<1>8. Rows'
  BY <1>1, <1>2, <1>3, <1>4, <1>7 DEF Rows, document
<1> QED BY <1>1, <1>5, <1>6, <1>8, RevisionTypes DEF Leaves

\* update_revision and the ways to add a file: the text changes in a draft only, and nothing that is out.
LEMMA EditKeeps ==
  ASSUME NEW q, Ready(q), Promises, edit(q)
  PROVE  Leaves /\ Released' = Released
<1> DEFINE old == revisions[q.rev]
           new == [old EXCEPT !.newText = @ \/ q.by = "edit", !.newFiles = @ \/ q.by # "edit",
                              !.touched = @ \/ old.out]
<1>1. q.rev \in 1..Len(revisions) /\ old \in Revision /\ RevisionOK(old)
  BY RevisionTypes DEF Ready, edit, May, MayWhole, Request, Rows
<1>2. old.state \in {"draft", "in_review", "approved"} /\ (q.by = "edit" => old.state = "draft")
  BY <1>1 DEF Ready, edit, May, MayWhole, MayRevision, MayEdit, MayAttach, State, Revision, States
<1>3. ~old.out
  BY <1>1, <1>2 DEF RevisionOK
<1>4. new \in Revision /\ ~new.out /\ new.state = old.state /\ new.author = old.author
      /\ new.approver = old.approver /\ (new.newText <=> (old.newText \/ q.by = "edit"))
      /\ (new.touched <=> (old.touched \/ old.out))
  BY <1>1, <1>3 DEF Revision
<1>5. RevisionOK(new)
  BY <1>1, <1>2, <1>3, <1>4 DEF RevisionOK
<1>6. Put(q.rev, new)
  BY DEF edit
<1> HIDE DEF new
<1> QED BY <1>1, <1>3, <1>4, <1>5, <1>6, PutKeeps DEF Ready, Live

\* delete_attachment: it changes neither what is in force nor the text, in any state.
LEMMA DetachKeeps ==
  ASSUME NEW q, Ready(q), Promises, detach(q)
  PROVE  Leaves /\ Released' = Released
<1> DEFINE old == revisions[q.rev]
           new == [old EXCEPT !.newFiles = TRUE]
<1>1. q.rev \in 1..Len(revisions) /\ old \in Revision /\ RevisionOK(old)
  BY RevisionTypes DEF Ready, detach, May, MayWhole, Request, Rows
<1>2. new \in Revision /\ new.out = old.out /\ new.state = old.state /\ new.author = old.author
      /\ new.approver = old.approver /\ new.newText = old.newText /\ new.touched = old.touched
  BY <1>1 DEF Revision
<1>3. RevisionOK(new)
  BY <1>1, <1>2 DEF RevisionOK
<1>4. Put(q.rev, new)
  BY DEF detach
<1> HIDE DEF new
<1> QED BY <1>1, <1>2, <1>3, <1>4, PutKeeps DEF Ready, Live

\* submit_revision, withdraw_revision and reject_revision.
LEMMA MoveKeeps ==
  ASSUME NEW q, Ready(q), Promises, move(q)
  PROVE  Leaves /\ Released' = Released
<1> DEFINE old == revisions[q.rev]
           new == [old EXCEPT !.state = IF q.by = "submit" THEN "in_review" ELSE "draft"]
<1>1. q.rev \in 1..Len(revisions) /\ old \in Revision /\ RevisionOK(old)
  BY RevisionTypes DEF Ready, move, May, MayWhole, Request, Rows
<1>2. old.state \in {"draft", "in_review"}
  BY <1>1 DEF Ready, move, May, MayWhole, MayRevision, State
<1>3. ~old.out
  BY <1>1, <1>2 DEF RevisionOK
<1>4. new \in Revision /\ ~new.out /\ new.state \in {"draft", "in_review"} /\ new.touched = old.touched
  BY <1>1, <1>3 DEF Revision, States
<1>5. RevisionOK(new)
  BY <1>1, <1>4 DEF RevisionOK
<1>6. Put(q.rev, new)
  BY DEF move
<1> HIDE DEF new
<1> QED BY <1>1, <1>3, <1>4, <1>5, <1>6, PutKeeps DEF Ready, Live

\* approve_revision: whoever approves is not the author.
LEMMA ApproveKeeps ==
  ASSUME NEW q, Ready(q), Promises, approve(q)
  PROVE  Leaves /\ Released' = Released
<1> DEFINE old == revisions[q.rev]
           new == [old EXCEPT !.state = "approved", !.approver = q.who, !.newText = FALSE, !.newFiles = FALSE]
<1>1. q.rev \in 1..Len(revisions) /\ old \in Revision /\ RevisionOK(old)
  BY RevisionTypes DEF Ready, approve, May, MayWhole, Request, Rows
<1>2. old.state = "in_review" /\ (q.who = None \/ q.who # old.author)
  BY <1>1 DEF Ready, approve, May, MayWhole, MayRevision, State
<1>3. ~old.out
  BY <1>1, <1>2 DEF RevisionOK
<1>4. q.who \in Actors
  BY DEF Ready, Request
<1>5. new \in Revision /\ ~new.out /\ new.state = "approved" /\ ~new.newText /\ new.approver = q.who
      /\ new.author = old.author /\ new.touched = old.touched
  BY <1>1, <1>3, <1>4 DEF Revision, States
<1>6. RevisionOK(new)
  BY <1>1, <1>2, <1>5 DEF RevisionOK
<1>7. Put(q.rev, new)
  BY DEF approve
<1> HIDE DEF new
<1> QED BY <1>1, <1>3, <1>5, <1>6, <1>7, PutKeeps DEF Ready, Live

\* create_revision.
LEMMA CreateKeeps ==
  ASSUME NEW q, Ready(q), Promises, create(q)
  PROVE  Leaves /\ Released' = Released
<1> DEFINE new == [state |-> "draft", author |-> q.who, approver |-> None, out |-> FALSE,
                   newText |-> TRUE, newFiles |-> TRUE, touched |-> FALSE]
<1>1. Len(revisions) < MaxRevisions /\ q.who \in Actors
  BY DEF Ready, May, MayWhole, MayRevision, create, Request
<1>2. new \in Revision /\ RevisionOK(new) /\ new.state = "draft" /\ ~new.out
  BY <1>1 DEF Revision, States, Actors, RevisionOK
<1>3. /\ revisions' = Append(revisions, new)
      /\ document' = document /\ age' = age /\ deleted' = deleted
  BY DEF create, document
<1> HIDE DEF new
<1>4. /\ revisions' \in Seq(Revision) /\ Len(revisions') = Len(revisions) + 1
      /\ \A m \in 1..Len(revisions) : revisions'[m] = revisions[m]
      /\ revisions'[Len(revisions) + 1] = new
  BY <1>2, <1>3 DEF Ready, Rows
<1>5. Len(revisions) \in Nat /\ MaxRevisions \in Nat
  BY RevisionTypes, DocumentAssumption DEF Ready
<1>6. \A m \in 1..Len(revisions') : m \in 1..Len(revisions) \/ m = Len(revisions) + 1
  BY <1>4, <1>5
<1>7. \A m \in 1..Len(revisions') : RevisionOK(revisions'[m])
  BY <1>2, <1>4, <1>6 DEF Ready, Rows
<1>8. \A m \in 1..Len(revisions') : revisions'[m].state = "published" <=> m = current
  BY <1>2, <1>4, <1>5, <1>6 DEF Ready, Rows
<1>9. \A m \in 1..Len(revisions) : Sealed(revisions[m], revisions'[m])
  BY <1>4 DEF Ready, Rows, RevisionOK, Sealed
<1>10. Released' = Released
  <2>1. DOMAIN revisions = 1..Len(revisions) /\ DOMAIN revisions' = 1..Len(revisions')
    BY <1>4, LenProperties DEF Ready, Rows
  <2> QED BY <1>2, <1>3, <1>4, <1>5, <1>6, <2>1 DEF Released, document
<1>11. PromiseOK' /\ promised' \in Classes
  BY <1>3, <1>10, PromiseKept DEF Ready, Live, Rows, document, Classes
<1>12. Rows'
  BY <1>1, <1>3, <1>4, <1>5, <1>7, <1>8, <1>11 DEF Ready, Rows, document
<1> QED BY <1>4, <1>5, <1>9, <1>10, <1>12 DEF Leaves

\* publish_revision: the one in force is superseded and the approved one takes its place.
LEMMA PublishKeeps ==
  ASSUME NEW q, Ready(q), Promises, publish(q)
  PROVE  Leaves
<1>1. q.rev \in 1..Len(revisions) /\ revisions[q.rev].state = "approved"
  BY DEF Ready, publish, May, MayWhole, MayRevision, Request, State
<1>2. /\ Len(revisions) \in Nat /\ DOMAIN revisions = 1..Len(revisions)
      /\ \A n \in 1..Len(revisions) : revisions[n] \in Revision /\ RevisionOK(revisions[n])
      /\ \A n \in 1..Len(revisions) : revisions[n].state = "published" <=> n = current
  BY RevisionTypes DEF Ready, Rows
<1>3. /\ revisions' = [n \in 1..Len(revisions) |->
                         IF n = q.rev THEN [revisions[n] EXCEPT !.state = "published", !.out = TRUE]
                         ELSE IF n = current THEN [revisions[n] EXCEPT !.state = "superseded"]
                         ELSE revisions[n]]
      /\ current' = q.rev /\ age' = 0
      /\ UNCHANGED <<retired, superseded, class, deleted>>
  BY <1>2 DEF publish, Superseding
<1>4. ASSUME NEW n \in 1..Len(revisions)
      PROVE  /\ revisions'[n] \in Revision /\ RevisionOK(revisions'[n])
             /\ revisions'[n].state = "published" <=> n = q.rev
             /\ Sealed(revisions[n], revisions'[n])
             /\ revisions[n].out => revisions'[n].out
  <2>1. CASE n = q.rev
    <3>1. /\ revisions'[n] = [revisions[n] EXCEPT !.state = "published", !.out = TRUE]
          /\ ~revisions[n].out /\ revisions[n].state = "approved"
      BY <1>1, <1>2, <1>3, <2>1 DEF RevisionOK
    <3>2. /\ revisions'[n] \in Revision /\ revisions'[n].state = "published" /\ revisions'[n].out
          /\ revisions'[n].newText = revisions[n].newText /\ revisions'[n].author = revisions[n].author
          /\ revisions'[n].approver = revisions[n].approver /\ revisions'[n].touched = revisions[n].touched
      BY <1>2, <3>1 DEF Revision, States
    <3> QED BY <1>2, <2>1, <3>1, <3>2 DEF RevisionOK, Sealed
  <2>2. CASE n # q.rev /\ n = current
    <3>1. /\ revisions'[n] = [revisions[n] EXCEPT !.state = "superseded"]
          /\ revisions[n].out /\ revisions[n].state = "published"
      BY <1>2, <1>3, <2>2 DEF RevisionOK
    <3>2. /\ revisions'[n] \in Revision /\ revisions'[n].state = "superseded" /\ revisions'[n].out
          /\ revisions'[n].newText = revisions[n].newText /\ revisions'[n].author = revisions[n].author
          /\ revisions'[n].approver = revisions[n].approver /\ revisions'[n].touched = revisions[n].touched
      BY <1>2, <3>1 DEF Revision, States
    <3> QED BY <1>2, <2>2, <3>1, <3>2 DEF RevisionOK, Sealed
  <2>3. CASE n # q.rev /\ n # current
    <3>1. revisions'[n] = revisions[n]
      BY <1>3, <2>3
    <3> QED BY <1>2, <2>3, <3>1 DEF RevisionOK, Sealed
  <2> QED BY <2>1, <2>2, <2>3
<1>5. /\ revisions' \in Seq(Revision) /\ Len(revisions') = Len(revisions)
      /\ DOMAIN revisions' = 1..Len(revisions)
  <2>1. revisions' \in [1..Len(revisions) -> Revision]
    BY <1>3, <1>4
  <2> QED BY <1>2, <2>1, SeqDef, LenProperties
<1>6. Released'
  BY <1>1, <1>2, <1>3, <1>4, <1>5 DEF Released, RevisionOK
<1>7. /\ current' = q.rev /\ age' = 0 /\ retired' = retired /\ superseded' = superseded
      /\ class' = class /\ deleted' = deleted
  BY <1>3
<1>8. PromiseOK' /\ promised' \in Classes
  BY <1>6, <1>7, PromiseKept DEF Ready, Live, Rows, Classes
<1>9. Rows'
  BY <1>1, <1>2, <1>4, <1>5, <1>7, <1>8 DEF Ready, Rows
<1> QED BY <1>2, <1>4, <1>5, <1>9 DEF Leaves

\* retire_document and supersede: what is in force leaves it.
LEMMA RetireKeeps ==
  ASSUME NEW q, Ready(q), Promises, retire(q)
  PROVE  Leaves
<1> DEFINE s == IF q.by = "retire" THEN "retired" ELSE "superseded"
<1>1. /\ Len(revisions) \in Nat /\ DOMAIN revisions = 1..Len(revisions)
      /\ revisions \in Seq(Revision)
      /\ \A n \in 1..Len(revisions) : revisions[n] \in Revision /\ RevisionOK(revisions[n])
      /\ \A n \in 1..Len(revisions) : revisions[n].state = "published" <=> n = current
      /\ current \in 0..Len(revisions)
  BY RevisionTypes DEF Ready, Rows
<1>2. /\ current' = 0 /\ retired' = TRUE /\ age' = 0 /\ class' = class /\ deleted' = deleted
      /\ superseded' \in BOOLEAN
  BY DEF retire, Ready, Rows
<1>3. /\ revisions' \in Seq(Revision) /\ Len(revisions') = Len(revisions)
      /\ \A n \in 1..Len(revisions) : revisions'[n] = IF n = current THEN [revisions[n] EXCEPT !.state = s]
                                                      ELSE revisions[n]
  <2>1. CASE ~InForce
    BY <1>1, <2>1 DEF retire, InForce, State
  <2>2. CASE InForce
    <3>1. [revisions[current] EXCEPT !.state = s] \in Revision
      BY <1>1, <2>2 DEF InForce, Revision, States
    <3>2. revisions' = [revisions EXCEPT ![current] = [revisions[current] EXCEPT !.state = s]]
      BY <2>2 DEF retire
    <3> HIDE DEF s
    <3> QED BY <1>1, <2>2, <3>1, <3>2, ExceptSeq DEF InForce
  <2> QED BY <2>1, <2>2
<1>4. ASSUME NEW n \in 1..Len(revisions)
      PROVE  /\ RevisionOK(revisions'[n]) /\ revisions'[n].state # "published"
             /\ Sealed(revisions[n], revisions'[n])
  <2>1. CASE n = current
    <3>1. /\ revisions[n].state = "published" /\ revisions[n].out
          /\ revisions'[n] = [revisions[n] EXCEPT !.state = s]
      BY <1>1, <1>3, <2>1 DEF RevisionOK
    <3>2. /\ revisions'[n].state \in {"retired", "superseded"} /\ revisions'[n].out
          /\ revisions'[n].newText = revisions[n].newText /\ revisions'[n].author = revisions[n].author
          /\ revisions'[n].approver = revisions[n].approver /\ revisions'[n].touched = revisions[n].touched
      BY <1>1, <3>1 DEF Revision
    <3> QED BY <1>1, <3>1, <3>2 DEF RevisionOK, Sealed
  <2>2. CASE n # current
    <3>1. revisions'[n] = revisions[n] /\ revisions[n].state # "published"
      BY <1>1, <1>3, <2>2
    <3> QED BY <1>1, <3>1 DEF RevisionOK, Sealed
  <2> QED BY <2>1, <2>2
<1>5. PromiseOK' /\ promised' \in Classes
  BY <1>2, PromiseKept DEF Ready, Live, Rows, Classes, Released
<1>6. Rows'
  BY <1>1, <1>2, <1>3, <1>4, <1>5 DEF Ready, Rows
<1> QED BY <1>1, <1>3, <1>4, <1>6 DEF Leaves

\* set_retention.
LEMMA RetainKeeps ==
  ASSUME NEW q, Ready(q), Promises, set_retention(q)
  PROVE  Leaves /\ Released' = Released
<1>1. /\ class' = q.arg /\ q.arg \in Classes
      /\ UNCHANGED <<revisions, current, retired, superseded, age, deleted>>
  BY DEF set_retention, Ready, Request
<1>2. q.arg < class => ~Released
  BY DEF Ready, May, MayWhole, MayRevision, MayRetain, set_retention
<1>3. Released' = Released
  BY <1>1 DEF Released
<1>4. PromiseOK' /\ promised' \in Classes
  BY <1>1, <1>2, <1>3, PromiseKept DEF Ready, Live, Rows, Classes
<1>5. \A n \in 1..Len(revisions) : Sealed(revisions[n], revisions'[n])
  BY <1>1 DEF Ready, Rows, RevisionOK, Sealed
<1>6. Rows'
  BY <1>1, <1>4 DEF Ready, Rows
<1> QED BY <1>1, <1>3, <1>5, <1>6, RevisionTypes DEF Leaves, Ready

\* delete_document: of what was never released, or after the longest retention it was promised.
LEMMA DeleteKeeps ==
  ASSUME NEW q, Ready(q), Promises, delete(q)
  PROVE  /\ Rows' /\ deleted'
         /\ promised # Permanent /\ age >= promised
<1>1. /\ deleted' = TRUE /\ revisions' = <<>> /\ current' = 0
      /\ UNCHANGED <<retired, superseded, class, age>>
  BY DEF delete
<1>2. Deletable
  BY DEF Ready, May, MayWhole, MayRevision, delete
<1>3. promised # Permanent /\ age >= promised
  BY <1>2 DEF Deletable, Ready, Live, Rows, PromiseOK, Permanent, Classes
<1>4. promised' \in Classes
  BY <1>1 DEF Promises, Ready, Rows
<1>5. revisions' \in Seq(Revision) /\ Len(revisions') = 0 /\ MaxRevisions \in Nat
  BY <1>1, DocumentAssumption
<1>6. Rows'
  BY <1>1, <1>4, <1>5 DEF Ready, Rows
<1> QED BY <1>1, <1>3, <1>6

\* Whatever a request writes.
LEMMA WriteKeeps ==
  ASSUME NEW q, Ready(q), Write(q)
  PROVE  /\ Rows'
         /\ \/ deleted' = deleted /\ Leaves
            \/ deleted' /\ promised # Permanent /\ age >= promised
<1>1. Promises
  BY DEF Write, Promises
<1>2. ~delete(q) => deleted' = deleted /\ Leaves
  BY <1>1, CreateKeeps, EditKeeps, DetachKeeps, MoveKeeps, ApproveKeeps, PublishKeeps, RetireKeeps, RetainKeeps
     DEF Write, create, edit, detach, move, approve, publish, retire, set_retention, Put
<1> QED BY <1>1, <1>2, DeleteKeeps DEF Leaves

----------------------------------------------------------------------------
(* The slow request *)

\* A quick request that leaves the document's own row alone releases nothing: a publication makes another
\* revision the current one, and a retirement is written there.
LEMMA ReleaseShows ==
  ASSUME NEW p, Ready(p), Write(p), deleted' = deleted, document' = document
  PROVE  Released' = Released
<1>1. Promises
  BY DEF Write, Promises
<1>2. CASE create(p) \/ edit(p) \/ detach(p) \/ move(p) \/ approve(p) \/ set_retention(p)
  BY <1>1, <1>2, CreateKeeps, EditKeeps, DetachKeeps, MoveKeeps, ApproveKeeps, RetainKeeps
<1>3. CASE publish(p)
  <2>1. p.rev \in 1..Len(revisions) /\ revisions[p.rev].state = "approved"
    BY <1>3 DEF Ready, publish, May, MayWhole, MayRevision, Request, State
  <2>2. p.rev = current
    BY <1>3 DEF publish, document
  <2> QED BY <2>1, <2>2 DEF Ready, Rows
<1>4. CASE retire(p)
  <2>1. retired' = TRUE /\ retired = TRUE
    BY <1>4 DEF retire, document
  <2> QED BY <2>1 DEF Released
<1>5. CASE delete(p)
  BY <1>5 DEF delete, Ready, Live
<1> QED BY <1>2, <1>3, <1>4, <1>5 DEF Write

\* A request that was not overtaken would still pass its checks.
LEMMA StillMayPass ==
  ASSUME NEW p, Ready(p), Write(p), NEW q, Ready(q), ~Overtaken(q), deleted' = deleted
  PROVE  q.rev \in 0..Len(revisions') /\ May(q)'
<1>1. Leaves /\ Len(revisions) \in Nat /\ DOMAIN revisions = 1..Len(revisions)
  BY WriteKeeps, RevisionTypes DEF Ready, Live
<1>2. Len(revisions') \in Nat /\ DOMAIN revisions' = 1..Len(revisions')
  BY <1>1, LenProperties DEF Leaves, Rows
<1>3. q.rev \in 0..Len(revisions')
  BY <1>1, <1>2 DEF Ready, Leaves
<1>4. CASE q.rev # 0
  <2>1. q.by # "detach" => revisions'[q.rev] = revisions[q.rev]
    BY <1>4 DEF Overtaken
  <2>2. q.arg = 0 /\ MayRevision(q.by, q.rev, q.who)
    BY <1>4 DEF Ready, May
  <2>3. MayRevision(q.by, q.rev, q.who)'
    BY <2>1, <2>2 DEF MayRevision, MayEdit, MayAttach, State
  <2> QED BY <1>3, <1>4, <2>2, <2>3 DEF Ready, May
<1>5. CASE q.rev = 0 /\ q.by = "create"
  <2>1. /\ Len(revisions') = Len(revisions) /\ Len(revisions) < MaxRevisions /\ q.arg = 0
        /\ \A n \in 1..Len(revisions) : revisions[n].state \notin {"draft", "in_review", "approved"}
    BY <1>1, <1>5 DEF Overtaken, Ready, May, MayWhole, State
  <2>2. \A n \in 1..Len(revisions) : revisions'[n].state \notin {"draft", "in_review", "approved"}
    <3>1. \A n \in 1..Len(revisions) : revisions[n].out
      BY <2>1, RevisionTypes DEF Ready, Rows, RevisionOK, Revision, States
    <3> QED BY <1>1, <2>1, <3>1 DEF Leaves, Sealed, Rows, RevisionOK
  <2>3. MayWhole(q.by, q.arg)'
    BY <1>2, <1>5, <2>1, <2>2 DEF MayWhole, State
  <2> QED BY <1>3, <1>5, <2>3 DEF Ready, May
<1>6. CASE q.rev = 0 /\ q.by # "create"
  <2>1. MayWhole(q.by, q.arg) /\ (q.by \notin Signed => q.who = None)
    BY <1>6 DEF Ready, May
  <2>2. q.by \in {"retire", "supersede", "set_retention", "delete"}
    BY <1>6, <2>1 DEF MayWhole
  <2>3. document' = document /\ age' = age
    BY <2>2 DEF Overtaken
  <2>4. Released' = Released /\ class' = class /\ superseded' = superseded
    BY <2>3, ReleaseShows DEF document
  <2>5. MayWhole(q.by, q.arg)'
    BY <1>6, <2>1, <2>3, <2>4 DEF MayWhole, MayRetain, Deletable
  <2> QED BY <1>3, <1>6, <2>1, <2>5 DEF May
<1> QED BY <1>4, <1>5, <1>6 DEF Ready

----------------------------------------------------------------------------
(* Every step *)

\* What a step does to what is out, or before it removes the document.
StepKeeps ==
  IF deleted' = deleted THEN \A n \in DOMAIN revisions : Sealed(revisions[n], revisions'[n])
  ELSE promised # Permanent /\ age >= promised

\* A request that writes leaves what KeptOnceOut says.
LEMMA WriteSteps ==
  ASSUME NEW q, Ready(q), Write(q)
  PROVE  StepKeeps
<1>1. CASE deleted' = deleted /\ Leaves
  BY <1>1, RevisionTypes DEF Leaves, StepKeeps, Ready
<1>2. CASE deleted' /\ promised # Permanent /\ age >= promised
  BY <1>2 DEF StepKeeps, Ready, Live
<1> QED BY <1>1, <1>2, WriteKeeps

\* A step that leaves the revisions and the document does so.
LEMMA StillSteps ==
  ASSUME Rows, revisions' = revisions, deleted' = deleted
  PROVE  StepKeeps
BY RevisionTypes DEF StepKeeps, Sealed, Rows, RevisionOK

LEMMA KeptStep ==
  ASSUME Kept, [Next]_vars
  PROVE  Kept' /\ StepKeeps
<1>1. ASSUME NEW q \in Request, q.rev \in 0..Len(revisions), Quick(q)
      PROVE  Kept' /\ StepKeeps
  <2>1. Ready(q) /\ Write(q) /\ slow' = slow /\ raced' = (slow # None /\ ~deleted' /\ Overtaken(slow))
    BY <1>1 DEF Quick, Ready, Kept
  <2>2. Rows' /\ (deleted' = deleted \/ deleted')
    BY <2>1, WriteKeeps
  <2>3. StillMay'
    <3> SUFFICES ASSUME slow # None, ~raced', ~deleted'
                 PROVE  slow \in Request /\ slow.rev \in 0..Len(revisions') /\ May(slow)'
      BY <2>1 DEF StillMay, Live
    <3>1. Ready(slow)
      BY <2>1 DEF Ready, Kept, StillMay
    <3>2. ~Overtaken(slow) /\ deleted' = deleted
      BY <2>1, <2>2
    <3> QED BY <2>1, <3>1, <3>2, StillMayPass DEF Ready
  <2>4. raced' \in BOOLEAN
    BY <2>1
  <2> QED BY <2>1, <2>2, <2>3, <2>4, WriteSteps DEF Kept
<1>2. ASSUME NEW q \in Request, q.rev \in 0..Len(revisions), Start(q)
      PROVE  Kept' /\ StepKeeps
  <2>1. slow' = q /\ May(q) /\ UNCHANGED <<revisions, document, age, deleted, promised, raced>>
    BY <1>2 DEF Start
  <2>2. Rows'
    BY <2>1 DEF Kept, Rows, document, PromiseOK, Released
  <2>3. May(q)'
    BY <2>1 DEF May, MayWhole, MayRevision, MayEdit, MayAttach, MayRetain, State, Deletable, Released, document
  <2> QED BY <1>2, <2>1, <2>2, <2>3, StillSteps DEF Kept, StillMay
<1>3. CASE Finish
  <2>1. Ready(slow) /\ Write(slow) /\ slow' = None /\ raced' = raced
    BY <1>3 DEF Finish, Ready, Kept, StillMay
  <2>2. Rows'
    BY <2>1, WriteKeeps
  <2> QED BY <2>1, <2>2, WriteSteps DEF Kept, StillMay
<1>4. CASE Fail
  <2>1. slow' = None /\ UNCHANGED <<revisions, document, age, deleted, promised, raced>>
    BY <1>4 DEF Fail
  <2>2. Rows'
    BY <2>1 DEF Kept, Rows, document, PromiseOK, Released
  <2> QED BY <2>1, <2>2, StillSteps DEF Kept, StillMay
<1>5. CASE Age
  <2>1. age = 0 /\ age' = 1 /\ Released /\ UNCHANGED <<revisions, document, deleted, slow, promised, raced>>
    BY <1>5 DEF Age
  <2>2. Rows'
    BY <2>1 DEF Kept, Rows, document, PromiseOK, Released
  <2>3. May(slow) => May(slow)'
    BY <2>1 DEF May, MayWhole, MayRevision, MayEdit, MayAttach, MayRetain, State, Deletable, Released, document, Kept, Rows, Classes
  <2> QED BY <2>1, <2>2, <2>3, StillSteps DEF Kept, StillMay, Live
<1>6. CASE UNCHANGED vars
  <2>1. Rows'
    BY <1>6 DEF vars, Kept, Rows, document, PromiseOK, Released
  <2>2. May(slow)' = May(slow)
    BY <1>6 DEF vars, May, MayWhole, MayRevision, MayEdit, MayAttach, MayRetain, State, Deletable, Released, document
  <2> QED BY <1>6, <2>1, <2>2, StillSteps DEF vars, Kept, StillMay, Live, document
<1>7. ASSUME NEW by \in Handlers, NEW rev \in 0..Len(revisions), NEW who \in Actors, NEW arg \in Classes
      PROVE  LET q == [by |-> by, rev |-> rev, who |-> who, arg |-> arg]
             IN  q \in Request /\ q.rev \in 0..Len(revisions)
  BY DocumentAssumption, RevisionTypes DEF Request, Kept, Rows
<1> QED BY <1>1, <1>2, <1>3, <1>4, <1>5, <1>6, <1>7 DEF Next

\* A document starts empty.
LEMMA KeptInit == Init => Kept
<1> SUFFICES ASSUME Init PROVE Kept
  OBVIOUS
<1>1. revisions = <<>> /\ Len(revisions) = 0 /\ revisions \in Seq(Revision) /\ DOMAIN revisions = {}
  BY DEF Init
<1>2. PromiseOK
  <2>1. ~Released /\ promised = 0
    BY <1>1 DEF Init, Released
  <2> QED BY <2>1 DEF PromiseOK
<1>3. {retired, superseded, deleted} \subseteq BOOLEAN /\ class \in Classes
  BY DEF Init
<1>4. Len(revisions) <= MaxRevisions /\ current \in 0..Len(revisions) /\ promised \in Classes /\ age \in 0..1
  BY <1>1, DocumentAssumption DEF Init, Classes
<1>5. 1..Len(revisions) = {}
  BY <1>1
<1>6. Rows
  BY <1>1, <1>2, <1>3, <1>4, <1>5 DEF Rows
<1> QED BY <1>6 DEF Init, Kept, StillMay

\* The invariant of the specification.
LEMMA AlwaysKept == Spec => []Kept
<1>1. Kept /\ [Next]_vars => Kept'
  BY KeptStep
<1> QED BY <1>1, KeptInit, PTL DEF Spec

----------------------------------------------------------------------------
(* The theorems *)

\* The rows are what the models of the code say, whatever overlaps.
THEOREM TypeCorrect == Spec => []TypeOK
<1>1. Kept => TypeOK
  BY DEF Kept, Rows, TypeOK
<1> QED BY <1>1, AlwaysKept, PTL

\* get_current_revision, "the single currently-published": one revision is in force or none, and it is the
\* current one, for any number of revisions and a slow request that is not overtaken on its own rows.
THEOREM OneAtMost == Spec => []OneInForce
<1>1. Kept => OneInForce
  BY RevisionTypes DEF Kept, Rows, OneInForce, State
<1> QED BY <1>1, AlwaysKept, PTL

\* What was released carries the text its approver read, and its approver is not its author.
THEOREM ApprovedByAnother == Spec => []PublishedAsApproved
<1>1. Kept => PublishedAsApproved
  BY RevisionTypes DEF Kept, Rows, RevisionOK, PublishedAsApproved
<1> QED BY <1>1, AlwaysKept, PTL

\* models/document.py, "Published revisions are immutable", and the document stays for the longest retention
\* it ever had while released.
THEOREM ReleasedIsKept == Spec => KeptOnceOut
<1>1. Kept /\ [Next]_vars => [StepKeeps]_vars
  BY KeptStep
<1>2. [StepKeeps]_vars => [IF deleted' = deleted THEN \A n \in DOMAIN revisions : Sealed(revisions[n], revisions'[n])
                           ELSE promised # Permanent /\ age >= promised]_vars
  BY DEF StepKeeps
<1> QED BY <1>1, <1>2, AlwaysKept, PTL DEF Spec, KeptOnceOut

----------------------------------------------------------------------------
(* The uploads: the invariant *)

\* A piece on its way lies in the file.
Fits == \A p \in Puts : puts[p] # Nil => puts[p].offset < size /\ puts[p].data <= size

\* A piece is written and not committed.
Writing(p) == puts[p] # Nil /\ puts[p].wrote

\* One at a time: a write and its commit keep the event loop.
OneWrites == \A p, q \in Puts : Writing(p) /\ Writing(q) => p = q

\* What a step of complete or attach knows of the row, and of the storage path.
Completes ==
  /\ pc \in {"read", "good", "bad", "cleaned", "emptied", "rejected"} => state \in {"open", "gone"}
  /\ pc \in {"accepted", "moved"} => state \in {"complete", "gone"}
  /\ pc \in {"read", "good", "bad", "cleaned", "emptied", "rejected", "accepted"} => stored = Nil
  /\ state = "open" => file # Nil
  /\ pc = "read" /\ state = "gone" => file = Nil
  /\ state = "complete" /\ file = Nil => final # Nil /\ (pc = "moved" \/ faults > 0)
  /\ denied => barred

\* Until a piece overruns the verification, what was verified is what is kept, moved and attached.
Keeps ==
  /\ pc = "good" /\ state = "open" => file = Sent
  /\ pc = "cleaned" /\ state = "open" => file = Verified
  /\ state = "complete" /\ file # Nil => file = Verified
  /\ pc = "moved" /\ state = "complete" => final = Verified
  /\ state = "attached" => final = Verified

\* Until then the offset of a verified file is its end: a piece that is written and not committed ends the
\* file that is read, and it is verified only when that end is its own.
Ends ==
  /\ pc = "read" /\ state = "open" /\ Len(file) = size => received = size
  /\ pc \in {"good", "cleaned"} /\ state = "open" => received = size
  /\ state \in {"complete", "attached"} => received = size
  /\ \A p \in Puts : Writing(p) =>
       /\ state \in {"complete", "attached"} => puts[p].offset + 1 = size
       /\ state = "open" /\ pc \in {"idle", "read", "good", "cleaned"} /\ stored # "refused"
            => Len(file) = puts[p].offset + 1

\* The first n pieces, as they were sent.
Upto(n) == [i \in 1..n |-> i]

\* Without a fault and without a late piece the file is the beginning of what is sent, up to the offset,
\* and no piece is under way while it is verified.
InOrder ==
  /\ stored # "refused" /\ pc \notin {"bad", "emptied", "rejected"}
  /\ \A p \in Puts : puts[p] # Nil => puts[p].data = puts[p].offset + 1
  /\ \A p \in Puts : Writing(p) /\ state # "gone" =>
       /\ state = "open" /\ pc = "idle"
       /\ puts[p].offset = received /\ file = Upto(received + 1)
  /\ state = "open" =>
       /\ at <= received
       /\ pc # "idle" => received = size
       /\ pc # "cleaned" /\ (\A p \in Puts : ~Writing(p)) => file = Upto(received)

\* The invariant; each part stands until the disturbance it excepts.
UploadInv ==
  /\ UploadTypeOK /\ Fits /\ OneWrites /\ Completes
  /\ overrun \/ (Keeps /\ Ends)
  /\ faults > 0 \/ late \/ InOrder

----------------------------------------------------------------------------
(* What is at a path *)

\* A function on 1..n is a file of n pieces.
LEMMA LengthOf ==
  ASSUME UploadAssumption, NEW n \in 0..MaxSize, NEW f \in [1..n -> 0..(2 * MaxSize)]
  PROVE  f \in Content /\ Len(f) = n
<1>1. f \in Content
  BY DEF Content
<1>2. n \in Nat /\ f \in Seq(0..(2 * MaxSize))
  BY SeqDef DEF UploadAssumption
<1>3. DOMAIN f = 1..n /\ DOMAIN f = 1..Len(f) /\ Len(f) \in Nat
  BY <1>2, LenProperties
<1> QED BY <1>1, <1>2, <1>3

\* And the other way round.
LEMMA ContentLength ==
  ASSUME UploadAssumption, NEW f \in Content
  PROVE  Len(f) \in 0..MaxSize /\ f \in [1..Len(f) -> 0..(2 * MaxSize)]
<1>1. PICK n \in 0..MaxSize : f \in [1..n -> 0..(2 * MaxSize)]
  BY DEF Content
<1> QED BY <1>1, LengthOf

\* What was sent, cleaned or not, has the size that was declared.
LEMMA Hashed ==
  ASSUME UploadAssumption, NilAssumption, size \in 1..MaxSize
  PROVE  /\ Sent \in Content /\ Cleaned \in Content /\ Verified \in Content
         /\ Len(Sent) = size /\ Len(Cleaned) = size /\ Len(Verified) = size
         /\ Sent # Nil /\ Cleaned # Nil /\ Verified # Nil
<1>1. Sent \in [1..size -> 0..(2 * MaxSize)]
  BY DEF Sent, UploadAssumption
<1>2. Cleaned \in [1..size -> 0..(2 * MaxSize)]
  BY DEF Cleaned, UploadAssumption
<1>3. size \in 0..MaxSize
  BY DEF UploadAssumption
<1>4. Sent \in Content /\ Len(Sent) = size /\ Cleaned \in Content /\ Len(Cleaned) = size
  BY <1>1, <1>2, <1>3, LengthOf
<1> QED BY <1>4 DEF Verified, NilAssumption

\* A write ends the file after its piece.
LEMMA WrittenEnds ==
  ASSUME UploadAssumption, NilAssumption, file \in Content, NEW q \in Piece
  PROVE  Written(q) \in Content /\ Len(Written(q)) = q.offset + 1 /\ Written(q) # Nil
<1>1. q.offset \in 0..(MaxSize - 1) /\ q.data \in 0..MaxSize /\ q.offset + 1 \in 0..MaxSize
  BY DEF Piece, UploadAssumption
<1>2. file \in [1..Len(file) -> 0..(2 * MaxSize)] /\ Len(file) \in 0..MaxSize
  BY ContentLength
<1>3. \A i \in 1..(q.offset + 1) :
        (IF i = q.offset + 1 THEN q.data ELSE IF i <= Len(file) THEN file[i] ELSE 0) \in 0..(2 * MaxSize)
  BY <1>1, <1>2 DEF UploadAssumption
<1>4. Written(q) \in [1..(q.offset + 1) -> 0..(2 * MaxSize)]
  BY <1>3 DEF Written
<1> QED BY <1>1, <1>4, LengthOf DEF NilAssumption

\* A write at the end of what was sent so far adds its piece.
LEMMA WrittenNext ==
  ASSUME UploadAssumption, NEW q \in Piece, q.data = q.offset + 1, file = Upto(q.offset), file \in Content
  PROVE  Written(q) = Upto(q.offset + 1)
<1>1. q.offset \in 0..(MaxSize - 1)
  BY DEF Piece
<1>2. file \in [1..q.offset -> 0..(2 * MaxSize)]
  <2>1. \A i \in 1..q.offset : i \in 0..(2 * MaxSize)
    BY <1>1 DEF UploadAssumption
  <2> QED BY <2>1 DEF Upto
<1>3. Len(file) = q.offset
  BY <1>1, <1>2, LengthOf DEF UploadAssumption
<1> QED BY <1>1, <1>3 DEF Written, Upto

\* All pieces in their order are the file.
LEMMA WholeIsSent ==
  ASSUME file = Upto(size)
  PROVE  file = Sent
BY DEF Upto, Sent

----------------------------------------------------------------------------
(* The steps *)

\* What each step may count on.
Uploading == UploadAssumption /\ NilAssumption /\ UploadInv

\* A piece on its way has a place in the file.
LEMMA PieceTypes ==
  ASSUME Uploading, NEW p \in Puts, puts[p] # Nil
  PROVE  /\ puts[p] \in Piece /\ puts[p].offset \in 0..(size - 1) /\ puts[p].data \in 0..size
         /\ puts[p].wrote \in BOOLEAN /\ puts[p].offset + 1 \in 1..size
<1>1. puts[p] \in Piece
  BY DEF Uploading, UploadInv, UploadTypeOK
<1>2. size \in 1..MaxSize /\ MaxSize \in Nat
  BY DEF Uploading, UploadInv, UploadTypeOK, UploadAssumption
<1>3. puts[p].offset < size /\ puts[p].data <= size
  BY DEF Uploading, UploadInv, Fits
<1> QED BY <1>1, <1>2, <1>3 DEF Piece

\* The client sends a piece at the offset it was told, or is told another.
LEMMA PutPieceKeeps ==
  ASSUME Uploading, NEW p \in Puts, PutPiece(p)
  PROVE  UploadInv'
<1>1. /\ size \in 1..MaxSize /\ MaxSize \in Nat /\ at \in 0..size /\ received \in 0..size
      /\ at < size /\ puts[p] = Nil /\ stored # "refused" /\ state # "gone" /\ mine = Nil
      /\ puts \in [Puts -> Piece \cup {Nil}] /\ faults \in 0..MaxFaults /\ MaxFaults \in Nat
  BY DEF Uploading, UploadInv, UploadTypeOK, UploadAssumption, PutPiece
<1>2. UNCHANGED <<size, gps, barred, denied, state, received, file, final, pc, stored, attempts, late, overrun>>
  BY DEF PutPiece, row
<1>3. CASE ~MayPut(at)
  <2>1. at' = received /\ UNCHANGED <<puts, mine, faults>>
    BY <1>3 DEF PutPiece, ResumeAt
  <2> QED BY <1>1, <1>2, <2>1 DEF Uploading, UploadInv, UploadTypeOK, Fits, OneWrites, Writing, Completes,
       Keeps, Ends, InOrder, Sent, Cleaned, Verified, Upto
<1>4. CASE MayPut(at)
  <2>1. PICK d \in {at + 1, 0} :
          /\ puts' = [puts EXCEPT ![p] = [offset |-> received, data |-> d, wrote |-> FALSE]]
          /\ (d = at + 1 /\ faults' = faults) \/ (faults' = faults + 1 /\ faults < MaxFaults)
          /\ mine' = p /\ at' = at
    BY <1>4, <1>1 DEF PutPiece, MayPut
  <2>2. received = at /\ state = "open"
    BY <1>4 DEF MayPut
  <2> DEFINE q == [offset |-> received, data |-> d, wrote |-> FALSE]
  <2>3. /\ q \in Piece /\ q.offset = received /\ q.data = d /\ ~q.wrote /\ q.offset < size /\ q.data <= size
    BY <1>1, <2>1, <2>2 DEF Piece
  <2>4. \A x \in Puts : puts'[x] = IF x = p THEN q ELSE puts[x]
    BY <1>1, <2>1
  <2>5. \A x \in Puts : Writing(x)' <=> Writing(x)
    BY <1>1, <2>3, <2>4 DEF Writing
  <2> HIDE DEF q
  <2>6. UploadTypeOK'
    <3>1. puts' \in [Puts -> Piece \cup {Nil}]
      BY <1>1, <2>1, <2>3 DEF q
    <3> QED BY <1>1, <1>2, <2>1, <3>1 DEF Uploading, UploadInv, UploadTypeOK
  <2>7. Fits'
    BY <1>2, <2>3, <2>4 DEF Uploading, UploadInv, Fits
  <2>8. OneWrites'
    BY <2>5 DEF Uploading, UploadInv, OneWrites
  <2>9. Completes'
    BY <1>1, <1>2, <2>1 DEF Uploading, UploadInv, Completes
  <2>10. (overrun \/ (Keeps /\ Ends))'
    BY <1>1, <1>2, <2>4, <2>5 DEF Uploading, UploadInv, Keeps, Ends, Sent, Cleaned, Verified, Writing
  <2>11. (faults > 0 \/ late \/ InOrder)'
    <3>1. CASE faults' = faults + 1
      BY <1>1, <3>1
    <3>2. CASE faults' = faults /\ d = at + 1 /\ ~late /\ ~(faults > 0)
      <4>1. InOrder
        BY <3>2 DEF Uploading, UploadInv
      <4> QED BY <1>1, <1>2, <2>1, <2>2, <2>3, <2>4, <2>5, <3>2, <4>1 DEF InOrder, Upto, Writing
    <3> QED BY <1>2, <2>1, <3>1, <3>2 DEF Uploading, UploadInv
  <2> QED BY <2>6, <2>7, <2>8, <2>9, <2>10, <2>11 DEF UploadInv
<1> QED BY <1>3, <1>4

\* The body is written at the offset of the row read before: late, when a piece was committed since, and over a
\* verified file, when a completion was.
LEMMA PutWriteKeeps ==
  ASSUME Uploading, NEW p \in Puts, PutWrite(p)
  PROVE  UploadInv'
<1>1. /\ size \in 1..MaxSize /\ MaxSize \in Nat /\ at \in 0..size /\ received \in 0..size
      /\ puts \in [Puts -> Piece \cup {Nil}] /\ faults \in 0..MaxFaults /\ MaxFaults \in Nat
      /\ file \in Content \cup {Nil} /\ {gps, late, overrun} \subseteq BOOLEAN
  BY DEF Uploading, UploadInv, UploadTypeOK, UploadAssumption
<1>2. UNCHANGED <<size, gps, barred, denied, state, received, final, pc, stored, attempts, faults>>
  BY DEF PutWrite, row
<1>3. puts[p] # Nil /\ \A x \in Puts : ~Writing(x)
  BY DEF PutWrite, Writing
<1>4. CASE file = Nil
  <2>1. /\ UNCHANGED <<file, late, overrun>> /\ puts' = [puts EXCEPT ![p] = Nil]
        /\ at' \in {at, 0} /\ mine' \in {mine, Nil}
    BY <1>4 DEF PutWrite, End
  <2>2. \A x \in Puts : puts'[x] = IF x = p THEN Nil ELSE puts[x]
    BY <1>1, <2>1
  <2>3. \A x \in Puts : ~Writing(x)'
    BY <1>3, <2>2 DEF Writing
  <2>4. UploadTypeOK' /\ Fits' /\ OneWrites' /\ Completes'
    BY <1>1, <1>2, <2>1, <2>2, <2>3
       DEF Uploading, UploadInv, UploadTypeOK, Fits, OneWrites, Completes
  <2>5. (overrun \/ (Keeps /\ Ends))'
    BY <1>1, <1>2, <2>1, <2>3 DEF Uploading, UploadInv, Keeps, Ends, Sent, Cleaned, Verified
  <2>6. (faults > 0 \/ late \/ InOrder)'
    BY <1>1, <1>2, <1>3, <2>1, <2>2, <2>3 DEF Uploading, UploadInv, InOrder, Upto
  <2> QED BY <2>4, <2>5, <2>6 DEF UploadInv
<1>5. CASE file # Nil
  <2> DEFINE q == puts[p]
  <2>1. q \in Piece /\ q.offset \in 0..(size - 1) /\ q.offset + 1 \in 1..size /\ q.data \in 0..size
    BY <1>3, PieceTypes
  <2>2. /\ file' = Written(q) /\ UNCHANGED <<at, mine>>
        /\ puts' = [puts EXCEPT ![p].wrote = TRUE]
        /\ late' = (late \/ ~MayPut(q.offset)) /\ overrun' = (overrun \/ state # "open" \/ pc # "idle")
    BY <1>5 DEF PutWrite
  <2>3. puts'[p] \in Piece /\ puts'[p].offset = q.offset /\ puts'[p].data = q.data /\ puts'[p].wrote
    BY <1>1, <2>1, <2>2 DEF Piece
  <2>4. \A x \in Puts : x # p => puts'[x] = puts[x]
    BY <1>1, <2>2
  <2>5. \A x \in Puts : Writing(x)' => x = p
    BY <1>3, <2>4 DEF Writing
  <2>6. Written(q) \in Content /\ Len(Written(q)) = q.offset + 1 /\ Written(q) # Nil
    BY <1>1, <1>5, <2>1, WrittenEnds DEF Uploading
  <2> HIDE DEF q
  <2>7. UploadTypeOK'
    <3>1. puts' \in [Puts -> Piece \cup {Nil}]
      BY <1>1, <2>2, <2>3
    <3>2. late' \in BOOLEAN /\ overrun' \in BOOLEAN
      BY <1>1, <2>2 DEF MayPut
    <3> QED BY <1>2, <2>2, <2>6, <3>1, <3>2 DEF Uploading, UploadInv, UploadTypeOK
  <2>8. Fits' /\ OneWrites'
    BY <1>1, <1>2, <2>1, <2>3, <2>4, <2>5 DEF Uploading, UploadInv, Fits, OneWrites
  <2>9. Completes'
    <3>1. ~(state = "complete" /\ file' = Nil) /\ file' # Nil /\ ~(pc = "read" /\ state = "gone")
      BY <1>5, <2>2, <2>6 DEF Uploading, UploadInv, Completes
    <3> QED BY <1>2, <3>1 DEF Uploading, UploadInv, Completes
  <2>10. (overrun \/ (Keeps /\ Ends))'
    <3>1. CASE overrun \/ state # "open" \/ pc # "idle"
      BY <2>2, <3>1
    <3>2. CASE ~overrun /\ state = "open" /\ pc = "idle"
      <4>1. Keeps'
        BY <1>2, <3>2 DEF Keeps
      <4>2. Ends'
        BY <1>2, <2>2, <2>3, <2>5, <2>6, <3>2 DEF Ends
      <4> QED BY <4>1, <4>2
    <3> QED BY <3>1, <3>2
  <2>11. (faults > 0 \/ late \/ InOrder)'
    <3>1. CASE faults > 0 \/ late \/ ~MayPut(q.offset)
      BY <1>2, <2>2, <3>1
    <3>2. CASE ~(faults > 0) /\ ~late /\ state = "open" /\ q.offset = received
      <4>1. InOrder
        BY <3>2 DEF Uploading, UploadInv
      <4>2. q.data = q.offset + 1 /\ pc = "idle"
        BY <1>1, <1>3, <2>1, <3>2, <4>1 DEF InOrder, q
      <4>3. file = Upto(received)
        BY <1>3, <3>2, <4>1, <4>2 DEF InOrder
      <4>4. file' = Upto(received + 1)
        BY <1>1, <1>5, <2>1, <2>2, <3>2, <4>2, <4>3, WrittenNext DEF Uploading
      <4>5. Writing(p)'
        BY <2>3 DEF Writing, Uploading, NilAssumption
      <4> QED BY <1>2, <2>2, <2>3, <2>4, <2>5, <3>2, <4>1, <4>2, <4>4, <4>5 DEF InOrder, Upto
    <3> QED BY <3>1, <3>2 DEF MayPut
  <2> QED BY <2>7, <2>8, <2>9, <2>10, <2>11 DEF UploadInv
<1> QED BY <1>4, <1>5

\* The offset becomes the end of the piece.  If the file was verified in between, it is the end of the file as well.
LEMMA PutCommitKeeps ==
  ASSUME Uploading, NEW p \in Puts, PutCommit(p)
  PROVE  UploadInv'
<1>1. /\ size \in 1..MaxSize /\ MaxSize \in Nat /\ at \in 0..size /\ received \in 0..size
      /\ puts \in [Puts -> Piece \cup {Nil}] /\ file \in Content \cup {Nil}
  BY DEF Uploading, UploadInv, UploadTypeOK, UploadAssumption
<1>2. UNCHANGED <<size, gps, barred, denied, state, file, final, pc, stored, attempts, faults, late, overrun>>
  BY DEF PutCommit
<1>3. Writing(p) /\ puts' = [puts EXCEPT ![p] = Nil]
  BY DEF PutCommit, Writing, End
<1> DEFINE end == puts[p].offset + 1
<1>4. end \in 1..size
  BY <1>3, PieceTypes DEF Writing
<1>5. \/ state = "gone" /\ received' = received /\ at' \in {at, 0} /\ mine' \in {mine, Nil}
      \/ state # "gone" /\ received' = end /\ at' \in {at, end} /\ mine' \in {mine, Nil}
  BY DEF PutCommit, End
<1> HIDE DEF end
<1>6. \A x \in Puts : puts'[x] = IF x = p THEN Nil ELSE puts[x]
  BY <1>1, <1>3
<1>7. \A x \in Puts : ~Writing(x)'
  <2>1. \A x \in Puts : x # p => ~Writing(x)
    BY <1>3 DEF Uploading, UploadInv, OneWrites
  <2> QED BY <1>6, <2>1 DEF Writing
<1>8. UploadTypeOK' /\ Fits' /\ OneWrites'
  BY <1>1, <1>2, <1>3, <1>4, <1>5, <1>6, <1>7
     DEF Uploading, UploadInv, UploadTypeOK, Fits, OneWrites
<1>9. Completes'
  BY <1>2 DEF Uploading, UploadInv, Completes
<1>10. (overrun \/ (Keeps /\ Ends))'
  <2>1. SUFFICES ASSUME ~overrun PROVE Keeps' /\ Ends'
    BY <1>2
  <2>2. Keeps /\ Ends
    BY <2>1 DEF Uploading, UploadInv
  <2>3. Keeps'
    BY <1>2, <2>2 DEF Keeps, Sent, Cleaned, Verified
  <2>4. CASE state = "gone"
    BY <1>2, <1>7, <2>3, <2>4 DEF Ends
  <2>5. CASE state \in {"complete", "attached"}
    <3>1. end = size
      BY <1>3, <2>2, <2>5 DEF Ends, end
    <3> QED BY <1>2, <1>5, <1>7, <2>3, <2>5, <3>1 DEF Ends
  <2>6. CASE state = "open"
    <3>1. pc \in {"read", "good", "cleaned"} => Len(file) = end
      BY <1>3, <2>2, <2>6 DEF Ends, end, Uploading, UploadInv, Completes, NilAssumption
    <3>2. pc \in {"good", "cleaned"} => Len(file) = size
      BY <1>1, <2>2, <2>6, Hashed DEF Keeps, Uploading
    <3> QED BY <1>2, <1>5, <1>7, <2>3, <2>6, <3>1, <3>2 DEF Ends
  <2> QED BY <2>4, <2>5, <2>6 DEF Uploading, UploadInv, UploadTypeOK
<1>11. (faults > 0 \/ late \/ InOrder)'
  <2>1. SUFFICES ASSUME ~(faults > 0), ~late PROVE InOrder'
    BY <1>2
  <2>2. InOrder
    BY <2>1 DEF Uploading, UploadInv
  <2>3. state # "gone" => /\ state = "open" /\ pc = "idle" /\ end = received + 1 /\ file = Upto(end)
    BY <1>3, <2>2 DEF InOrder, end
  <2> QED BY <1>1, <1>2, <1>4, <1>5, <1>6, <1>7, <2>2, <2>3 DEF InOrder, Upto
<1> QED BY <1>8, <1>9, <1>10, <1>11 DEF UploadInv

\* The completion begins at the last offset, where nothing is being written unless it is late.
LEMMA CompleteKeeps ==
  ASSUME Uploading, Complete
  PROVE  UploadInv'
<1>1. /\ size \in 1..MaxSize /\ MaxSize \in Nat /\ at \in 0..size /\ received \in 0..size
      /\ puts \in [Puts -> Piece \cup {Nil}] /\ file \in Content \cup {Nil}
      /\ at = size /\ pc = "idle" /\ stored = Nil /\ state # "gone"
  BY DEF Uploading, UploadInv, UploadTypeOK, UploadAssumption, Complete, AtEnd
<1>2. UNCHANGED <<size, gps, barred, denied, state, received, file, final, puts, at, mine, attempts, faults, late, overrun>>
  BY DEF Complete, row, client
<1>3. \/ state # "open" /\ stored' = "ok" /\ pc' = pc
      \/ state = "open" /\ received # size /\ stored' = "refused" /\ pc' = pc
      \/ state = "open" /\ received = size /\ pc' = "read" /\ stored' = stored
  BY DEF Complete
<1>4. \A p \in Puts : Writing(p)' <=> Writing(p)
  BY <1>2 DEF Writing
<1>5. Nil \notin {"ok", "refused"}
  BY DEF Uploading, NilAssumption
<1>6. UploadTypeOK'
  BY <1>1, <1>2, <1>3 DEF Uploading, UploadInv, UploadTypeOK
<1>7. Fits' /\ OneWrites'
  BY <1>2, <1>4 DEF Uploading, UploadInv, Fits, OneWrites
<1>8. Completes'
  BY <1>1, <1>2, <1>3 DEF Uploading, UploadInv, Completes
<1>9. (overrun \/ (Keeps /\ Ends))'
  <2>1. SUFFICES ASSUME ~overrun PROVE Keeps' /\ Ends'
    BY <1>2
  <2>2. Keeps /\ Ends
    BY <2>1 DEF Uploading, UploadInv
  <2>3. Keeps'
    BY <1>1, <1>2, <1>3, <2>2 DEF Keeps, Sent, Cleaned, Verified
  <2>4. Ends'
    BY <1>1, <1>2, <1>3, <1>4, <1>5, <2>2 DEF Ends
  <2> QED BY <2>3, <2>4
<1>10. (faults > 0 \/ late \/ InOrder)'
  <2>1. SUFFICES ASSUME ~(faults > 0), ~late PROVE InOrder'
    BY <1>2
  <2>2. InOrder
    BY <2>1 DEF Uploading, UploadInv
  <2>3. state = "open" => received = size
    BY <1>1, <2>2 DEF InOrder
  <2>4. state = "open" => \A p \in Puts : ~Writing(p)
    <3> SUFFICES ASSUME state = "open", NEW p \in Puts, Writing(p) PROVE FALSE
      OBVIOUS
    <3>1. puts[p].offset = size
      BY <2>2, <2>3 DEF InOrder
    <3> QED BY <1>1, <3>1, PieceTypes DEF Writing
  <2>5. stored' # "refused"
    BY <1>1, <1>3, <1>5, <2>3
  <2> QED BY <1>1, <1>2, <1>3, <1>4, <2>2, <2>3, <2>4, <2>5 DEF InOrder, Upto
<1> QED BY <1>6, <1>7, <1>8, <1>9, <1>10 DEF UploadInv

\* Each step of the completion hands on what it found: the hash matched, the file is clean, the row is complete.
LEMMA CompletingKeeps ==
  ASSUME Uploading, Completing
  PROVE  UploadInv'
<1>1. /\ size \in 1..MaxSize /\ MaxSize \in Nat /\ at \in 0..size /\ received \in 0..size
      /\ state \in {"open", "complete", "attached", "gone"} /\ file \in Content \cup {Nil}
      /\ Nil \notin {"ok", "refused"} /\ gps \in BOOLEAN
  BY DEF Uploading, UploadInv, UploadTypeOK, UploadAssumption, NilAssumption
<1>2. UNCHANGED <<size, gps, barred, denied, final, puts, at, mine, attempts, faults, late, overrun>>
  BY DEF Completing, client
<1>3. \A p \in Puts : (Writing(p)' <=> Writing(p)) /\ (Writing(p) => puts[p].offset + 1 \in 1..size)
  BY <1>2, PieceTypes DEF Writing
<1>4. /\ Sent' = Sent /\ Cleaned' = Cleaned /\ Verified' = Verified
      /\ Sent \in Content /\ Cleaned \in Content /\ Len(Sent) = size /\ Len(Cleaned) = size
      /\ Sent # Nil /\ Cleaned # Nil
  BY <1>1, <1>2, Hashed DEF Uploading, Sent, Cleaned, Verified
<1>5. Fits' /\ OneWrites'
  BY <1>2, <1>3 DEF Uploading, UploadInv, Fits, OneWrites
<1>6. UploadTypeOK /\ Completes
  BY DEF Uploading, UploadInv
<1>7. ~overrun => Keeps /\ Ends
  BY DEF Uploading, UploadInv
<1>8. ~(faults > 0) /\ ~late => InOrder
  BY DEF Uploading, UploadInv
\* What each step leaves is enough for the rest.
<1> SUFFICES /\ UploadTypeOK' /\ Completes'
             /\ ~overrun => (Keeps /\ Ends)'
             /\ ~(faults > 0) /\ ~late => InOrder'
  BY <1>2, <1>5 DEF UploadInv
<1>9. CASE pc = "read" /\ file = Nil /\ pc' = "idle" /\ UNCHANGED <<row, file, stored>>
  <2>1. state = "gone"
    BY <1>6, <1>9 DEF Completes
  <2>2. UploadTypeOK' /\ Completes'
    BY <1>2, <1>6, <1>9, <2>1 DEF UploadTypeOK, Completes, row
  <2>3. ~overrun => (Keeps /\ Ends)'
    BY <1>2, <1>3, <1>9, <2>1 DEF Keeps, Ends, row
  <2>4. ~(faults > 0) /\ ~late => InOrder'
    BY <1>2, <1>3, <1>8, <1>9, <2>1 DEF InOrder, row
  <2> QED BY <2>2, <2>3, <2>4
<1>10. CASE pc = "read" /\ file # Nil /\ pc' = (IF Matches THEN "good" ELSE "bad") /\ UNCHANGED <<row, file, stored>>
  <2>1. state = "open"
    BY <1>6, <1>10 DEF Completes
  <2>2. UploadTypeOK' /\ Completes'
    BY <1>2, <1>6, <1>10, <2>1 DEF UploadTypeOK, Completes, row
  <2>3. pc' = "good" => file = Sent /\ Len(file) = size
    BY <1>4, <1>10 DEF Matches
  <2>4. ~overrun => (Keeps /\ Ends)'
    BY <1>2, <1>3, <1>4, <1>7, <1>10, <2>1, <2>3 DEF Keeps, Ends, row
  <2>5. ~(faults > 0) /\ ~late => InOrder'
    <3> SUFFICES ASSUME InOrder PROVE InOrder'
      BY <1>8
    <3>1. received = size /\ \A p \in Puts : ~Writing(p)
      BY <1>10, <2>1 DEF InOrder
    <3>2. file = Sent
      BY <1>10, <2>1, <3>1, WholeIsSent DEF InOrder
    <3> QED BY <1>2, <1>3, <1>10, <2>1, <3>1, <3>2 DEF InOrder, Matches, row, Upto
  <2> QED BY <2>2, <2>4, <2>5
<1>11. CASE pc = "good" /\ file' = (IF gps THEN Cleaned ELSE file) /\ pc' = "cleaned" /\ UNCHANGED <<row, stored>>
  <2>1. state \in {"open", "gone"} /\ stored = Nil
    BY <1>6, <1>11 DEF Completes
  <2>2. UploadTypeOK'
    BY <1>1, <1>2, <1>4, <1>6, <1>11 DEF UploadTypeOK, row
  <2>3. Completes'
    BY <1>2, <1>4, <1>6, <1>11, <2>1 DEF Completes, row
  <2>4. ~overrun => (Keeps /\ Ends)'
    <3> SUFFICES ASSUME Keeps, Ends PROVE Keeps' /\ Ends'
      BY <1>7
    <3>1. state = "open" => file = Sent /\ received = size /\ Len(file) = size
      BY <1>4, <1>11 DEF Keeps, Ends
    <3>2. state = "open" => file' = Verified /\ Len(file') = size
      BY <1>4, <1>11, <3>1 DEF Verified
    <3>3. state = "open" => \A p \in Puts : Writing(p) => puts[p].offset + 1 = size
      BY <1>1, <1>3, <1>11, <2>1, <3>1 DEF Ends
    <3> QED BY <1>2, <1>3, <1>4, <1>11, <2>1, <3>1, <3>2, <3>3 DEF Keeps, Ends, row
  <2>5. ~(faults > 0) /\ ~late => InOrder'
    BY <1>2, <1>3, <1>8, <1>11, <2>1 DEF InOrder, row
  <2> QED BY <2>2, <2>3, <2>4, <2>5
<1>12. CASE pc = "bad" /\ file' = <<>> /\ pc' = "emptied" /\ UNCHANGED <<row, stored>>
  <2>1. <<>> \in Content /\ <<>> # Nil
    <3>1. <<>> \in [1..0 -> 0..(2 * MaxSize)] /\ 0 \in 0..MaxSize
      BY <1>1, SeqDef
    <3> QED BY <3>1 DEF Content, Uploading, NilAssumption
  <2>2. state \in {"open", "gone"} /\ stored = Nil
    BY <1>6, <1>12 DEF Completes
  <2>3. UploadTypeOK' /\ Completes'
    BY <1>2, <1>6, <1>12, <2>1, <2>2 DEF UploadTypeOK, Completes, row
  <2>4. ~overrun => (Keeps /\ Ends)'
    BY <1>2, <1>3, <1>7, <1>12, <2>2 DEF Keeps, Ends, row
  <2>5. ~(faults > 0) /\ ~late => InOrder'
    BY <1>8, <1>12 DEF InOrder
  <2> QED BY <2>3, <2>4, <2>5
<1>13. CASE pc \in {"cleaned", "emptied"} /\ state = "gone" /\ pc' = "idle" /\ UNCHANGED <<row, file, stored>>
  <2>1. UploadTypeOK' /\ Completes'
    BY <1>2, <1>6, <1>13 DEF UploadTypeOK, Completes, row
  <2>2. ~overrun => (Keeps /\ Ends)'
    BY <1>2, <1>3, <1>13 DEF Keeps, Ends, row
  <2>3. ~(faults > 0) /\ ~late => InOrder'
    BY <1>2, <1>3, <1>8, <1>13 DEF InOrder, row
  <2> QED BY <2>1, <2>2, <2>3
<1>14. CASE pc = "cleaned" /\ state # "gone" /\ state' = "complete" /\ pc' = "accepted" /\ UNCHANGED <<received, file, stored>>
  <2>1. state = "open" /\ file # Nil /\ stored = Nil
    BY <1>1, <1>6, <1>14 DEF Completes
  <2>2. UploadTypeOK' /\ Completes'
    BY <1>2, <1>6, <1>14, <2>1 DEF UploadTypeOK, Completes
  <2>3. ~overrun => (Keeps /\ Ends)'
    <3> SUFFICES ASSUME Keeps, Ends PROVE Keeps' /\ Ends'
      BY <1>7
    <3>1. file = Verified /\ received = size /\ Len(file) = size
      BY <1>4, <1>14, <2>1 DEF Keeps, Ends, Verified
    <3>2. \A p \in Puts : Writing(p) => puts[p].offset + 1 = size
      BY <1>1, <1>3, <1>14, <2>1, <3>1 DEF Ends
    <3> QED BY <1>2, <1>3, <1>4, <1>14, <3>1, <3>2 DEF Keeps, Ends
  <2>4. ~(faults > 0) /\ ~late => InOrder'
    BY <1>2, <1>3, <1>8, <1>14, <2>1 DEF InOrder
  <2> QED BY <2>2, <2>3, <2>4
<1>15. CASE pc = "emptied" /\ state # "gone" /\ received' = 0 /\ pc' = "rejected" /\ UNCHANGED <<state, file, stored>>
  <2>1. state = "open" /\ stored = Nil
    BY <1>1, <1>6, <1>15 DEF Completes
  <2>2. UploadTypeOK' /\ Completes'
    BY <1>1, <1>2, <1>6, <1>15, <2>1 DEF UploadTypeOK, Completes
  <2>3. ~overrun => (Keeps /\ Ends)'
    BY <1>2, <1>3, <1>15, <2>1 DEF Keeps, Ends
  <2>4. ~(faults > 0) /\ ~late => InOrder'
    BY <1>8, <1>15 DEF InOrder
  <2> QED BY <2>2, <2>3, <2>4
<1>16. CASE /\ pc \in {"accepted", "rejected"} /\ stored' = (IF pc = "accepted" THEN "ok" ELSE "refused")
            /\ pc' = "idle" /\ UNCHANGED <<row, file>>
  <2>1. /\ pc = "accepted" => state \in {"complete", "gone"} /\ stored' = "ok"
        /\ pc = "rejected" => state \in {"open", "gone"} /\ stored' = "refused"
    BY <1>6, <1>16 DEF Completes
  <2>2. UploadTypeOK'
    BY <1>2, <1>6, <1>16 DEF UploadTypeOK, row
  <2>3. Completes'
    BY <1>2, <1>6, <1>16, <2>1 DEF Completes, row
  <2>4. ~overrun => (Keeps /\ Ends)'
    BY <1>2, <1>3, <1>4, <1>7, <1>16, <2>1 DEF Keeps, Ends, row
  <2>5. ~(faults > 0) /\ ~late => InOrder'
    BY <1>2, <1>3, <1>8, <1>16, <2>1 DEF InOrder, row
  <2> QED BY <2>2, <2>3, <2>4, <2>5
<1> QED BY <1>9, <1>10, <1>11, <1>12, <1>13, <1>14, <1>15, <1>16 DEF Completing

\* The file is moved, and attached by the next commit.
LEMMA AttachKeeps ==
  ASSUME Uploading, AttachMove \/ AttachCommit
  PROVE  UploadInv'
<1>1. UploadTypeOK /\ Completes
  BY DEF Uploading, UploadInv
<1>2. UNCHANGED <<size, gps, barred, denied, received, puts, stored, at, mine, attempts, faults, late, overrun>>
  BY DEF AttachMove, AttachCommit, row, client
<1>3. \A p \in Puts : Writing(p)' <=> Writing(p)
  BY <1>2 DEF Writing
<1>4. Fits' /\ OneWrites' /\ Verified' = Verified /\ Sent' = Sent
  BY <1>2, <1>3 DEF Uploading, UploadInv, Fits, OneWrites, Verified, Sent, Cleaned
<1>5. ~overrun => Keeps /\ Ends
  BY DEF Uploading, UploadInv
<1>6. ~(faults > 0) /\ ~late => InOrder
  BY DEF Uploading, UploadInv
<1>7. UploadTypeOK' /\ Completes'
  <2>1. CASE AttachMove
    BY <1>1, <1>2, <2>1 DEF AttachMove, Attaches, AtEnd, row, UploadTypeOK, Completes
  <2>2. CASE AttachCommit
    BY <1>1, <1>2, <2>2 DEF AttachCommit, UploadTypeOK, Completes
  <2> QED BY <2>1, <2>2
<1>8. ~overrun => (Keeps /\ Ends)'
  <2> SUFFICES ASSUME Keeps, Ends PROVE Keeps' /\ Ends'
    BY <1>5
  <2>1. CASE AttachMove
    <3>1. state = "complete" /\ state' = "complete" /\ file # Nil /\ final' = file /\ file' = Nil /\ pc' = "moved"
      BY <2>1 DEF AttachMove, Attaches, AtEnd, row
    <3> QED BY <1>2, <1>3, <1>4, <3>1 DEF Keeps, Ends
  <2>2. CASE AttachCommit
    <3>1. /\ pc = "moved" /\ pc' = "idle" /\ UNCHANGED <<file, final>> /\ state \in {"complete", "gone"}
          /\ state' = IF state = "gone" THEN state ELSE "attached"
      BY <1>1, <2>2 DEF AttachCommit, Completes
    <3> QED BY <1>2, <1>3, <1>4, <3>1 DEF Keeps, Ends
  <2> QED BY <2>1, <2>2
<1>9. ~(faults > 0) /\ ~late => InOrder'
  <2> SUFFICES ASSUME InOrder PROVE InOrder'
    BY <1>6
  <2>1. state \in {"complete", "gone"} /\ state' \in {"complete", "gone", "attached"} /\ pc' \in {"moved", "idle"}
    BY <1>1 DEF AttachMove, Attaches, AtEnd, AttachCommit, Completes, row
  <2>2. state' = "gone" <=> state = "gone"
    BY DEF AttachMove, Attaches, AtEnd, AttachCommit, row
  <2> QED BY <1>2, <1>3, <2>1, <2>2 DEF InOrder
<1> QED BY <1>2, <1>4, <1>7, <1>8, <1>9 DEF UploadInv

\* A refusal of the attach, and what leads to it, touch nothing but what is known of them.
LEMMA RefusedKeeps ==
  ASSUME Uploading, AttachRefused \/ Bar
  PROVE  UploadInv'
<1>1. /\ UNCHANGED <<size, gps, row, file, final, puts, pc, stored, client, faults, late, overrun>>
      /\ barred' \in BOOLEAN /\ denied' \in BOOLEAN /\ (denied' => barred')
  BY DEF AttachRefused, Bar, Uploading, UploadInv, UploadTypeOK, Completes
<1>2. \A p \in Puts : Writing(p)' <=> Writing(p)
  BY <1>1 DEF Writing
<1>3. UploadTypeOK' /\ Fits' /\ OneWrites' /\ Completes'
  BY <1>1, <1>2 DEF row, client, Uploading, UploadInv, UploadTypeOK, Fits, OneWrites, Completes
<1>4. (overrun \/ (Keeps /\ Ends))' /\ (faults > 0 \/ late \/ InOrder)'
  BY <1>1, <1>2 DEF row, client, Uploading, UploadInv, Keeps, Ends, InOrder, Sent, Cleaned, Verified, Upto
<1> QED BY <1>3, <1>4 DEF UploadInv

\* The client starts over, the server crashes, the upload expires.
LEMMA DisturbedKeeps ==
  ASSUME Uploading, StartOver \/ Crash \/ Purge
  PROVE  UploadInv'
<1>1. UploadTypeOK /\ Completes /\ size \in 1..MaxSize /\ MaxSize \in Nat /\ received \in 0..size /\ faults \in 0..MaxFaults
  BY DEF Uploading, UploadInv, UploadTypeOK, UploadAssumption
<1>2. UNCHANGED <<size, gps, barred, denied, received, final, stored, late, overrun>>
  BY DEF StartOver, Crash, Purge, row, client
<1>3. \A p \in Puts : \/ Crash /\ puts'[p] = Nil
                      \/ ~Crash /\ puts'[p] = puts[p]
  BY DEF StartOver, Crash, Purge
<1>4. \A p \in Puts : Writing(p)' <=> Writing(p) /\ ~Crash
  BY <1>3 DEF Writing
<1>5. Fits' /\ OneWrites'
  BY <1>2, <1>3, <1>4 DEF Uploading, UploadInv, Fits, OneWrites
<1>6. Verified' = Verified /\ Sent' = Sent
  BY <1>2 DEF Verified, Sent, Cleaned
<1>7. UploadTypeOK'
  <2>1. CASE StartOver
    BY <1>1, <1>2, <2>1 DEF StartOver, row, UploadTypeOK, Uploading, UploadAssumption
  <2>2. CASE Crash
    BY <1>1, <1>2, <2>2 DEF Crash, row, UploadTypeOK, Uploading, UploadAssumption
  <2>3. CASE Purge
    BY <1>1, <1>2, <2>3 DEF Purge, client, UploadTypeOK
  <2> QED BY <2>1, <2>2, <2>3
<1>8. Completes'
  <2>1. CASE StartOver
    BY <1>1, <1>2, <2>1 DEF StartOver, row, Completes
  <2>2. CASE Crash
    BY <1>1, <1>2, <2>2 DEF Crash, row, Completes, Uploading, UploadInv, UploadTypeOK, UploadAssumption
  <2>3. CASE Purge
    BY <1>1, <1>2, <2>3 DEF Purge, client, Completes
  <2> QED BY <2>1, <2>2, <2>3
<1>9. (overrun \/ (Keeps /\ Ends))'
  <2> SUFFICES ASSUME Keeps, Ends PROVE Keeps' /\ Ends'
    BY <1>2 DEF Uploading, UploadInv
  <2>1. CASE StartOver
    BY <1>2, <1>3, <1>4, <1>6, <2>1 DEF StartOver, row, Keeps, Ends
  <2>2. CASE Crash
    BY <1>2, <1>4, <1>6, <2>2 DEF Crash, row, Keeps, Ends
  <2>3. CASE Purge
    BY <1>2, <1>4, <1>6, <2>3 DEF Purge, Keeps, Ends
  <2> QED BY <2>1, <2>2, <2>3
<1>10. (faults > 0 \/ late \/ InOrder)'
  <2>1. CASE Crash
    BY <1>1, <2>1 DEF Crash
  <2>2. CASE ~Crash /\ ~(faults > 0) /\ ~late
    <3>1. InOrder
      BY <2>2 DEF Uploading, UploadInv
    <3>2. CASE StartOver
      BY <1>1, <1>2, <1>3, <1>4, <2>2, <3>1, <3>2 DEF StartOver, row, InOrder, Upto
    <3>3. CASE Purge
      BY <1>2, <1>3, <1>4, <2>2, <3>1, <3>3 DEF Purge, InOrder
    <3> QED BY <2>2, <3>2, <3>3
  <2>3. CASE faults > 0 \/ late
    BY <1>1, <1>2, <2>3 DEF StartOver, Crash, Purge
  <2> QED BY <2>1, <2>2, <2>3
<1> QED BY <1>5, <1>7, <1>8, <1>9, <1>10 DEF UploadInv

\* Every step keeps the invariant.
LEMMA UploadStep ==
  ASSUME Uploading, [UploadNext]_uploadVars
  PROVE  UploadInv'
<1>1. CASE UNCHANGED uploadVars
  BY <1>1 DEF uploadVars, row, client, Uploading, UploadInv, UploadTypeOK, Fits, OneWrites, Writing, Completes, Keeps,
     Ends, InOrder, Sent, Cleaned, Verified, Upto
<1>2. CASE UploadNext
  BY <1>2, PutPieceKeeps, PutWriteKeeps, PutCommitKeeps, CompleteKeeps, CompletingKeeps, AttachKeeps, RefusedKeeps,
     DisturbedKeeps
     DEF UploadNext
<1> QED BY <1>1, <1>2

\* A new upload has an empty file.
LEMMA UploadStarts ==
  ASSUME UploadAssumption, NilAssumption, UploadInit
  PROVE  UploadInv
<1>1. /\ size \in 1..MaxSize /\ MaxSize \in Nat /\ MaxAttempts \in Nat /\ MaxFaults \in Nat /\ faults = 0
      /\ received = 0 /\ at = 0 /\ state = "open" /\ pc = "idle" /\ stored = Nil /\ file = <<>> /\ final = Nil
      /\ Nil \notin {"ok", "refused"} /\ barred = FALSE /\ denied = FALSE
  BY DEF UploadInit, UploadAssumption, NilAssumption
<1>2. puts = [p \in Puts |-> Nil] /\ \A p \in Puts : puts[p] = Nil
  BY DEF UploadInit
<1>3. <<>> \in Content /\ <<>> # Nil
  <2>1. <<>> \in [1..0 -> 0..(2 * MaxSize)] /\ 0 \in 0..MaxSize
    BY <1>1, SeqDef
  <2> QED BY <2>1 DEF Content, NilAssumption
<1>4. UploadTypeOK
  <2>1. puts \in [Puts -> Piece \cup {Nil}]
    BY <1>2
  <2>2. {file, final} \subseteq Content \cup {Nil} /\ mine \in Puts \cup {Nil}
    BY <1>1, <1>3 DEF UploadInit
  <2>3. {gps, late, overrun, barred, denied} \subseteq BOOLEAN
    BY <1>1 DEF UploadInit
  <2>4. received \in 0..size /\ at \in 0..size /\ attempts \in 0..MaxAttempts /\ faults \in 0..MaxFaults
    BY <1>1 DEF UploadInit
  <2> QED BY <1>1, <2>1, <2>2, <2>3, <2>4 DEF UploadTypeOK
<1>5. Fits /\ OneWrites /\ Completes /\ Keeps /\ Ends
  BY <1>1, <1>2, <1>3 DEF Fits, OneWrites, Writing, Completes, Keeps, Ends
<1>6. InOrder
  <2>1. Upto(0) = <<>>
    BY DEF Upto
  <2> QED BY <1>1, <1>2, <2>1 DEF InOrder, Writing
<1> QED BY <1>4, <1>5, <1>6 DEF UploadInv

\* The inductive invariant of an upload.
LEMMA AlwaysUploads == UploadSpec => []UploadInv
<1>1. UploadInit => UploadInv
  BY UploadStarts, UploadAssumption, NilAssumption
<1>2. UploadInv /\ [UploadNext]_uploadVars => UploadInv'
  BY UploadStep, UploadAssumption, NilAssumption DEF Uploading
<1> QED BY <1>1, <1>2, PTL DEF UploadSpec

----------------------------------------------------------------------------
(* The theorems about uploads *)

\* uploads.py: for a file of any size and however many requests overlap, the row, the file at its path and the
\* pieces under way keep their types; the offset never passes the size that was declared.
THEOREM UploadTypes == UploadSpec => []UploadTypeOK
<1>1. UploadInv => UploadTypeOK
  BY DEF UploadInv
<1> QED BY <1>1, AlwaysUploads, PTL

\* complete_upload and _attach: a verified file, and the one that is attached, is the file the device hashed,
\* without its location, through any faults and overlaps; unless a piece whose body came late overran it.
THEOREM AttachedIsWhole == UploadSpec => []WholeFile
<1>1. UploadInv => WholeFile
  BY DEF UploadInv, Keeps, WholeFile
<1> QED BY <1>1, AlwaysUploads, PTL

\* The safety half of Arrives.  A refusal that is stored under the key of the complete or of the attach, a verified
\* upload without a file and a verified upload whose offset is not its end have the one cause each that the four
\* ends name: without faults, late pieces and a record that stopped taking the file nobody meets them.
THEOREM EndsHaveCauses ==
  UploadSpec => [](/\ stored = "refused" => Refused
                   /\ state = "complete" /\ denied => Denied
                   /\ state = "complete" /\ file = Nil /\ pc = "idle" => Lost
                   /\ state \in {"complete", "attached"} /\ received < size => Spins)
<1> DEFINE Causes ==
  /\ stored = "refused" => Refused
  /\ state = "complete" /\ denied => Denied
  /\ state = "complete" /\ file = Nil /\ pc = "idle" => Lost
  /\ state \in {"complete", "attached"} /\ received < size => Spins
<1>1. UploadInv => Causes
  <2> SUFFICES ASSUME UploadInv PROVE Causes
    OBVIOUS
  <2>1. stored = "refused" => Refused
    BY DEF UploadInv, InOrder, Refused
  <2>2. state = "complete" /\ denied => Denied
    BY DEF UploadInv, Completes, Denied
  <2>3. state = "complete" /\ file = Nil /\ pc = "idle" => Lost
    BY DEF UploadInv, Completes, Lost
  <2>4. state \in {"complete", "attached"} /\ received < size => Spins
    BY DEF UploadInv, Ends, UploadTypeOK, Spins
  <2> QED BY <2>1, <2>2, <2>3, <2>4
<1> QED BY <1>1, AlwaysUploads, PTL
=============================================================================
