--------------------------- MODULE PublishedView ----------------------------
(***************************************************************************)
(* What a source stream promises to the people who read its records:       *)
(* they see one claim set the source really stated, as a whole; without a  *)
(* person's act it is only ever replaced by one that just arrived and that *)
(* does not make too much disappear; while the scope is frozen nothing new *)
(* is heard.  No revision numbers, no event log, no review queue.          *)
(***************************************************************************)
EXTENDS Integers, FiniteSets

CONSTANTS Refs, RefOf, Exists, GuardShare, GuardMin

VARIABLES heard,   \* the claim sets the source has stated so far
          shown,   \* the claims the records are made of
          frozen,
          pinned   \* the subjects that other work depends on

view == <<heard, shown, frozen, pinned>>

Subjects(claims) == {RefOf[c] : c \in claims \cap Exists}

\* Going from old to new would lose too many subjects, or a pinned one.
TooMuch(old, new) ==
  LET gone == Subjects(old) \ Subjects(new) IN
  \/ /\ Subjects(old) # {}
     /\ 100 * Cardinality(gone) > GuardShare * Cardinality(Subjects(old))
     /\ Cardinality(gone) >= GuardMin
  \/ gone \cap pinned # {}

Init == heard = {} /\ shown = {} /\ frozen = FALSE /\ pinned = {}

\* The source states a claim set: shown at once, or kept for a person.
Hear(said) ==
  /\ ~frozen
  /\ shown' = IF TooMuch(shown, said) THEN shown ELSE said
  /\ UNCHANGED <<frozen, pinned>>
  /\ heard' = heard \cup {said}

\* A person's act: what they picked of all that was stated is shown, or, since claim sets kept for a person
\* are looked at again, another one that follows a stated one without too much disappearing.
Choose(picked) ==
  /\ picked \in heard
  /\ \/ shown' = picked
     \/ shown' \in heard /\ \E before \in heard : ~TooMuch(before, shown')
  /\ UNCHANGED <<frozen, pinned, heard>>

Seal(f) == frozen' = f /\ UNCHANGED <<shown, pinned, heard>>

Depend(refs) == pinned' = refs /\ UNCHANGED <<shown, frozen, heard>>

\* Whatever happens without a person who picks.
Unasked ==
  \/ \E f \in BOOLEAN : Seal(f)
  \/ \E refs \in SUBSET Refs : Depend(refs)
  \/ \E said \in heard' : Hear(said)

Next == Unasked \/ \E picked \in heard : Choose(picked)

Spec == Init /\ [][Next]_view
=============================================================================
