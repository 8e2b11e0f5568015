------------------------------ MODULE Decisions ------------------------------
(***************************************************************************)
(* The decisions of people and the controlled bulk changes:                *)
(* src/backend/app/ledger/engine.py, service.py and bulk.py.               *)
(*                                                                         *)
(* Decisions are only appended.  Which of them are in force is computed    *)
(* from all of them each time (_ended), and so is the value of a record,   *)
(* which is written to the record for the readers (project_subject).  One  *)
(* fact of each record is modelled; a value of None is what the sources    *)
(* say when no decision is in force.                                       *)
(*                                                                         *)
(* The log is in the order of the commits.  A decision takes its seq when  *)
(* it is flushed, so one that commits later may have a lower seq.  An edit *)
(* may be slow: it reads, takes its number, shows the record anew and      *)
(* commits, and others commit in between.  Nothing locks the record.  The  *)
(* other requests are quick: a slow confirmation of POST /decisions does   *)
(* what an edit does that saw no decision.                                 *)
(***************************************************************************)
EXTENDS Integers, SequencesExt

CONSTANTS Records, Values, Changes,
          Large,    \* changes above APPROVAL_THRESHOLD records
          MaxLog,   \* bound: decisions
          MaxItems, \* bound: items of a POST /decisions
          MaxNames, \* bound: decisions one of them names
          None

ASSUME DecisionAssumption ==
  /\ {MaxLog, MaxItems, MaxNames} \subseteq Nat /\ IsFiniteSet(Records)
  /\ Large \subseteq Changes /\ None \notin Records \cup Values \cup Changes

VARIABLES log,        \* the decisions, as they were committed
          seq,        \* the place of each in the order of the seqs
          commits,    \* the lengths the log has had
          projected,  \* the value each record shows
          behind,     \* records shown by a request that did not see the whole log
          change      \* [Changes -> state, and the decisions of its batch]

vars == <<log, seq, commits, projected, behind, change>>

Kinds == {"confirm", "supersede", "retract", "revoke"}

Decision == [kind : Kinds, rec : Records \cup {None}, value : Values \cup {None},
             names : SUBSET (1..MaxLog)]

TypeOK ==
  /\ log \in Seq(Decision) /\ Len(log) <= MaxLog
  /\ \A d \in DOMAIN log : log[d].names \subseteq 1..(d - 1)
  /\ seq \in [DOMAIN log -> DOMAIN log] /\ commits \subseteq 0..Len(log)
  /\ projected \in [Records -> Values \cup {None}] /\ behind \subseteq Records
  /\ change \in [Changes -> [state : {"previewed", "awaiting_approval", "applied", "undone"},
                             batch : SUBSET DOMAIN log]]

Init ==
  /\ log = <<>> /\ seq = <<>> /\ commits = {0}
  /\ projected = [r \in Records |-> None] /\ behind = {}
  /\ change = [c \in Changes |-> [state |-> "previewed", batch |-> {}]]

----------------------------------------------------------------------------
(* What is in force, for who sees the decisions S of the log l *)

\* What the decisions of these kinds in S name.
Names(l, S, kinds) == UNION {l[d].names : d \in {x \in S : l[x].kind \in kinds}}

\* Mutant of Restored: only a revoked supersede gives back what it named.
RestoredSuperseded(l, S) == Names(l, S \cap Names(l, S, {"revoke"}), {"supersede"})

\* "A revoked supersede/retract no longer ends what it named."
Restored(l, S) == Names(l, S \cap Names(l, S, {"revoke"}), {"supersede", "retract"})

\* _ended.
Ended(l, S) == Names(l, S, {"supersede", "retract", "revoke"}) \ Restored(l, S)

\* _active_decisions.
Active(l, S, r) ==
  {d \in S : l[d].rec = r /\ l[d].kind \in {"confirm", "supersede"}} \ Ended(l, S)

\* Mutant of Value: the newest confirmation wins.
ValueNewest(l, q, S, r) ==
  LET active == Active(l, S, r)
  IN  IF active = {} THEN None ELSE l[CHOOSE d \in active : \A x \in active : q[d] >= q[x]].value

\* active[0]: the decision in force with the lowest seq holds until the conflict with the others is resolved.
Value(l, q, S, r) ==
  LET active == Active(l, S, r)
  IN  IF active = {} THEN None ELSE l[CHOOSE d \in active : \A x \in active : q[d] <= q[x]].value

----------------------------------------------------------------------------
(* apply_decisions *)

\* The subjects of an item, and of the decisions it names.
Subjects(d) == ({d.rec} \cup {log[x].rec : x \in d.names}) \ {None}

\* Mutant of Touched: the subjects of the decisions that are named are not shown anew.
TouchedOwn(batch) == {batch[i].rec : i \in DOMAIN batch} \ {None}

Touched(batch) == UNION {Subjects(batch[i]) : i \in DOMAIN batch}

\* The order of the seqs when n decisions are added that took theirs after the p lowest.
Numbered(n, p) ==
  [d \in 1..(Len(log) + n) |->
     IF d > Len(log) THEN p + d - Len(log) ELSE IF seq[d] > p THEN seq[d] + n ELSE seq[d]]

\* The bound on the log.
Room(n) == Len(log) + n <= MaxLog

\* A request appends a batch, numbered after p others, and shows its subjects by the first u decisions.
Apply(batch, u, p) ==
  /\ Room(Len(batch))
  /\ log' = log \o batch
  /\ seq' = Numbered(Len(batch), p)
  /\ commits' = commits \cup {Len(log')}
  /\ LET sees == 1..u \cup (Len(log) + 1)..Len(log') IN
     projected' = [r \in Records |-> IF r \in Touched(batch) THEN Value(log', seq', sees, r) ELSE projected[r]]
  /\ behind' = IF u = Len(log) THEN behind \ Touched(batch) ELSE behind \cup Touched(batch)

\* One that sees all of it throughout.
ApplyNow(batch) == Apply(batch, Len(log), Len(log))

\* A request that read when the log had t decisions, then took its numbers, later than those it read, and
\* shows the records when the log has u.
Sees(t, u, p) ==
  /\ {t, u} \subseteq commits /\ t <= u
  /\ p \in 0..Len(log) /\ \A d \in 1..t : seq[d] <= p

Item(kind, r, v, names) == [kind |-> kind, rec |-> r, value |-> v, names |-> names]

\* confirm_value: supersede what is confirmed, or confirm afresh.
ConfirmValue(r, v, replaces) ==
  Item(IF replaces = {} THEN "confirm" ELSE "supersede", r, v, replaces)

\* edit_value, of a person who replaces any confirmation the request could see.
edit_value(r, v, t, u, p) ==
  /\ Room(1) /\ Sees(t, u, p)
  /\ Apply(<<ConfirmValue(r, v, Active(log, 1..t, r))>>, u, p)
  /\ UNCHANGED change

\* What an item may say: a supersede, a retraction and a revocation name any decisions of the workspace.
Items ==
  LET named == {x \in SUBSET DOMAIN log : x # {} /\ Cardinality(x) <= MaxNames} IN
       {Item("confirm", r, v, {}) : r \in Records, v \in Values}
  \cup {Item("supersede", r, v, x) : r \in Records, v \in Values, x \in named}
  \cup {Item(kind, None, None, x) : kind \in {"retract", "revoke"}, x \in named}

\* POST /decisions.
decide(items) == ApplyNow(items) /\ UNCHANGED change

----------------------------------------------------------------------------
(* bulk.py.  preview writes nothing to the ledger *)

\* Mutant of Following: counted from the last decision before them.
FollowingLast(n) == Len(log)..(Len(log) + n - 1)

\* The next n decisions.
Following(n) == (Len(log) + 1)..(Len(log) + n)

Rows(v, targets) == {r \in targets : projected[r] # v}

\* One supersede, or confirmation, for each record that does not show the value.
write(c, v, targets) ==
  /\ Rows(v, targets) # {}
  /\ LET rows == SetToSeq(Rows(v, targets))
     IN  ApplyNow([i \in DOMAIN rows |-> ConfirmValue(rows[i], v, Active(log, DOMAIN log, rows[i]))])
  /\ change' = [change EXCEPT ![c].state = "applied", ![c].batch = Following(Cardinality(Rows(v, targets)))]

\* A change above APPROVAL_THRESHOLD waits for a second person.
apply(c, v, targets) ==
  /\ change[c].state \in {"previewed", "awaiting_approval"}
  /\ IF c \in Large
     THEN /\ change' = [change EXCEPT ![c].state = "awaiting_approval"]
          /\ UNCHANGED <<log, seq, commits, projected, behind>>
     ELSE write(c, v, targets)

approve(c, v, targets) ==
  /\ change[c].state = "awaiting_approval"
  /\ write(c, v, targets)

\* Mutant of Undone: all that was decided since is revoked with the batch.
UndoneSince(c) == {d \in DOMAIN log : \E x \in change[c].batch : x <= d}

\* The decisions with the batch_id of the change.
Undone(c) == change[c].batch

undo(c) ==
  /\ change[c].state = "applied"
  /\ ApplyNow(<<Item("revoke", None, None, Undone(c))>>)
  /\ change' = [change EXCEPT ![c].state = "undone"]

Next ==
  \/ \E r \in Records, v \in Values, t, u \in commits, p \in 0..Len(log) : edit_value(r, v, t, u, p)
  \/ \E n \in {m \in 1..MaxItems : Room(m)} : \E items \in [1..n -> Items] : decide(items)
  \/ \E c \in Changes, v \in Values, targets \in SUBSET Records : apply(c, v, targets) \/ approve(c, v, targets)
  \/ \E c \in Changes : undo(c)

Spec == Init /\ [][Next]_vars

----------------------------------------------------------------------------
(* Properties *)

Written == DOMAIN log

\* What is named by a decision that stands: a revocation, or a supersede or retraction that no
\* revocation names.
Standing(l, S) ==
  Names(l, S, {"revoke"}) \cup Names(l, S \ Names(l, S, {"revoke"}), {"supersede", "retract"})

\* I-LED-1: a confirmation stays effective until a supersede, retract or revoke names it, "nothing
\* else ends it": whatever was revoked, edited from a stale form or undone since, a decision out
\* of force has one that stands against it.
EndedByStanding == Ended(log, Written) \subseteq Standing(log, Written)

\* What readers see is what the decisions say, for every record that was last shown by a request that saw
\* them all; except for a record one of whose decisions was named by a decision about another, or about
\* none as a retraction is, that was then revoked: the revocation does not show that record anew.
ProjectedIsLog ==
  \A r \in Records :
    \/ projected[r] = Value(log, seq, Written, r)
    \/ r \in behind
    \/ \E d \in Names(log, Written, {"revoke"}) : log[d].rec # r /\ \E x \in log[d].names : log[x].rec = r

\* I-LED-2: a confirmed value stays the one readers see until a decision names a confirmation in force of
\* the record, or one that had ended such a confirmation is revoked: a second confirmation, or an edit
\* from a stale form, is a conflict and not a change.  Only one that took its seq before every
\* confirmation in force, and was committed after them, is shown in their stead.
ConfirmedStays ==
  [][\A r \in Records :
       LET active == Active(log, Written, r)
           new == Len(log) + 1 .. Len(log')
       IN  /\ projected'[r] # projected[r] /\ r \notin behind'
           /\ active # {} /\ projected[r] = Value(log, seq, Written, r)
           => \E d \in new : \/ log'[d].kind = "revoke"
                             \/ log'[d].names \cap active # {}
                             \/ log'[d].rec = r /\ \A x \in active : seq'[d] < seq'[x]]_vars

\* An undo ends the decisions of its own batch only, and brings back what these had replaced only,
\* however much was decided and undone in between.
UndoTakesBack ==
  [][\A c \in Changes, r \in Records :
       change'[c].state = "undone" /\ change[c].state # "undone"
       => /\ Active(log, Written, r) \ change[c].batch \subseteq Active(log', DOMAIN log', r)
          /\ Active(log', DOMAIN log', r) \ Active(log, Written, r)
               \subseteq Names(log, change[c].batch, {"supersede"})]_vars

(* Statements the code does not keep.  For the first two, Restored takes what a revoked decision named out
   of Ended, also where another decision that stands names it. *)

\* bulk.py: "undone by revoking that batch: whatever held before comes back".  A change is applied, an edit
\* replaces its decision, the edit is revoked and the change undone: its decision is in force again, and
\* what held before it does not come back.
UndoneIsUndone ==
  \A c \in Changes : change[c].state = "undone" => change[c].batch \subseteq Ended(log, Written)

\* asset-model-revision.md, 7.4: a supersede "ends the old confirmations".  Once a decision that
\* replaced a confirmation is undone, no later one replaces it.
SupersededEnds == Standing(log, Written) \subseteq Ended(log, Written)

\* What is shown changes with a name or a revocation only.  An edit that was numbered before the
\* confirmation in force, and did not see it, is committed after it.
NamedOrRevoked ==
  [][\A r \in Records :
       LET active == Active(log, Written, r) IN
       projected'[r] # projected[r] /\ active # {} /\ projected[r] = Value(log, seq, Written, r)
         => \E d \in Len(log) + 1 .. Len(log') : log'[d].kind = "revoke" \/ log'[d].names \cap active # {}]_vars
=============================================================================
