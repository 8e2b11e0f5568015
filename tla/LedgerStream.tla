---------------------------- MODULE LedgerStream ----------------------------
(***************************************************************************)
(* One source stream of the fact ledger: src/backend/app/ledger/engine.py. *)
(*                                                                         *)
(* A stream receives revisions of its source.  Each one is parsed into a   *)
(* set of claims and stored as the DIFFERENCE to the revision parsed just  *)
(* before it, whether or not that one was ever published.  A guard decides *)
(* whether the net change against the published head may go through; if it *)
(* may not, the revision is held until a person approves or rejects it.    *)
(* The projection (the records people see) follows the published head.     *)
(*                                                                         *)
(* Each action is one call of the engine, which the routers commit as one  *)
(* database transaction.  Revisions ordered "head" are numbered 1, 2, ...  *)
(* and kept in chain; the others (number 0) only leave an audit row.       *)
(***************************************************************************)
EXTENDS Integers, Sequences, FiniteSets

CONSTANTS Claims,       \* the claims a parser can make about this source
          Refs,         \* the source references (subjects) they are about
          RefOf,        \* [Claims -> Refs]: the subject of a claim
          Dependable,   \* the subjects that may come to have dependents
          Exists,       \* the claims "this subject exists, present"
          Contents,     \* the contents (bytes) a source revision can have
          Versions,     \* parser/implementation versions, chosen by the ruleset
          Parse,        \* Parse[content][version]: the claims the parser reads
          GuardShare,   \* GUARD_SHARE, in percent of the published subjects
          GuardMin,     \* GUARD_MIN, in subjects
          MaxAt,        \* bound: observation instants are 1..MaxAt
          MaxRevisions  \* bound: head-ordered revisions of the stream

ASSUME DataAssumption ==
  /\ RefOf \in [Claims -> Refs]
  /\ Exists \subseteq Claims
  /\ Dependable \subseteq Refs
  /\ Parse \in [Contents -> [Versions -> SUBSET Claims]]

ASSUME BoundAssumption ==
  /\ GuardShare \in 0..100
  /\ GuardMin \in Nat
  /\ MaxAt \in Nat \ {0}
  /\ MaxRevisions \in Nat

VARIABLES chain,      \* the head-ordered revisions with the claim events of each
          status,     \* status[n]: kind of the latest event of revision n
          published,  \* number of the published head, 0 before the first one
          projected,  \* [Refs -> SUBSET Claims]: what project_subject last saw
          frozen,     \* frozen_at is set: the cutover watermark
          version,    \* version the active ruleset gives the parser
          pinned,     \* subjects with dependents and no other support (outside)
          aside       \* the orderings of the audit rows that got number 0

vars == <<chain, status, published, projected, frozen, version, pinned, aside>>

----------------------------------------------------------------------------
(* Types *)

\* revision_state: the kind of a revision's latest event.  "parsed" never
\* survives the call that wrote it: the guard answers in the same transaction.
Status == {"held", "published", "rewound_to", "superseded", "rejected", "frozen"}

Revision == [content : Contents, version : Versions, at : 1..MaxAt,
             appeared : SUBSET Claims, disappeared : SUBSET Claims]

TypeOK ==
  /\ chain \in Seq(Revision)
  /\ status \in [DOMAIN chain -> Status]
  /\ published \in 0..Len(chain)
  /\ projected \in [Refs -> SUBSET Claims]
  /\ frozen \in BOOLEAN
  /\ version \in Versions
  /\ pinned \subseteq Dependable
  /\ aside \subseteq {"rejected", "historical"}

----------------------------------------------------------------------------
(* Presence and the guard *)

\* The claims present at revision n of the event log ch: a claim is there when
\* it appeared at or before n and has not disappeared since.
Presence(ch, n) ==
  {c \in Claims : \E k \in 1..n : /\ c \in ch[k].appeared
                                  /\ \A j \in (k + 1)..n : c \notin ch[j].disappeared}

\* The subjects a claim set says exist.
Subjects(claims) == {RefOf[c] : c \in claims \cap Exists}

\* Mutant of Guard: the guard without its second clause, which protects subjects with
\* dependents.
GuardByShareOnly(old, new) ==
  LET gone == Subjects(old) \ Subjects(new) IN
  /\ 100 * Cardinality(gone) > GuardShare * Cardinality(Subjects(old))
  /\ Cardinality(gone) >= GuardMin

\* The reasons of the guard, as a predicate: the net change from the published
\* claims old to the candidate claims new needs a person.
Guard(old, new) ==
  LET gone == Subjects(old) \ Subjects(new) IN
  \/ /\ Subjects(old) # {}
     /\ 100 * Cardinality(gone) > GuardShare * Cardinality(Subjects(old))
     /\ Cardinality(gone) >= GuardMin
  \/ gone \cap pinned # {}

\* What the projection of a subject reads out of a claim set.
About(claims, ref) == {c \in claims : RefOf[c] = ref}

----------------------------------------------------------------------------
(* Publication *)

\* The held revisions after n that the guard lets through once n is published.
Passing(ch, st, n) ==
  {m \in (n + 1)..Len(ch) : st[m] = "held" /\ ~Guard(Presence(ch, n), Presence(ch, m))}

\* m is the revision publish(n) goes on with: the first of them.
Follows(ch, st, n, m) ==
  m \in Passing(ch, st, n) /\ \A k \in Passing(ch, st, n) : m <= k

\* Mutant of Cascade: a publication that does not go on to the held revisions after it.
CascadeStopsAtOnce(ch, st, n, S) == S = {n}

\* The revisions one call of publish(n) publishes: n, then the first held
\* revision that passes against it, and so on from there.
Cascade(ch, st, n, S) ==
  /\ n \in S
  /\ \A m \in S \ {n} : \E k \in S : Follows(ch, st, k, m)
  /\ \A k \in S : \A m \in Passing(ch, st, k) : Follows(ch, st, k, m) => m \in S

\* Mutant of Between: off by one: the revision next to the new head is left out.
BetweenButLast(a, b) == ((a + 1)..(b - 2)) \cup ((b + 1)..(a - 1))

\* The revisions strictly between two heads, whichever is the later one.
Between(a, b) == ((a + 1)..(b - 1)) \cup ((b + 1)..(a - 1))

\* Mutant of Skip: superseded revisions deleted, instead of marked by an event.
SkipDeletes(st, a, b) ==
  [m \in {k \in DOMAIN st : st[k] = "held" => k \notin Between(a, b)} |-> st[m]]

\* The held ones among them become superseded.
Skip(st, a, b) ==
  [m \in DOMAIN st |->
     IF st[m] = "held" /\ m \in Between(a, b) THEN "superseded" ELSE st[m]]

\* Mutant of Touched: only the subjects that gain a claim are projected again.
TouchedByGain(ch, S, r) ==
  \E m \in S : ~(About(Presence(ch, m), r) \subseteq About(Presence(ch, published), r))

\* A subject is projected again when a net transition of the publication
\* changes its claims: some head of S differs about it from the head before.
Touched(ch, S, r) ==
  \E m \in S : About(Presence(ch, m), r) # About(Presence(ch, published), r)

\* publish: move the published head of the log ch to n, record it as kind,
\* project every subject the net transition changes, then re-evaluate the
\* later held revisions.
Publish(ch, st, n, kind) ==
  LET first == [Skip(st, published, n) EXCEPT ![n] = kind] IN
  \E S \in SUBSET (n..Len(ch)) : \E top \in S :
    /\ Cascade(ch, first, n, S)
    /\ \A m \in S : m <= top
    /\ published' = top
    /\ status' = [m \in DOMAIN first |->
                    IF m \in S \ {n} THEN "published" ELSE Skip(first, n, top)[m]]
    /\ projected' = [r \in Refs |->
         IF Touched(ch, S, r) THEN About(Presence(ch, top), r) ELSE projected[r]]

----------------------------------------------------------------------------
(* The calls of the engine *)

Init ==
  /\ chain = <<>>
  /\ status = <<>>
  /\ published = 0
  /\ projected = [r \in Refs |-> {}]
  /\ frozen = FALSE
  /\ version \in Versions
  /\ pinned = {}
  /\ aside = {}

\* Mutant of Reusable: reuse by the bytes alone, although another parser version read them.
ReusableAnyVersion(content, ver) == {n \in DOMAIN chain : chain[n].content = content}

\* The revisions whose claim set is reused: same bytes, same parser version.
Reusable(content, ver) ==
  {n \in DOMAIN chain : chain[n].content = content /\ chain[n].version = ver}

\* The claims of a new revision: those of the last identical one, else parsed.
Target(content, ver) ==
  IF Reusable(content, ver) = {}
  THEN Parse[content][ver]
  ELSE Presence(chain, CHOOSE n \in Reusable(content, ver) :
                         \A m \in Reusable(content, ver) : m <= n)

\* ingest of a frozen stream, or of a revision older than the parsed head: the
\* row is kept for the audit and neither head moves.
SetAside(ordering) ==
  /\ aside' = aside \cup {ordering}
  /\ UNCHANGED <<chain, status, published, projected>>

\* ingest of a head-ordered revision: the diff against the PARSED head is
\* written, then the guard compares it with the PUBLISHED one.
Append1(content, ver, at) ==
  LET before == Presence(chain, Len(chain))
      target == Target(content, ver)
      ch == Append(chain, [content |-> content, version |-> ver, at |-> at,
                           appeared |-> target \ before, disappeared |-> before \ target])
      n == Len(ch)
  IN /\ Len(chain) < MaxRevisions
     /\ chain' = ch
     /\ IF Guard(Presence(ch, published), Presence(ch, n))
        THEN /\ status' = Append(status, "held")
             /\ UNCHANGED <<published, projected>>
        ELSE Publish(ch, Append(status, "published"), n, "published")
     /\ UNCHANGED aside

Outdated(at) == chain # <<>> /\ at < chain[Len(chain)].at

\* ingest, with the version the ruleset in force gives the parser.
Receive(content, ver, at) ==
  \/ frozen /\ SetAside("rejected")
  \/ ~frozen /\ Outdated(at) /\ SetAside("historical")
  \/ ~frozen /\ ~Outdated(at) /\ Append1(content, ver, at)

Ingest(content, at) ==
  /\ Receive(content, version, at)
  /\ UNCHANGED <<frozen, version, pinned>>

\* activate_ruleset: what the stream last published is parsed again (reinfer)
\* as a revision like any other, with the observation instant it had.
ActivateRuleset(ver) ==
  /\ version' = ver
  /\ IF published = 0
     THEN UNCHANGED <<chain, status, published, projected, aside>>
     ELSE Receive(chain[published].content, ver, chain[published].at)
  /\ UNCHANGED <<frozen, pinned>>

\* approve_revision: only a held revision, published whatever the guard said.
Approve(n) ==
  /\ status[n] = "held"
  /\ Publish(chain, status, n, "published")
  /\ UNCHANGED <<chain, frozen, version, pinned, aside>>

\* reject_revision: only a held revision; the heads stay where they are.
Reject(n) ==
  /\ status[n] = "held"
  /\ status' = [status EXCEPT ![n] = "rejected"]
  /\ UNCHANGED <<chain, published, projected, frozen, version, pinned, aside>>

\* rewind: to any head-ordered revision, whatever became of it.
Rewind(n) ==
  /\ Publish(chain, status, n, "rewound_to")
  /\ UNCHANGED <<chain, frozen, version, pinned, aside>>

\* Mutant of Freeze: a freeze that does not ask for the held revisions to be decided first.
FreezeWithHeld ==
  /\ published # 0
  /\ status' = [status EXCEPT ![published] = "frozen"]
  /\ frozen' = TRUE
  /\ UNCHANGED <<chain, published, projected, version, pinned, aside>>

\* cutover.freeze on this stream: nothing held, something published.  The
\* event is recorded on the published head.
Freeze ==
  /\ published # 0
  /\ \A n \in DOMAIN status : status[n] # "held"
  /\ status' = [status EXCEPT ![published] = "frozen"]
  /\ frozen' = TRUE
  /\ UNCHANGED <<chain, published, projected, version, pinned, aside>>

\* cutover.advance (abort) and revert_pilot reopen the stream.
Unfreeze ==
  /\ frozen' = FALSE
  /\ UNCHANGED <<chain, status, published, projected, version, pinned, aside>>

\* Outside the stream: a ticket, document, confirmed installation or another
\* source comes to depend on a subject, or ceases to.
PinnedChanges(ref) ==
  /\ pinned' = IF ref \in pinned THEN pinned \ {ref} ELSE pinned \cup {ref}
  /\ UNCHANGED <<chain, status, published, projected, frozen, version, aside>>

Next ==
  \/ \E content \in Contents, at \in 1..MaxAt : Ingest(content, at)
  \/ \E ver \in Versions : ActivateRuleset(ver)
  \/ \E n \in DOMAIN chain : Approve(n) \/ Reject(n) \/ Rewind(n)
  \/ Freeze
  \/ Unfreeze
  \/ \E ref \in Dependable : PinnedChanges(ref)

Spec == Init /\ [][Next]_vars

----------------------------------------------------------------------------
(* Properties *)

\* The log of differences tells what the source said: the claims present at
\* revision n are the parse of its content under its version, however many
\* revisions before it were held, rejected, rewound or reused (section 11 of
\* docs/asset-model-revision.md, "one unbroken history"; _write_diff diffs
\* against the parsed head, never the published one).
ReplaySound ==
  \A n \in DOMAIN chain : Presence(chain, n) = Parse[chain[n].content][chain[n].version]

\* A revision still waiting for a person is later than the published head:
\* whatever the published head jumps over, in either direction, is superseded,
\* so an approval never moves the stream backwards (publish, approve_revision).
HeldAhead ==
  \A n \in DOMAIN status : status[n] = "held" => published < n

\* The projection shows exactly the claims of the published head, although
\* publish projects only the subjects that changed on the way (I-REV-1, I-REV-4).
ProjectionFollowsHead ==
  \A r \in Refs : projected[r] = About(Presence(chain, published), r)

\* A step that moves the published head settles the review queue behind it.
Settled == published' # published => Passing(chain', status', published') = {}

\* When the published head moves, no later held revision is left that the
\* guard would let through against the new head (publish re-evaluates them,
\* approve_revision and rewind included).
NothingPassableLeft == [][Settled]_vars

\* A step inside a freeze leaves the chain alone, and the records but for a rewind.
StandsStill ==
  frozen /\ frozen' =>
    /\ chain' = chain
    /\ projected' # projected => status'[published'] = "rewound_to"

\* I-SOR-1 as the engine keeps it: while a stream stays frozen its chain does
\* not grow and what it shows changes by a rewind only; no revision that was
\* waiting at the freeze can be approved behind the watermark.
FrozenStandsStill == [][StandsStill]_vars

\* What readers see of a stream: every claim set stated, and the projection.
View == INSTANCE PublishedView WITH
          heard <- {Presence(chain, n) : n \in DOMAIN chain},
          shown <- UNION {projected[r] : r \in Refs}

\* Person's calls, that name the revision to show.
Asks(n) == Approve(n) \/ Rewind(n)

\* The act of a person in the view is such a call, for the revision it names.
AsAsked == View!Unasked \/ \E n \in DOMAIN chain : View!Choose(Presence(chain, n)) /\ Asks(n)

\* The engine implements the promise: records show one whole stated claim set; an approval or a rewind shows the
\* one it names, or one that was held and follows; every other call leaves what is shown or replaces it by the
\* claim set that has just arrived and that the guard lets through.
\* This is View!Spec with its acts of persons bound to theirs.
ShowsWhatWasSaid == View!Init /\ [][AsAsked]_(View!view)

(* Two statements of the documentation the engine does not keep *)

\* I-REV-3: "A superseded or rejected revision is never projected".  rewind
\* takes any head-ordered revision, whatever its state.
DiscardedNeverProjected ==
  [][published' # published /\ published' \in DOMAIN status
       => status[published'] \notin {"superseded", "rejected"}]_vars

\* activate_ruleset "run[s] inference again over what every affected stream last
\* published", as a guarded revision.  reinfer gives it the instant of the
\* published head, so with a later revision held or rejected it is historical.
RulesetReachesPublished ==
  [][version' # version /\ published # 0 /\ ~frozen
       => chain' # chain]_vars
=============================================================================
