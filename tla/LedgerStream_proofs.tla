------------------------ MODULE LedgerStream_proofs -------------------------
(***************************************************************************)
(* Theorems about one source stream, for every set of claims, every parser *)
(* and every number of revisions.                                          *)
(***************************************************************************)
EXTENDS LedgerStream, SequenceTheorems, WellFoundedInduction, TLAPS

----------------------------------------------------------------------------
(* Least and greatest elements of sets of naturals: an argument by induction over a number is made *)
(* by looking at the least counterexample. *)

\* The order on the naturals, as the relation the library reasons about.
NatOrder == OpToRel(<, Nat)

LEMMA NatOrderPairs == \A x, y \in Nat : <<x, y>> \in NatOrder <=> x < y
BY DEF NatOrder, OpToRel

LEMMA NatOrderWellFounded == IsWellFoundedOn(NatOrder, Nat)
BY NatLessThanWellFounded DEF NatOrder

\* A set of naturals that is not empty has a least element.
LEMMA LeastExists ==
  ASSUME NEW T \in SUBSET Nat, T # {}
  PROVE  \E x \in T : \A y \in T : x <= y
<1>1. PICK x \in T : \A y \in T : ~(<<y, x>> \in NatOrder)
  BY NatOrderWellFounded, WFMin
<1>2. \A y \in T : ~(y < x)
  BY <1>1, NatOrderPairs
<1> QED BY <1>2

\* A bounded set of naturals that is not empty has a greatest element.
LEMMA GreatestExists ==
  ASSUME NEW N \in Nat, NEW T \in SUBSET (0..N), T # {}
  PROVE  \E x \in T : \A y \in T : y <= x
<1> DEFINE D == {N - y : y \in T}
<1>1. D \in SUBSET Nat /\ D # {}
  <2>1. PICK t \in T : TRUE
    OBVIOUS
  <2>2. N - t \in D
    BY <2>1
  <2>3. \A y \in T : N - y \in Nat
    OBVIOUS
  <2> QED BY <2>2, <2>3
<1>2. PICK d \in D : \A e \in D : d <= e
  <2> HIDE DEF D
  <2> QED BY <1>1, LeastExists
<1>3. PICK x \in T : d = N - x
  OBVIOUS
<1>4. \A y \in T : N - x <= N - y
  BY <1>2, <1>3
<1> QED BY <1>4

----------------------------------------------------------------------------
(* Presence in a log *)

\* The kinds of event a publication writes on the revision it publishes.
PublishedKind == {"published", "rewound_to"}

\* The log part of the type invariant.
LogOK(ch, st) ==
  /\ ch \in Seq(Revision)
  /\ st \in [1..Len(ch) -> Status]

\* Presence in a log is a set of claims.
LEMMA PresenceType ==
  ASSUME NEW ch, NEW n
  PROVE  Presence(ch, n) \subseteq Claims
BY DEF Presence

\* Nothing is present before the first revision.
LEMMA PresenceAtStart ==
  ASSUME NEW ch
  PROVE  Presence(ch, 0) = {}
BY DEF Presence

\* An event appended to the log leaves presence at the earlier revisions alone.
LEMMA PresenceOfPrefix ==
  ASSUME NEW ch \in Seq(Revision), NEW rev \in Revision, NEW n \in 0..Len(ch)
  PROVE  Presence(Append(ch, rev), n) = Presence(ch, n)
<1>1. ASSUME NEW k \in 1..n PROVE Append(ch, rev)[k] = ch[k]
  OBVIOUS
<1>2. ASSUME NEW k \in 1..n, NEW j \in (k + 1)..n PROVE Append(ch, rev)[j] = ch[j]
  OBVIOUS
<1> QED BY <1>1, <1>2 DEF Presence

\* _write_diff: the events of the new revision turn the claims of the parsed
\* head into exactly the target set.
LEMMA PresenceOfDiff ==
  ASSUME NEW ch \in Seq(Revision), NEW rev \in Revision, NEW target \in SUBSET Claims,
         rev.appeared = target \ Presence(ch, Len(ch)),
         rev.disappeared = Presence(ch, Len(ch)) \ target
  PROVE  Presence(Append(ch, rev), Len(ch) + 1) = target
<1> DEFINE log == Append(ch, rev)
           N == Len(ch)
<1>1. /\ N \in Nat
      /\ log[N + 1] = rev
      /\ \A k \in 1..N : log[k] = ch[k]
  OBVIOUS
<1>2. ASSUME NEW c \in target PROVE c \in Presence(log, N + 1)
  <2>1. CASE c \in Presence(ch, N)
    <3>1. PICK k \in 1..N : /\ c \in ch[k].appeared
                            /\ \A j \in (k + 1)..N : c \notin ch[j].disappeared
      BY <2>1 DEF Presence
    <3>2. \A j \in (k + 1)..(N + 1) : c \notin log[j].disappeared
      BY <1>1, <1>2, <3>1
    <3>3. k \in 1..(N + 1) /\ c \in log[k].appeared
      BY <1>1, <3>1
    <3> QED BY <3>2, <3>3 DEF Presence
  <2>2. CASE c \notin Presence(ch, N)
    <3>1. c \in log[N + 1].appeared
      BY <1>1, <1>2, <2>2
    <3>2. N + 1 \in 1..(N + 1) /\ ((N + 1) + 1)..(N + 1) = {}
      BY <1>1
    <3> QED BY <1>2, <3>1, <3>2 DEF Presence
  <2> QED BY <2>1, <2>2
<1>3. ASSUME NEW c \in Presence(log, N + 1) PROVE c \in target
  <2>1. PICK k \in 1..(N + 1) : /\ c \in log[k].appeared
                                /\ \A j \in (k + 1)..(N + 1) : c \notin log[j].disappeared
    BY DEF Presence
  <2>2. CASE k = N + 1
    BY <1>1, <2>1, <2>2
  <2>3. CASE k # N + 1
    <3>1. k \in 1..N
      BY <1>1, <2>3
    <3>2. c \in Presence(ch, N)
      BY <1>1, <1>3, <2>1, <3>1 DEF Presence
    <3>3. c \notin rev.disappeared
      BY <1>1, <2>1, <3>1
    <3> QED BY <3>2, <3>3
  <2> QED BY <2>2, <2>3
<1> QED BY <1>2, <1>3

\* Skip only marks held revisions, and only between the two heads.
LEMMA SkipFacts ==
  ASSUME NEW L \in Nat, NEW st \in [1..L -> Status], NEW a \in 0..L, NEW b \in 0..L
  PROVE  /\ Skip(st, a, b) \in [1..L -> Status]
         /\ \A m \in 1..L : Skip(st, a, b)[m] = "held" =>
              st[m] = "held" /\ m \notin Between(a, b)
BY DEF Skip, Status

\* publish: whatever cascade of revisions one call publishes, the head ends on
\* a revision of the log, no held revision is left behind it, and the
\* projection shows what is present at it.
LEMMA PublishFacts ==
  ASSUME NEW ch, NEW st, LogOK(ch, st),
         NEW n \in 1..Len(ch), NEW kind \in PublishedKind,
         published \in 0..Len(ch),
         \A m \in 1..Len(ch) : st[m] = "held" => published < m,
         projected = [r \in Refs |-> About(Presence(ch, published), r)],
         Publish(ch, st, n, kind)
  PROVE  /\ published' \in 1..Len(ch)
         /\ status' \in [1..Len(ch) -> Status]
         /\ \A m \in 1..Len(ch) : status'[m] = "held" => st[m] = "held" /\ published' < m
         /\ projected' = [r \in Refs |-> About(Presence(ch, published'), r)]
<1> DEFINE L == Len(ch)
           first == [Skip(st, published, n) EXCEPT ![n] = kind]
<1>1. L \in Nat /\ n \in 1..L /\ published \in 0..L /\ st \in [1..L -> Status]
  BY DEF LogOK
<1>2. /\ Skip(st, published, n) \in [1..L -> Status]
      /\ \A m \in 1..L : Skip(st, published, n)[m] = "held" =>
           st[m] = "held" /\ m \notin Between(published, n)
  BY <1>1, SkipFacts
<1>3. /\ first \in [1..L -> Status]
      /\ first[n] # "held"
      /\ \A m \in 1..L : first[m] = "held" =>
           st[m] = "held" /\ m \notin Between(published, n) /\ m # n
  BY <1>1, <1>2 DEF PublishedKind, Status
<1>12. PICK S \in SUBSET (n..L) : \E top \in S :
        /\ Cascade(ch, first, n, S)
        /\ \A m \in S : m <= top
        /\ published' = top
        /\ status' = [m \in DOMAIN first |->
                        IF m \in S \ {n} THEN "published" ELSE Skip(first, n, top)[m]]
        /\ projected' = [r \in Refs |->
             IF Touched(ch, S, r) THEN About(Presence(ch, top), r) ELSE projected[r]]
  BY DEF Publish
<1>4. PICK top \in S :
        /\ Cascade(ch, first, n, S)
        /\ \A m \in S : m <= top
        /\ published' = top
        /\ status' = [m \in DOMAIN first |->
                        IF m \in S \ {n} THEN "published" ELSE Skip(first, n, top)[m]]
        /\ projected' = [r \in Refs |->
             IF Touched(ch, S, r) THEN About(Presence(ch, top), r) ELSE projected[r]]
  BY <1>12
<1>5. top \in 1..L /\ n <= top /\ n \in S /\ S \subseteq n..L
  BY <1>1, <1>4 DEF Cascade
<1> HIDE DEF first
<1>6. /\ Skip(first, n, top) \in [1..L -> Status]
      /\ \A m \in 1..L : Skip(first, n, top)[m] = "held" =>
           first[m] = "held" /\ m \notin Between(n, top)
  BY <1>1, <1>3, <1>5, n \in 0..L, top \in 0..L, SkipFacts
<1>7. status' \in [1..L -> Status]
  BY <1>3, <1>4, <1>6 DEF Status
<1>8. ASSUME NEW m \in 1..L, status'[m] = "held"
      PROVE  st[m] = "held" /\ published' < m
  <2>1. /\ m \notin S \ {n}
        /\ Skip(first, n, top)[m] = "held"
    BY <1>3, <1>4, <1>8
  <2>2. /\ first[m] = "held" /\ m \notin Between(n, top)
        /\ st[m] = "held" /\ m \notin Between(published, n) /\ m # n
    BY <1>3, <1>6, <2>1
  <2>3. published < m
    BY <2>2
  <2>4. n < m
    BY <1>1, <2>2, <2>3 DEF Between
  <2>5. m \notin S
    BY <2>1, <2>2
  <2>6. top < m
    BY <1>1, <1>5, <2>2, <2>4, <2>5 DEF Between
  <2> QED BY <1>4, <2>2, <2>6
<1>9. ASSUME NEW r \in Refs
      PROVE  projected'[r] = About(Presence(ch, published'), r)
  <2>1. CASE Touched(ch, S, r)
    BY <1>4, <2>1
  <2>2. CASE ~Touched(ch, S, r)
    <3>1. About(Presence(ch, top), r) = About(Presence(ch, published), r)
      BY <1>4, <2>2 DEF Touched
    <3> QED BY <1>4, <2>2, <3>1
  <2> QED BY <2>1, <2>2
<1>10. projected' = [r \in Refs |-> About(Presence(ch, published'), r)]
  BY <1>4, <1>9
<1> QED BY <1>4, <1>5, <1>7, <1>8, <1>10

----------------------------------------------------------------------------
(* The inductive invariant *)

\* The log, the review queue and the projection need each other: the target of
\* a reused revision is the presence of an earlier one (ReplaySound), a jump of
\* the head must not leave a held revision behind (HeldAhead), and a subject
\* that is not touched keeps what the old head said (ProjectionFollowsHead).
IInv == TypeOK /\ ReplaySound /\ HeldAhead /\ ProjectionFollowsHead

\* ProjectionFollowsHead as an equation between functions.
LEMMA ProjectionEquation ==
  ASSUME TypeOK, ProjectionFollowsHead
  PROVE  projected = [r \in Refs |-> About(Presence(chain, published), r)]
BY DEF TypeOK, ProjectionFollowsHead

\* A publication on the log as it stands keeps the invariant.
LEMMA PublishKeeps ==
  ASSUME IInv, NEW n \in DOMAIN chain, NEW kind \in PublishedKind,
         Publish(chain, status, n, kind),
         UNCHANGED <<chain, frozen, version, pinned, aside>>
  PROVE  IInv'
<1>1. /\ LogOK(chain, status) /\ published \in 0..Len(chain)
      /\ DOMAIN chain = 1..Len(chain) /\ Len(chain) \in Nat
      /\ DOMAIN status = 1..Len(chain)
  BY DEF IInv, TypeOK, LogOK
<1>2. /\ published' \in 1..Len(chain)
      /\ status' \in [1..Len(chain) -> Status]
      /\ \A m \in 1..Len(chain) : status'[m] = "held" => published' < m
      /\ projected' = [r \in Refs |-> About(Presence(chain, published'), r)]
  <2>1. \A m \in 1..Len(chain) : status[m] = "held" => published < m
    BY <1>1 DEF IInv, HeldAhead
  <2> QED BY <1>1, <2>1, PublishFacts, ProjectionEquation DEF IInv
<1>3. TypeOK'
  <2>1. projected' \in [Refs -> SUBSET Claims]
    BY <1>2, PresenceType DEF About
  <2> QED BY <1>1, <1>2, <2>1 DEF IInv, TypeOK
<1>4. ReplaySound'
  BY DEF IInv, ReplaySound
<1>5. HeldAhead'
  BY <1>1, <1>2 DEF HeldAhead
<1>6. ProjectionFollowsHead'
  BY <1>2 DEF ProjectionFollowsHead
<1> QED BY <1>3, <1>4, <1>5, <1>6 DEF IInv

----------------------------------------------------------------------------
(* One lemma per call of the engine *)

\* A log extended by one revision.
LEMMA AppendFacts ==
  ASSUME NEW Set, NEW seq \in Seq(Set), NEW elt \in Set
  PROVE  /\ Append(seq, elt) \in Seq(Set)
         /\ Len(seq) \in Nat
         /\ Len(Append(seq, elt)) = Len(seq) + 1
         /\ DOMAIN seq = 1..Len(seq)
         /\ \A k \in 1..Len(seq) : Append(seq, elt)[k] = seq[k]
         /\ Append(seq, elt)[Len(seq) + 1] = elt
OBVIOUS

\* The status of one more revision.
LEMMA StatusAppend ==
  ASSUME NEW L \in Nat, NEW st \in [1..L -> Status], NEW kind \in Status
  PROVE  /\ Append(st, kind) \in [1..(L + 1) -> Status]
         /\ \A m \in 1..L : Append(st, kind)[m] = st[m]
         /\ Append(st, kind)[L + 1] = kind
<1>1. st \in Seq(Status) /\ Len(st) = L
  OBVIOUS
<1>2. /\ Append(st, kind) \in Seq(Status)
      /\ Len(Append(st, kind)) = L + 1
      /\ \A m \in 1..L : Append(st, kind)[m] = st[m]
      /\ Append(st, kind)[L + 1] = kind
  BY <1>1, AppendFacts
<1>3. Append(st, kind) \in [1..(L + 1) -> Status]
  <2> DEFINE sq == Append(st, kind)
  <2>1. sq \in Seq(Status) /\ Len(sq) = L + 1
    BY <1>2
  <2> HIDE DEF sq
  <2>2. sq \in [1..Len(sq) -> Status]
    BY <2>1, LenProperties
  <2> QED BY <2>1, <2>2 DEF sq
<1> QED BY <1>2, <1>3

\* Parsed or reused, the claims of a new revision are the parse of its content.
LEMMA TargetSound ==
  ASSUME IInv, NEW content \in Contents, NEW ver \in Versions
  PROVE  Target(content, ver) = Parse[content][ver]
<1> DEFINE R == Reusable(content, ver)
<1>1. CASE R = {}
  BY <1>1 DEF Target
<1>2. CASE R # {}
  <2>1. Len(chain) \in Nat /\ R \in SUBSET (0..Len(chain)) /\ R \subseteq DOMAIN chain
    BY DEF IInv, TypeOK, Reusable
  <2>2. \E n \in R : \A m \in R : m <= n
    <3> HIDE DEF R
    <3> QED BY <1>2, <2>1, GreatestExists
  <2>3. PICK n \in R : Target(content, ver) = Presence(chain, n)
    BY <1>2, <2>2 DEF Target
  <2>4. chain[n].content = content /\ chain[n].version = ver
    BY DEF Reusable
  <2> QED BY <2>1, <2>3, <2>4 DEF IInv, ReplaySound
<1> QED BY <1>1, <1>2

\* A revision set aside touches neither the heads nor the log.
LEMMA SetAsideKeeps ==
  ASSUME IInv, version' \in Versions, UNCHANGED <<frozen, pinned>>,
         NEW ordering \in {"rejected", "historical"}, SetAside(ordering)
  PROVE  IInv'
<1>1. TypeOK'
  BY DEF IInv, TypeOK, SetAside
<1>2. ReplaySound' /\ HeldAhead' /\ ProjectionFollowsHead'
  BY DEF IInv, SetAside, ReplaySound, HeldAhead, ProjectionFollowsHead
<1> QED BY <1>1, <1>2 DEF IInv

\* A head-ordered revision extends the log by what the source said, and is
\* held or published.
LEMMA AppendKeeps ==
  ASSUME IInv, version' \in Versions, UNCHANGED <<frozen, pinned>>,
         NEW content \in Contents, NEW ver \in Versions, NEW at \in 1..MaxAt,
         Append1(content, ver, at)
  PROVE  IInv'
<1> DEFINE L == Len(chain)
           before == Presence(chain, L)
           target == Target(content, ver)
           rev == [content |-> content, version |-> ver, at |-> at,
                   appeared |-> target \ before, disappeared |-> before \ target]
           ch == Append(chain, rev)
<1>1. target = Parse[content][ver] /\ target \in SUBSET Claims
  BY TargetSound, DataAssumption
<1>2. rev \in Revision
  BY <1>1, PresenceType DEF Revision
<1>3. chain \in Seq(Revision) /\ status \in [1..L -> Status] /\ published \in 0..L
  BY DEF IInv, TypeOK
<1>4. /\ ch \in Seq(Revision) /\ L \in Nat /\ Len(ch) = L + 1
      /\ DOMAIN chain = 1..L /\ DOMAIN ch = 1..(L + 1)
      /\ \A k \in 1..L : ch[k] = chain[k]
      /\ ch[L + 1] = rev
  <2> HIDE DEF rev
  <2> QED BY <1>2, <1>3, AppendFacts
<1>5. \A n \in 0..L : Presence(ch, n) = Presence(chain, n)
  <2> HIDE DEF rev
  <2> QED BY <1>2, <1>3, PresenceOfPrefix
<1>6. Presence(ch, L + 1) = Parse[content][ver]
  <2>1. /\ rev.appeared = target \ Presence(chain, Len(chain))
        /\ rev.disappeared = Presence(chain, Len(chain)) \ target
    OBVIOUS
  <2>2. chain \in Seq(Revision) /\ rev \in Revision /\ target \in SUBSET Claims
    BY <1>1, <1>2, <1>3
  <2> HIDE DEF rev, target, ch, before, L
  <2>3. Presence(Append(chain, rev), Len(chain) + 1) = target
    BY ONLY <2>1, <2>2, PresenceOfDiff
  <2> QED BY <1>1, <2>3 DEF ch, L
<1>7. chain' = ch
  BY DEF Append1
<1>8. ReplaySound'
  <2>1. ASSUME NEW n \in 1..(L + 1)
        PROVE  Presence(ch, n) = Parse[ch[n].content][ch[n].version]
    <3>1. CASE n = L + 1
      BY <1>4, <1>6, <3>1
    <3>2. CASE n # L + 1
      <4>1. n \in 1..L
        BY <1>4, <3>2
      <4>2. Presence(chain, n) = Parse[chain[n].content][chain[n].version]
        BY <1>4, <4>1 DEF IInv, ReplaySound
      <4>3. ch[n] = chain[n] /\ n \in 0..L
        BY <1>4, <4>1
      <4>4. Presence(ch, n) = Presence(chain, n)
        BY <1>5, <4>3
      <4> HIDE DEF ch
      <4> QED BY <4>2, <4>3, <4>4
    <3> QED BY <3>1, <3>2
  <2> QED BY <1>4, <1>7, <2>1 DEF ReplaySound
<1>9. \A m \in 1..L : status[m] = "held" => published < m
  BY <1>3 DEF IInv, HeldAhead
<1>10. projected = [r \in Refs |-> About(Presence(ch, published), r)]
  BY <1>3, <1>5, ProjectionEquation DEF IInv
<1>11. aside' = aside
  BY DEF Append1
<1> HIDE DEF rev
<1>12. CASE Guard(Presence(ch, published), Presence(ch, Len(ch)))
  <2>1. status' = Append(status, "held") /\ UNCHANGED <<published, projected>>
    BY <1>12 DEF Append1, rev
  <2>2. /\ status' \in [1..(L + 1) -> Status]
        /\ \A m \in 1..L : status'[m] = status[m]
    <3>1. "held" \in Status
      BY DEF Status
    <3> QED BY <1>3, <1>4, <2>1, <3>1, StatusAppend
  <2>3. TypeOK'
    BY <1>3, <1>4, <1>7, <1>11, <2>1, <2>2 DEF IInv, TypeOK
  <2>4. HeldAhead'
    BY <1>3, <1>4, <1>9, <2>1, <2>2 DEF HeldAhead
  <2>5. ProjectionFollowsHead'
    BY <1>7, <1>10, <2>1 DEF ProjectionFollowsHead
  <2> QED BY <1>8, <2>3, <2>4, <2>5 DEF IInv
<1>13. CASE ~Guard(Presence(ch, published), Presence(ch, Len(ch)))
  <2> DEFINE st == Append(status, "published")
  <2>1. Publish(ch, st, Len(ch), "published")
    BY <1>13 DEF Append1, rev
  <2>2. /\ LogOK(ch, st)
        /\ \A m \in 1..Len(ch) : st[m] = "held" => published < m
    <3>1. "published" \in Status /\ "published" # "held"
      BY DEF Status
    <3>2. /\ st \in [1..(L + 1) -> Status]
          /\ st[L + 1] = "published"
          /\ \A m \in 1..L : st[m] = status[m]
      BY <1>3, <1>4, <3>1, StatusAppend
    <3> HIDE DEF st
    <3> QED BY <1>3, <1>4, <1>9, <3>1, <3>2 DEF LogOK
  <2>3. Len(ch) \in 1..Len(ch) /\ published \in 0..Len(ch)
    BY <1>3, <1>4
  <2>4. /\ published' \in 1..Len(ch)
        /\ status' \in [1..Len(ch) -> Status]
        /\ \A m \in 1..Len(ch) : status'[m] = "held" => published' < m
        /\ projected' = [r \in Refs |-> About(Presence(ch, published'), r)]
    <3> HIDE DEF st, ch
    <3> QED BY <1>10, <2>1, <2>2, <2>3, PublishFacts DEF PublishedKind
  <2>5. TypeOK'
    <3>1. projected' \in [Refs -> SUBSET Claims]
      BY <2>4, PresenceType DEF About
    <3> QED BY <1>4, <1>7, <1>11, <2>4, <3>1 DEF IInv, TypeOK
  <2>6. HeldAhead'
    BY <1>4, <2>4 DEF HeldAhead
  <2>7. ProjectionFollowsHead'
    BY <1>7, <2>4 DEF ProjectionFollowsHead
  <2> QED BY <1>8, <2>5, <2>6, <2>7 DEF IInv
<1> QED BY <1>12, <1>13

\* ingest in each of its three outcomes.
LEMMA ReceiveKeeps ==
  ASSUME IInv, version' \in Versions, UNCHANGED <<frozen, pinned>>,
         NEW content \in Contents, NEW ver \in Versions, NEW at \in 1..MaxAt,
         Receive(content, ver, at)
  PROVE  IInv'
BY SetAsideKeeps, AppendKeeps DEF Receive

\* The frozen flag and the dependents are no part of the invariant but of its type.
LEMMA OutsideKeeps ==
  ASSUME IInv, frozen' \in BOOLEAN, pinned' \subseteq Dependable,
         UNCHANGED <<chain, status, published, projected, version, aside>>
  PROVE  IInv'
<1>1. TypeOK'
  BY DEF IInv, TypeOK
<1>2. ReplaySound' /\ HeldAhead' /\ ProjectionFollowsHead'
  BY DEF IInv, ReplaySound, HeldAhead, ProjectionFollowsHead
<1> QED BY <1>1, <1>2 DEF IInv

\* A new latest event on one revision, if it is not "held", keeps the invariant.
LEMMA MarkKeeps ==
  ASSUME IInv, NEW n \in DOMAIN chain, NEW kind \in Status \ {"held"}, frozen' \in BOOLEAN,
         status' = [status EXCEPT ![n] = kind],
         UNCHANGED <<chain, published, projected, version, pinned, aside>>
  PROVE  IInv'
<1>1. status' \in [DOMAIN chain -> Status]
  BY DEF IInv, TypeOK
<1>2. TypeOK'
  BY <1>1 DEF IInv, TypeOK
<1>3. ReplaySound' /\ ProjectionFollowsHead'
  BY DEF IInv, ReplaySound, ProjectionFollowsHead
<1>4. HeldAhead'
  BY DEF IInv, TypeOK, HeldAhead
<1> QED BY <1>2, <1>3, <1>4 DEF IInv

----------------------------------------------------------------------------
(* The invariant holds, and with it the safety of the stream *)

LEMMA InitEstablishes == Init => IInv
<1> SUFFICES ASSUME Init PROVE IInv
  OBVIOUS
<1>1. chain \in Seq(Revision) /\ DOMAIN chain = {} /\ Len(chain) = 0
  BY DEF Init
<1>2. status \in [DOMAIN chain -> Status] /\ DOMAIN status = {}
  BY <1>1 DEF Init
<1>3. TypeOK
  <2>1. projected \in [Refs -> SUBSET Claims] /\ published \in 0..Len(chain)
    BY <1>1 DEF Init
  <2>2. frozen \in BOOLEAN /\ version \in Versions /\ pinned \subseteq Dependable
    BY DEF Init
  <2>3. aside \subseteq {"rejected", "historical"}
    BY DEF Init
  <2> QED BY <1>1, <1>2, <2>1, <2>2, <2>3 DEF TypeOK
<1>4. ReplaySound /\ HeldAhead
  BY <1>1, <1>2 DEF ReplaySound, HeldAhead
<1>5. ProjectionFollowsHead
  BY PresenceAtStart DEF Init, ProjectionFollowsHead, About
<1> QED BY <1>3, <1>4, <1>5 DEF IInv

LEMMA StepKeeps == IInv /\ [Next]_vars => IInv'
<1> SUFFICES ASSUME IInv, [Next]_vars PROVE IInv'
  OBVIOUS
<1>1. ASSUME NEW content \in Contents, NEW at \in 1..MaxAt, Ingest(content, at)
      PROVE  IInv'
  <2>1. version \in Versions /\ version' = version /\ UNCHANGED <<frozen, pinned>>
    BY <1>1 DEF IInv, TypeOK, Ingest
  <2>2. Receive(content, version, at)
    BY <1>1 DEF Ingest
  <2> QED BY <2>1, <2>2, ReceiveKeeps
<1>2. ASSUME NEW ver \in Versions, ActivateRuleset(ver)
      PROVE  IInv'
  <2>1. version' = ver /\ UNCHANGED <<frozen, pinned>>
    BY <1>2 DEF ActivateRuleset
  <2>2. CASE published = 0
    <3>1. UNCHANGED <<chain, status, published, projected, aside>>
      BY <1>2, <2>2 DEF ActivateRuleset
    <3>2. TypeOK'
      BY <2>1, <3>1 DEF IInv, TypeOK
    <3>3. ReplaySound' /\ HeldAhead' /\ ProjectionFollowsHead'
      BY <3>1 DEF IInv, ReplaySound, HeldAhead, ProjectionFollowsHead
    <3> QED BY <3>2, <3>3 DEF IInv
  <2>3. CASE published # 0
    <3>1. chain[published] \in Revision
      BY <2>3 DEF IInv, TypeOK
    <3>2. chain[published].content \in Contents /\ chain[published].at \in 1..MaxAt
      BY <3>1 DEF Revision
    <3>3. Receive(chain[published].content, ver, chain[published].at)
      BY <1>2, <2>3 DEF ActivateRuleset
    <3> QED BY <2>1, <3>2, <3>3, ReceiveKeeps
  <2> QED BY <2>2, <2>3
<1>3. ASSUME NEW n \in DOMAIN chain, Approve(n)
      PROVE  IInv'
  BY <1>3, PublishKeeps DEF Approve, PublishedKind
<1>4. ASSUME NEW n \in DOMAIN chain, Reject(n)
      PROVE  IInv'
  <2>1. frozen' \in BOOLEAN /\ "rejected" \in Status \ {"held"}
    BY <1>4 DEF Reject, IInv, TypeOK, Status
  <2> QED BY <1>4, <2>1, MarkKeeps DEF Reject
<1>5. ASSUME NEW n \in DOMAIN chain, Rewind(n)
      PROVE  IInv'
  BY <1>5, PublishKeeps DEF Rewind, PublishedKind
<1>6. CASE Freeze
  <2>1. published \in DOMAIN chain
    <3>1. chain \in Seq(Revision) /\ published \in 0..Len(chain) /\ published # 0
      BY <1>6 DEF Freeze, IInv, TypeOK
    <3>2. Len(chain) \in Nat /\ DOMAIN chain = 1..Len(chain)
      BY <3>1, LenProperties
    <3> QED BY <3>1, <3>2
  <2>2. frozen' \in BOOLEAN /\ "frozen" \in Status \ {"held"}
    BY <1>6 DEF Freeze, Status
  <2> QED BY <1>6, <2>1, <2>2, MarkKeeps DEF Freeze
<1>7. CASE Unfreeze
  <2>1. frozen' \in BOOLEAN /\ pinned' \subseteq Dependable
    BY <1>7 DEF Unfreeze, IInv, TypeOK
  <2> QED BY <1>7, <2>1, OutsideKeeps DEF Unfreeze
<1>8. ASSUME NEW ref \in Dependable, PinnedChanges(ref)
      PROVE  IInv'
  <2>1. frozen' \in BOOLEAN /\ pinned' \subseteq Dependable
    BY <1>8 DEF PinnedChanges, IInv, TypeOK
  <2> QED BY <1>8, <2>1, OutsideKeeps DEF PinnedChanges
<1>9. CASE UNCHANGED vars
  <2>1. TypeOK'
    BY <1>9 DEF vars, IInv, TypeOK
  <2>2. ReplaySound' /\ HeldAhead' /\ ProjectionFollowsHead'
    BY <1>9 DEF vars, IInv, ReplaySound, HeldAhead, ProjectionFollowsHead
  <2> QED BY <2>1, <2>2 DEF IInv
<1> QED BY <1>1, <1>2, <1>3, <1>4, <1>5, <1>6, <1>7, <1>8, <1>9 DEF Next

THEOREM StreamInvariant == Spec => []IInv
<1>1. Init => IInv
  BY InitEstablishes
<1>2. IInv /\ [Next]_vars => IInv'
  BY StepKeeps
<1> QED BY <1>1, <1>2, PTL DEF Spec

\* The variables of the stream keep their types.
THEOREM TypeCorrect == Spec => []TypeOK
<1>1. IInv => TypeOK
  BY DEF IInv
<1> QED BY <1>1, StreamInvariant, PTL

\* The log of differences says at every revision what the source said there,
\* through holds, rejections, rewinds, reuse and changes of parser.
THEOREM LogReplays == Spec => []ReplaySound
<1>1. IInv => ReplaySound
  BY DEF IInv
<1> QED BY <1>1, StreamInvariant, PTL

\* What waits for a person is later than what is published.
THEOREM QueueAhead == Spec => []HeldAhead
<1>1. IInv => HeldAhead
  BY DEF IInv
<1> QED BY <1>1, StreamInvariant, PTL

\* Projecting only the touched subjects is enough.
THEOREM ProjectionSound == Spec => []ProjectionFollowsHead
<1>1. IInv => ProjectionFollowsHead
  BY DEF IInv
<1> QED BY <1>1, StreamInvariant, PTL

----------------------------------------------------------------------------
(* A frozen stream stands still *)

\* cutover.freeze asks for the held revisions to be decided first, and inside
\* the freeze nothing becomes held.
NothingHeld == \A n \in DOMAIN status : status[n] # "held"

Sealed == frozen => NothingHeld

\* Without held revisions a publication goes to the revision it was asked for
\* and no further.
LEMMA PublishAlone ==
  ASSUME NEW n \in DOMAIN chain, NEW kind \in PublishedKind, TypeOK, NothingHeld,
         Publish(chain, status, n, kind)
  PROVE  published' = n /\ status'[published'] = kind /\ NothingHeld'
<1> DEFINE L == Len(chain)
           first == [Skip(status, published, n) EXCEPT ![n] = kind]
<1>1. L \in Nat /\ n \in 1..L /\ status \in [1..L -> Status] /\ published \in 0..L
  BY LenProperties DEF TypeOK
<1>2. first \in [1..L -> Status] /\ first[n] = kind /\ \A m \in 1..L : first[m] # "held"
  <2>1. /\ Skip(status, published, n) \in [1..L -> Status]
        /\ \A m \in 1..L : Skip(status, published, n)[m] # "held"
    BY <1>1, SkipFacts DEF NothingHeld
  <2> QED BY <1>1, <2>1 DEF PublishedKind, Status
<1>3. PICK S \in SUBSET (n..L) : \E top \in S :
        /\ Cascade(chain, first, n, S)
        /\ published' = top
        /\ status' = [m \in DOMAIN first |->
                        IF m \in S \ {n} THEN "published" ELSE Skip(first, n, top)[m]]
  BY DEF Publish
<1>4. PICK top \in S :
        /\ Cascade(chain, first, n, S)
        /\ published' = top
        /\ status' = [m \in DOMAIN first |->
                        IF m \in S \ {n} THEN "published" ELSE Skip(first, n, top)[m]]
  BY <1>3
<1> HIDE DEF first
<1>5. S = {n} /\ top = n
  <2>1. \A k \in S : Passing(chain, first, k) = {}
    BY <1>1, <1>2 DEF Passing
  <2> QED BY <1>4, <2>1 DEF Cascade, Follows
<1>6. status' = [m \in 1..L |-> Skip(first, n, n)[m]]
  BY <1>2, <1>4, <1>5
<1>7. Skip(first, n, n) = first
  BY <1>2 DEF Skip
<1>8. status' = first
  BY <1>2, <1>6, <1>7
<1> QED BY <1>2, <1>4, <1>5, <1>8, <1>1 DEF NothingHeld

LEMMA FrozenStep ==
  ASSUME IInv, Sealed, [Next]_vars
  PROVE  Sealed' /\ (StandsStill \/ UNCHANGED vars)
<1>1. DOMAIN status = DOMAIN chain
  BY DEF IInv, TypeOK
<1>2. ASSUME NEW content \in Contents, NEW at \in 1..MaxAt, Ingest(content, at)
      PROVE  Sealed' /\ StandsStill
  BY <1>2 DEF Ingest, Receive, SetAside, Sealed, NothingHeld, StandsStill
<1>3. ASSUME NEW ver \in Versions, ActivateRuleset(ver)
      PROVE  Sealed' /\ StandsStill
  BY <1>3 DEF ActivateRuleset, Receive, SetAside, Sealed, NothingHeld, StandsStill
<1>4. ASSUME NEW n \in DOMAIN chain, Approve(n) \/ Reject(n)
      PROVE  Sealed' /\ StandsStill
  BY <1>1, <1>4 DEF Approve, Reject, Sealed, NothingHeld, StandsStill
<1>5. ASSUME NEW n \in DOMAIN chain, Rewind(n)
      PROVE  Sealed' /\ StandsStill
  <2>1. frozen' = frozen /\ chain' = chain /\ Publish(chain, status, n, "rewound_to")
    BY <1>5 DEF Rewind
  <2>2. CASE frozen
    <3>1. NothingHeld' /\ status'[published'] = "rewound_to"
      BY <2>1, <2>2, PublishAlone DEF IInv, Sealed, PublishedKind
    <3> QED BY <2>1, <3>1 DEF Sealed, StandsStill
  <2>3. CASE ~frozen
    BY <2>1, <2>3 DEF Sealed, StandsStill
  <2> QED BY <2>2, <2>3
<1>6. CASE Freeze
  BY <1>6 DEF Freeze, IInv, TypeOK, Sealed, NothingHeld, StandsStill
<1>7. CASE Unfreeze
  BY <1>7 DEF Unfreeze, Sealed, StandsStill
<1>8. ASSUME NEW ref \in Dependable, PinnedChanges(ref)
      PROVE  Sealed' /\ StandsStill
  BY <1>8 DEF PinnedChanges, Sealed, NothingHeld, StandsStill
<1>9. CASE UNCHANGED vars
  BY <1>9 DEF vars, Sealed, NothingHeld
<1> QED BY <1>2, <1>3, <1>4, <1>5, <1>6, <1>7, <1>8, <1>9 DEF Next

\* While a stream is frozen no revision is added, and what it shows changes by
\* a rewind only: nothing that waited at the freeze is approved behind it.
THEOREM FreezeHolds == Spec => FrozenStandsStill
<1>1. Init => Sealed
  BY DEF Init, Sealed
<1>2. IInv /\ Sealed /\ [Next]_vars => Sealed' /\ [StandsStill]_vars
  BY FrozenStep
<1> QED BY <1>1, <1>2, StreamInvariant, PTL DEF Spec, FrozenStandsStill

----------------------------------------------------------------------------
(* No review is left that the new head would answer *)

\* The cascade of one publication ends where the guard lets nothing more pass.
LEMMA PublishSettles ==
  ASSUME NEW ch, NEW st, LogOK(ch, st), published \in 0..Len(ch),
         NEW n \in 1..Len(ch), NEW kind \in PublishedKind,
         Publish(ch, st, n, kind)
  PROVE  Passing(ch, status', published') = {}
<1> DEFINE L == Len(ch)
           first == [Skip(st, published, n) EXCEPT ![n] = kind]
<1>1. L \in Nat /\ n \in 1..L /\ published \in 0..L /\ st \in [1..L -> Status]
  BY LenProperties DEF LogOK
<1>2. first \in [1..L -> Status]
  BY <1>1, SkipFacts DEF PublishedKind, Status
<1>3. PICK S \in SUBSET (n..L) : \E top \in S :
        /\ Cascade(ch, first, n, S)
        /\ \A m \in S : m <= top
        /\ published' = top
        /\ status' = [m \in DOMAIN first |->
                        IF m \in S \ {n} THEN "published" ELSE Skip(first, n, top)[m]]
  BY DEF Publish
<1>4. PICK top \in S :
        /\ Cascade(ch, first, n, S)
        /\ \A m \in S : m <= top
        /\ published' = top
        /\ status' = [m \in DOMAIN first |->
                        IF m \in S \ {n} THEN "published" ELSE Skip(first, n, top)[m]]
  BY <1>3
<1> HIDE DEF first
<1>5. top \in 1..L /\ n \in 0..L /\ top \in 0..L
  BY <1>1, <1>4
<1>6. Passing(ch, first, top) = {}
  <2> SUFFICES ASSUME Passing(ch, first, top) # {} PROVE FALSE
    OBVIOUS
  <2>1. Passing(ch, first, top) \in SUBSET Nat
    BY <1>1, <1>5 DEF Passing
  <2>2. PICK m \in Passing(ch, first, top) : \A k \in Passing(ch, first, top) : m <= k
    BY <2>1, LeastExists
  <2>3. m \in S
    BY <1>4, <2>2 DEF Cascade, Follows
  <2>4. m > top /\ m \in Nat
    BY <1>1, <1>5, <2>2 DEF Passing
  <2> QED BY <1>4, <1>5, <2>3, <2>4
<1>7. ASSUME NEW m \in (top + 1)..L, status'[m] = "held"
      PROVE  first[m] = "held"
  <2>1. m \in 1..L
    BY <1>1, <1>5
  <2>2. Skip(first, n, top)[m] = "held"
    BY <1>2, <1>4, <1>7, <2>1
  <2>3. m \in DOMAIN first
    BY <1>2, <2>1
  <2> QED BY <2>2, <2>3 DEF Skip
<1> QED BY <1>4, <1>6, <1>7 DEF Passing

LEMMA StepSettles ==
  ASSUME IInv, [Next]_vars
  PROVE  Settled
<1>1. /\ LogOK(chain, status) /\ published \in 0..Len(chain) /\ Len(chain) \in Nat
      /\ DOMAIN chain = 1..Len(chain) /\ DOMAIN status = 1..Len(chain)
  BY LenProperties DEF IInv, TypeOK, LogOK
<1>2. ASSUME NEW content \in Contents, NEW ver \in Versions, NEW at \in 1..MaxAt,
             Receive(content, ver, at)
      PROVE  Settled
  <2>1. CASE SetAside("rejected") \/ SetAside("historical")
    BY <2>1 DEF SetAside, Settled
  <2>2. CASE Append1(content, ver, at)
    <3> DEFINE before == Presence(chain, Len(chain))
               target == Target(content, ver)
               rev == [content |-> content, version |-> ver, at |-> at,
                       appeared |-> target \ before, disappeared |-> before \ target]
               ch == Append(chain, rev)
    <3>1. rev \in Revision
      BY TargetSound, DataAssumption, PresenceType DEF Revision
    <3>2. chain' = ch
      BY <2>2 DEF Append1
    <3>3. CASE published' = published
      BY <3>3 DEF Settled
    <3>4. CASE published' # published
      <4>1. Publish(ch, Append(status, "published"), Len(ch), "published")
        BY <2>2, <3>4 DEF Append1
      <4> HIDE DEF rev
      <4>2. ch \in Seq(Revision) /\ Len(ch) = Len(chain) + 1
        BY <1>1, <3>1, AppendFacts DEF LogOK
      <4>3. LogOK(ch, Append(status, "published"))
        BY <1>1, <4>2, StatusAppend DEF LogOK, Status
      <4>4. Len(ch) \in 1..Len(ch) /\ published \in 0..Len(ch)
        BY <1>1, <4>2
      <4> HIDE DEF ch
      <4> QED BY <3>2, <4>1, <4>3, <4>4, PublishSettles DEF Settled, PublishedKind
    <3> QED BY <3>3, <3>4
  <2> QED BY <1>2, <2>1, <2>2 DEF Receive
<1>3. ASSUME NEW content \in Contents, NEW at \in 1..MaxAt, Ingest(content, at)
      PROVE  Settled
  BY <1>2, <1>3 DEF Ingest, IInv, TypeOK
<1>4. ASSUME NEW ver \in Versions, ActivateRuleset(ver)
      PROVE  Settled
  <2>1. CASE published = 0
    BY <1>4, <2>1 DEF ActivateRuleset, Settled
  <2>2. CASE published # 0
    <3>1. chain[published] \in Revision
      BY <1>1, <2>2 DEF LogOK
    <3>2. chain[published].content \in Contents /\ chain[published].at \in 1..MaxAt
      BY <3>1 DEF Revision
    <3> QED BY <1>2, <1>4, <2>2, <3>2 DEF ActivateRuleset
  <2> QED BY <2>1, <2>2
<1>5. ASSUME NEW n \in DOMAIN chain, Approve(n) \/ Rewind(n)
      PROVE  Settled
  <2>1. PICK kind \in PublishedKind : Publish(chain, status, n, kind)
    BY <1>5 DEF Approve, Rewind, PublishedKind
  <2>2. chain' = chain
    BY <1>5 DEF Approve, Rewind
  <2> QED BY <1>1, <2>1, <2>2, PublishSettles DEF Settled
<1>6. CASE (\E n \in DOMAIN chain : Reject(n)) \/ Freeze \/ Unfreeze
           \/ (\E ref \in Dependable : PinnedChanges(ref)) \/ UNCHANGED vars
  BY <1>6 DEF Reject, Freeze, Unfreeze, PinnedChanges, vars, Settled
<1> QED BY <1>3, <1>4, <1>5, <1>6 DEF Next

\* Whenever the published head moves, by arrival, approval or rewind, no later
\* revision keeps waiting for a person the guard no longer asks for.
THEOREM QueueSettles == Spec => NothingPassableLeft
<1>1. IInv /\ [Next]_vars => [Settled]_vars
  BY StepSettles
<1> QED BY <1>1, StreamInvariant, PTL DEF Spec, NothingPassableLeft

----------------------------------------------------------------------------
(* The stream engine implements PublishedView: every call of the engine is one step of what readers *)
(* were promised, or changes nothing they see.  The refinement mapping is LedgerStream's View: heard *)
(* is the set of claim sets the log replays to, shown is the union of the projection. *)

\* What the readers see is the whole claim set of the published head.
LEMMA ShownIsHead ==
  ASSUME NEW p \in [Refs -> SUBSET Claims], NEW claims \in SUBSET Claims,
         \A r \in Refs : p[r] = About(claims, r)
  PROVE  UNION {p[r] : r \in Refs} = claims
BY DataAssumption DEF About

\* The claim sets the log replays to.
Heard == {Presence(chain, n) : n \in DOMAIN chain}

\* The guard is the abstract one.
LEMMA SameGuard ==
  ASSUME NEW old, NEW new
  PROVE  Guard(old, new) <=> View!TooMuch(old, new)
BY DEF Guard, Subjects, View!TooMuch, View!Subjects, View!Cardinality, Cardinality

\* A publication of the log as it stands is a choice among what was heard: revision n, or what the cascade
\* from it ends at, which the guard let through against one before.
LEMMA PublishChooses ==
  ASSUME IInv, IInv', NEW n \in DOMAIN chain, NEW kind \in PublishedKind,
         Publish(chain, status, n, kind), UNCHANGED <<chain, frozen, pinned>>
  PROVE  View!Choose(Presence(chain, n))
<1>1. Heard' = Heard
  BY DEF Heard
<1>2. published' \in DOMAIN chain
  <2>1. /\ LogOK(chain, status) /\ published \in 0..Len(chain)
        /\ DOMAIN chain = 1..Len(chain) /\ DOMAIN status = 1..Len(chain)
    BY DEF IInv, TypeOK, LogOK
  <2>2. \A m \in 1..Len(chain) : status[m] = "held" => published < m
    BY <2>1 DEF IInv, HeldAhead
  <2> QED BY <2>1, <2>2, PublishFacts, ProjectionEquation DEF IInv
<1>3. (UNION {projected[r] : r \in Refs})' = Presence(chain, published')
  BY ShownIsHead, PresenceType DEF IInv, TypeOK, ProjectionFollowsHead
<1>4. \/ published' = n
      \/ \E k \in DOMAIN chain : ~Guard(Presence(chain, k), Presence(chain, published'))
  <2> DEFINE first == [Skip(status, published, n) EXCEPT ![n] = kind]
  <2>1. PICK S \in SUBSET (n..Len(chain)) : \E top \in S : Cascade(chain, first, n, S) /\ published' = top
    BY DEF Publish
  <2> HIDE DEF first
  <2>2. published' # n => \E k \in S : Follows(chain, first, k, published')
    BY <2>1 DEF Cascade
  <2>3. n..Len(chain) \subseteq DOMAIN chain
    BY DEF IInv, TypeOK
  <2> QED BY <2>1, <2>2, <2>3 DEF Follows, Passing
<1>5. Presence(chain, n) \in Heard /\ Presence(chain, published') \in Heard
  BY <1>2 DEF Heard
<1>6. (UNION {projected[r] : r \in Refs})' = Presence(chain, published')
  BY <1>3
<1>7. CASE published' = n
  BY <1>1, <1>5, <1>6, <1>7 DEF View!Choose, Heard
<1>8. CASE \E k \in DOMAIN chain : ~Guard(Presence(chain, k), Presence(chain, published'))
  <2>1. PICK k \in DOMAIN chain : ~View!TooMuch(Presence(chain, k), Presence(chain, published'))
    BY <1>8, SameGuard
  <2>2. Presence(chain, k) \in Heard
    BY DEF Heard
  <2> QED BY <1>1, <1>5, <1>6, <2>1, <2>2 DEF View!Choose, Heard
<1> QED BY <1>4, <1>7, <1>8

\* A revision appended to the log is heard, and shown unless the guard holds it.
LEMMA AppendHears ==
  ASSUME IInv, IInv', ~frozen, UNCHANGED <<frozen, pinned>>,
         NEW content \in Contents, NEW ver \in Versions, NEW at \in 1..MaxAt,
         Append1(content, ver, at)
  PROVE  View!Unasked
<1> DEFINE L == Len(chain)
           before == Presence(chain, L)
           target == Target(content, ver)
           rev == [content |-> content, version |-> ver, at |-> at,
                   appeared |-> target \ before, disappeared |-> before \ target]
           ch == Append(chain, rev)
           said == Presence(ch, L + 1)
<1>1. target = Parse[content][ver] /\ target \in SUBSET Claims
  BY TargetSound, DataAssumption
<1>2. rev \in Revision
  BY <1>1, PresenceType DEF Revision
<1>3. chain \in Seq(Revision) /\ published \in 0..L /\ status \in [1..L -> Status]
  BY LenProperties DEF IInv, TypeOK
<1>4. /\ ch \in Seq(Revision) /\ L \in Nat /\ Len(ch) = L + 1
      /\ DOMAIN chain = 1..L /\ DOMAIN ch = 1..(L + 1)
  <2> HIDE DEF rev
  <2> QED BY <1>2, <1>3, AppendFacts, LenProperties
<1>5. \A n \in 0..L : Presence(ch, n) = Presence(chain, n)
  <2> HIDE DEF rev
  <2> QED BY <1>2, <1>3, PresenceOfPrefix
<1>6. chain' = ch
  BY DEF Append1
<1> HIDE DEF rev, ch
<1>7. Heard' = Heard \cup {said}
  <2>1. Heard' = {Presence(ch, n) : n \in 1..(L + 1)}
    BY <1>4, <1>6 DEF Heard
  <2>2. Heard = {Presence(chain, n) : n \in 1..L}
    BY <1>4 DEF Heard
  <2>3. \A n \in 1..L : Presence(ch, n) = Presence(chain, n)
    BY <1>4, <1>5
  <2>4. 1..(L + 1) = 1..L \cup {L + 1}
    BY <1>4
  <2> HIDE DEF L
  <2> QED BY <2>1, <2>2, <2>3, <2>4
<1>8. UNION {projected[r] : r \in Refs} = Presence(ch, published)
  <2>1. UNION {projected[r] : r \in Refs} = Presence(chain, published)
    BY ShownIsHead, PresenceType DEF IInv, TypeOK, ProjectionFollowsHead
  <2> QED BY <1>3, <1>5, <2>1
<1>9. (UNION {projected[r] : r \in Refs})' = Presence(ch, published')
  BY <1>6, ShownIsHead, PresenceType DEF IInv, TypeOK, ProjectionFollowsHead
<1>10. said \in Heard'
  BY <1>7
<1>11. CASE Guard(Presence(ch, published), said)
  <2>1. published' = published
    BY <1>4, <1>11 DEF Append1, rev, ch
  <2>2. PICK s \in Heard' : s = said
    BY <1>10
  <2>3. View!Hear(s)
    BY <1>7, <1>8, <1>9, <1>11, <2>1, <2>2, SameGuard DEF View!Hear, Heard
  <2> QED BY <2>3 DEF View!Unasked, Heard
<1>12. CASE ~Guard(Presence(ch, published), said)
  <2>1. Publish(ch, Append(status, "published"), L + 1, "published")
    BY <1>4, <1>12 DEF Append1, rev, ch
  <2>2. published' = L + 1
    <3>1. \E S \in SUBSET ((L + 1)..Len(ch)) : \E top \in S : published' = top
      BY <2>1 DEF Publish
    <3> QED BY <1>4, <3>1
  <2>3. PICK s \in Heard' : s = said
    BY <1>10
  <2>4. View!Hear(s)
    BY <1>7, <1>8, <1>9, <1>12, <2>2, <2>3, SameGuard DEF View!Hear, Heard
  <2> QED BY <2>4 DEF View!Unasked, Heard
<1> QED BY <1>11, <1>12

\* A step that leaves the log, the projection, the freeze and the dependents
\* alone is invisible to the readers.
LEMMA Invisible ==
  ASSUME UNCHANGED <<chain, projected, frozen, pinned>>
  PROVE  UNCHANGED View!view
BY DEF View!view

\* ingest, in its three outcomes.
LEMMA ReceiveHears ==
  ASSUME IInv, IInv', UNCHANGED <<frozen, pinned>>,
         NEW content \in Contents, NEW ver \in Versions, NEW at \in 1..MaxAt,
         Receive(content, ver, at)
  PROVE  View!Unasked \/ UNCHANGED View!view
<1>1. CASE SetAside("rejected") \/ SetAside("historical")
  BY <1>1, Invisible DEF SetAside
<1>2. CASE ~frozen /\ Append1(content, ver, at)
  BY <1>2, AppendHears
<1> QED BY <1>1, <1>2 DEF Receive

LEMMA StepRefines ==
  ASSUME IInv, IInv', [Next]_vars
  PROVE  AsAsked \/ UNCHANGED View!view
<1>1. ASSUME NEW content \in Contents, NEW at \in 1..MaxAt, Ingest(content, at)
      PROVE  View!Unasked \/ UNCHANGED View!view
  BY <1>1, ReceiveHears DEF Ingest, IInv, TypeOK
<1>2. ASSUME NEW ver \in Versions, ActivateRuleset(ver)
      PROVE  View!Unasked \/ UNCHANGED View!view
  <2>1. CASE published = 0
    BY <1>2, <2>1, Invisible DEF ActivateRuleset
  <2>2. CASE published # 0
    <3>1. chain[published] \in Revision
      BY <2>2 DEF IInv, TypeOK
    <3>2. chain[published].content \in Contents /\ chain[published].at \in 1..MaxAt
      BY <3>1 DEF Revision
    <3> QED BY <1>2, <2>2, <3>2, ReceiveHears DEF ActivateRuleset
  <2> QED BY <2>1, <2>2
<1>3. ASSUME NEW n \in DOMAIN chain, Approve(n)
      PROVE  AsAsked
  BY <1>3, PublishChooses DEF Approve, PublishedKind, AsAsked, Asks
<1>4. ASSUME NEW n \in DOMAIN chain, Reject(n)
      PROVE  UNCHANGED View!view
  BY <1>4, Invisible DEF Reject
<1>5. ASSUME NEW n \in DOMAIN chain, Rewind(n)
      PROVE  AsAsked
  BY <1>5, PublishChooses DEF Rewind, PublishedKind, AsAsked, Asks
<1>6. CASE Freeze \/ Unfreeze
  <2>1. frozen' \in BOOLEAN /\ UNCHANGED <<chain, projected, pinned>>
    BY <1>6 DEF Freeze, Unfreeze
  <2>2. View!Seal(frozen')
    BY <2>1 DEF View!Seal
  <2> QED BY <2>1, <2>2 DEF View!Unasked, AsAsked
<1>7. ASSUME NEW ref \in Dependable, PinnedChanges(ref)
      PROVE  AsAsked
  <2>1. pinned' \in SUBSET Refs /\ UNCHANGED <<chain, projected, frozen>>
    BY <1>7, DataAssumption DEF PinnedChanges, IInv, TypeOK
  <2>2. View!Depend(pinned')
    BY <2>1 DEF View!Depend
  <2> QED BY <2>1, <2>2 DEF View!Unasked, AsAsked
<1>8. CASE UNCHANGED vars
  BY <1>8, Invisible DEF vars
<1> QED BY <1>1, <1>2, <1>3, <1>4, <1>5, <1>6, <1>7, <1>8 DEF Next, AsAsked

\* The engine's log, review queue, cascade and partial projection implement the promise readers get: whole stated
\* claim sets, guarded; a set other than the one that has just arrived is shown by an approval or a rewind only,
\* and is the one it names or one that was held and follows it.
THEOREM StreamImplementsView == Spec => ShowsWhatWasSaid
<1>1. Init => View!Init
  BY DEF Init, View!Init
<1>2. IInv /\ IInv' /\ [Next]_vars => [AsAsked]_(View!view)
  BY StepRefines
<1> QED BY <1>1, <1>2, StreamInvariant, PTL DEF Spec, ShowsWhatWasSaid

\* And so it implements the view as it stands: the calls of persons are its acts.
THEOREM StreamRefinesView == Spec => View!Spec
<1>1. AsAsked => View!Next
  BY DEF AsAsked, View!Next, View!Choose
<1>2. [AsAsked]_(View!view) => [View!Next]_(View!view)
  BY <1>1
<1> QED BY <1>2, StreamImplementsView, PTL DEF ShowsWhatWasSaid, View!Spec
=============================================================================
