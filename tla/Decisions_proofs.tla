-------------------------- MODULE Decisions_proofs --------------------------
(***************************************************************************)
(* Theorems about the decisions of people, for every set of records,       *)
(* values and bulk changes and every number of decisions.                  *)
(***************************************************************************)
EXTENDS Decisions, FiniteSetTheorems, SequenceTheorems, WellFoundedInduction, TLAPS

\* The order on the naturals, as the relation the library reasons about.
NatOrder == OpToRel(<, Nat)

LEMMA NatOrderPairs == \A x, y \in Nat : <<x, y>> \in NatOrder <=> x < y
BY DEF NatOrder, OpToRel

LEMMA NatOrderWellFounded == IsWellFoundedOn(NatOrder, Nat)
BY NatLessThanWellFounded DEF NatOrder

\* A set of naturals that is not empty has a least element.
LEMMA LeastExists ==
  ASSUME NEW T \in SUBSET Nat, T # {}
  PROVE  \E x \in T : \A y \in T : x <= y
<1>1. PICK x \in T : \A y \in T : ~(<<y, x>> \in NatOrder)
  BY NatOrderWellFounded, WFMin
<1>2. \A y \in T : ~(y < x)
  BY <1>1, NatOrderPairs
<1> QED BY <1>2

----------------------------------------------------------------------------
(* Logs, and logs that go on *)

\* A log names backwards.
Well(l) == l \in Seq(Decision) /\ \A d \in 1..Len(l) : l[d].names \subseteq 1..(d - 1)

\* Every decision of the log has a number of its own.
Order(l, q) == q \in [1..Len(l) -> Nat] /\ \A d, e \in 1..Len(l) : q[d] = q[e] => d = e

\* The numbers k put the decisions of the log in the order in which q puts them.
Agree(l, q, k) == \A d, e \in 1..Len(l) : q[d] < q[e] <=> k[d] < k[e]

Fresh(l, m) == (Len(l) + 1)..Len(m)

\* The log m is l and a batch whose decisions name those of l.
Extends(l, m) ==
  /\ Well(l) /\ Well(m)
  /\ Len(l) <= Len(m)
  /\ \A d \in 1..Len(l) : m[d] = l[d]
  /\ \A d \in Fresh(l, m) : m[d].names \subseteq 1..Len(l)

\* What the parts of a log are.
LEMMA LogTypes ==
  ASSUME NEW l, Well(l)
  PROVE  /\ Len(l) \in Nat /\ DOMAIN l = 1..Len(l)
         /\ \A d \in 1..Len(l) : l[d] \in Decision /\ l[d].names \subseteq 1..Len(l)
<1>1. Len(l) \in Nat /\ DOMAIN l = 1..Len(l)
  BY LenProperties DEF Well
<1>2. ASSUME NEW d \in 1..Len(l)
      PROVE  l[d] \in Decision /\ l[d].names \subseteq 1..Len(l)
  <2>1. l[d] \in Decision
    BY <1>2, ElementOfSeq DEF Well
  <2>2. \A x \in 1..(d - 1) : x \in 1..Len(l)
    BY <1>1
  <2> QED BY <2>1, <2>2 DEF Well
<1> QED BY <1>1, <1>2

\* The decisions of both logs.
LEMMA Parts ==
  ASSUME NEW l, NEW m, Extends(l, m)
  PROVE  /\ DOMAIN l = 1..Len(l) /\ DOMAIN m = 1..Len(m)
         /\ 1..Len(l) \subseteq 1..Len(m)
         /\ \A d \in 1..Len(m) : d \in 1..Len(l) \/ d \in Fresh(l, m)
         /\ \A d \in Fresh(l, m) : d \in 1..Len(m) /\ d \notin 1..Len(l)
BY LogTypes DEF Extends, Fresh

\* What is named after a batch: what was named before, and what the batch names.
LEMMA NamesAfter ==
  ASSUME NEW l, NEW m, Extends(l, m), NEW K
  PROVE  /\ \A x : x \in Names(m, DOMAIN m, K) <=>
                     \/ x \in Names(l, DOMAIN l, K)
                     \/ \E d \in Fresh(l, m) : m[d].kind \in K /\ x \in m[d].names
         /\ Names(m, DOMAIN m, K) \subseteq 1..Len(l)
<1>1. \A x : x \in Names(m, DOMAIN m, K) <=> \E d \in 1..Len(m) : m[d].kind \in K /\ x \in m[d].names
  BY Parts DEF Names
<1>2. \A x : x \in Names(l, DOMAIN l, K) <=> \E d \in 1..Len(l) : l[d].kind \in K /\ x \in l[d].names
  BY Parts DEF Names
<1>3. Well(l) /\ (\A d \in 1..Len(l) : m[d] = l[d]) /\ \A d \in Fresh(l, m) : m[d].names \subseteq 1..Len(l)
  BY DEF Extends
<1>4. \A d \in 1..Len(l) : l[d].names \subseteq 1..Len(l)
  BY <1>3, LogTypes
<1> QED BY <1>1, <1>2, <1>3, <1>4, Parts

\* What a log names is in it.
LEMMA NamedBefore ==
  ASSUME NEW l, Well(l), NEW K
  PROVE  Names(l, DOMAIN l, K) \subseteq 1..Len(l)
BY LogTypes DEF Names

\* What revocations give back after a batch: what the revoked decisions before it had ended.
LEMMA RestoredAfter ==
  ASSUME NEW l, NEW m, Extends(l, m)
  PROVE  \A x : x \in Restored(m, DOMAIN m) <=>
                  \E s \in 1..Len(l) : /\ s \in Names(m, DOMAIN m, {"revoke"})
                                       /\ l[s].kind \in {"supersede", "retract"}
                                       /\ x \in l[s].names
<1>1. \A s \in Names(m, DOMAIN m, {"revoke"}) : s \in 1..Len(l) /\ s \in DOMAIN m /\ m[s] = l[s]
  BY NamesAfter, Parts DEF Extends
<1>2. \A x : x \in Restored(m, DOMAIN m) <=>
               \E s \in DOMAIN m \cap Names(m, DOMAIN m, {"revoke"}) :
                  m[s].kind \in {"supersede", "retract"} /\ x \in m[s].names
  BY DEF Restored, Names
<1> QED BY <1>1, <1>2

\* The same of a log by itself.
LEMMA RestoredIs ==
  ASSUME NEW l
  PROVE  \A x : x \in Restored(l, DOMAIN l) <=>
                  \E s \in DOMAIN l : /\ s \in Names(l, DOMAIN l, {"revoke"})
                                      /\ l[s].kind \in {"supersede", "retract"}
                                      /\ x \in l[s].names
BY DEF Restored, Names

\* No decision of a batch is ended by it.
LEMMA FreshNotEnded ==
  ASSUME NEW l, NEW m, Extends(l, m)
  PROVE  Ended(m, DOMAIN m) \subseteq 1..Len(l)
BY NamesAfter DEF Ended

----------------------------------------------------------------------------
(* The value a log gives to a record *)

\* Of the decisions in force one has the lowest number, and the value of the record is its value.
LEMMA OldestRules ==
  ASSUME NEW l, NEW q, Well(l), Order(l, q), NEW S \in SUBSET DOMAIN l, NEW r, Active(l, S, r) # {}
  PROVE  \E d \in Active(l, S, r) :
           /\ \A x \in Active(l, S, r) : q[d] <= q[x]
           /\ Value(l, q, S, r) = l[d].value
<1> DEFINE A == Active(l, S, r)
           numbers == {q[d] : d \in A}
<1>1. A \subseteq 1..Len(l)
  BY LogTypes DEF Active
<1>2. numbers \in SUBSET Nat /\ numbers # {}
  BY <1>1 DEF Order
<1>3. PICK n \in numbers : \A y \in numbers : n <= y
  BY <1>2, LeastExists
<1>4. \E d \in A : \A x \in A : q[d] <= q[x]
  BY <1>3
<1>5. PICK d \in A : d = (CHOOSE c \in A : \A x \in A : q[c] <= q[x]) /\ \A x \in A : q[d] <= q[x]
  BY <1>4
<1>6. Value(l, q, S, r) = l[d].value
  BY <1>5 DEF Value
<1> QED BY <1>5, <1>6

\* Two logs with the same decision lowest in force give the same value.
LEMMA SameValue ==
  ASSUME NEW l, NEW m, NEW q, NEW k, Well(l), Well(m), Order(l, q), Order(m, k), NEW r, NEW o,
         o \in Active(l, DOMAIN l, r), \A x \in Active(l, DOMAIN l, r) : q[o] <= q[x],
         o \in Active(m, DOMAIN m, r), \A x \in Active(m, DOMAIN m, r) : k[o] <= k[x],
         l[o] = m[o]
  PROVE  Value(l, q, DOMAIN l, r) = Value(m, k, DOMAIN m, r)
<1>1. \A d, e \in Nat : d <= e /\ e <= d => d = e
  OBVIOUS
<1>2. Active(l, DOMAIN l, r) \subseteq 1..Len(l) /\ Active(m, DOMAIN m, r) \subseteq 1..Len(m)
  BY LogTypes DEF Active
<1>3. PICK d \in Active(l, DOMAIN l, r) :
        (\A x \in Active(l, DOMAIN l, r) : q[d] <= q[x]) /\ Value(l, q, DOMAIN l, r) = l[d].value
  BY OldestRules
<1>4. PICK e \in Active(m, DOMAIN m, r) :
        (\A x \in Active(m, DOMAIN m, r) : k[e] <= k[x]) /\ Value(m, k, DOMAIN m, r) = m[e].value
  BY OldestRules
<1>5. q[d] = q[o] /\ k[e] = k[o]
  BY <1>1, <1>2, <1>3, <1>4 DEF Order
<1>6. d = o /\ e = o
  BY <1>2, <1>5 DEF Order
<1> QED BY <1>3, <1>4, <1>6

\* A value is one of the values, or none.
LEMMA ValueType ==
  ASSUME NEW l, NEW q, Well(l), Order(l, q), NEW S \in SUBSET DOMAIN l, NEW r
  PROVE  Value(l, q, S, r) \in Values \cup {None}
<1>1. CASE Active(l, S, r) = {}
  BY <1>1 DEF Value
<1>2. CASE Active(l, S, r) # {}
  <2>1. PICK d \in Active(l, S, r) : Value(l, q, S, r) = l[d].value
    BY <1>2, OldestRules
  <2>2. l[d] \in Decision
    BY LogTypes DEF Active
  <2> QED BY <2>1, <2>2 DEF Decision
<1> QED BY <1>1, <1>2

\* The batch says nothing of record r, and names no decision that does.
Untouched(l, m, r) ==
  \A d \in Fresh(l, m) : m[d].rec # r /\ \A x \in m[d].names : l[x].rec # r

\* A decision that was not about record r and named one that is was revoked: the revocation shows anew
\* what the revoked decision was about, and not what that had named.
Misnamed(l, r) ==
  \E d \in Names(l, DOMAIN l, {"revoke"}) : l[d].rec # r /\ \E x \in l[d].names : l[x].rec = r

\* What is in force of a record that a batch does not touch stays as it was, unless a decision that is revoked
\* had named the record's without being about it.
LEMMA UntouchedStays ==
  ASSUME NEW l, NEW m, Extends(l, m), NEW q, NEW k, Order(l, q), Order(m, k), Agree(l, q, k),
         NEW r, Untouched(l, m, r), ~Misnamed(m, r)
  PROVE  Value(m, k, DOMAIN m, r) = Value(l, q, DOMAIN l, r)
<1>1. Well(l) /\ Well(m) /\ \A d \in 1..Len(l) : m[d] = l[d]
  BY DEF Extends
<1>2. ASSUME NEW d \in 1..Len(l), l[d].rec = r, NEW K
      PROVE  d \in Names(m, DOMAIN m, K) <=> d \in Names(l, DOMAIN l, K)
  BY <1>2, NamesAfter DEF Untouched
<1>3. ASSUME NEW d \in 1..Len(l), l[d].rec = r
      PROVE  d \in Restored(m, DOMAIN m) <=> d \in Restored(l, DOMAIN l)
  <2>1. ASSUME d \in Restored(l, DOMAIN l)
        PROVE  d \in Restored(m, DOMAIN m)
    BY <2>1, RestoredIs, RestoredAfter, NamesAfter, Parts
  <2>2. ASSUME d \in Restored(m, DOMAIN m)
        PROVE  d \in Restored(l, DOMAIN l)
    <3>1. PICK s \in 1..Len(l) : /\ s \in Names(m, DOMAIN m, {"revoke"})
                                 /\ l[s].kind \in {"supersede", "retract"}
                                 /\ d \in l[s].names
      BY <2>2, RestoredAfter
    <3>2. m[s] = l[s] /\ m[d] = l[d]
      BY <1>1, <1>3, <3>1
    <3>3. l[s].rec = r
      BY <1>3, <3>1, <3>2 DEF Misnamed
    <3>4. s \in Names(l, DOMAIN l, {"revoke"})
      BY <1>2, <3>1, <3>3
    <3> QED BY <3>1, <3>4, RestoredIs, Parts
  <2> QED BY <2>1, <2>2
<1>4. Active(m, DOMAIN m, r) = Active(l, DOMAIN l, r)
  <2>1. ASSUME NEW d \in Active(m, DOMAIN m, r)
        PROVE  d \in Active(l, DOMAIN l, r)
    <3>1. d \in 1..Len(l) /\ l[d].rec = r
      BY <1>1, <2>1, Parts DEF Active, Untouched
    <3> QED BY <1>1, <1>2, <1>3, <2>1, <3>1, Parts DEF Active, Ended
  <2>2. ASSUME NEW d \in Active(l, DOMAIN l, r)
        PROVE  d \in Active(m, DOMAIN m, r)
    <3>1. d \in 1..Len(l) /\ l[d].rec = r
      BY <2>2, Parts DEF Active
    <3> QED BY <1>1, <1>2, <1>3, <2>2, <3>1, Parts DEF Active, Ended
  <2> QED BY <2>1, <2>2
<1>5. CASE Active(l, DOMAIN l, r) = {}
  BY <1>4, <1>5 DEF Value
<1>6. CASE Active(l, DOMAIN l, r) # {}
  <2>1. PICK o \in Active(l, DOMAIN l, r) : \A x \in Active(l, DOMAIN l, r) : q[o] <= q[x]
    BY <1>1, <1>6, OldestRules
  <2>2. o \in 1..Len(l) /\ \A x \in Active(l, DOMAIN l, r) : x \in 1..Len(l)
    BY <2>1, Parts DEF Active
  <2>3. \A x \in 1..Len(l) : x \in 1..Len(m) /\ q[x] \in Nat /\ k[x] \in Nat
    BY Parts DEF Order
  <2>4. \A x \in Active(l, DOMAIN l, r) : k[o] <= k[x]
    BY <2>1, <2>2, <2>3 DEF Agree
  <2> QED BY <1>1, <1>4, <2>1, <2>2, <2>4, SameValue
<1> QED BY <1>5, <1>6

----------------------------------------------------------------------------
(* A batch *)

\* A batch that names decisions of the log.
Batch(b) == b \in Seq(Decision) /\ \A i \in 1..Len(b) : b[i].names \subseteq 1..Len(log)

\* The log goes on with a batch.
LEMMA BatchExtends ==
  ASSUME NEW b, Well(log), Batch(b), log' = log \o b
  PROVE  /\ Extends(log, log')
         /\ Len(log') = Len(log) + Len(b)
         /\ \A d \in Fresh(log, log') : d - Len(log) \in 1..Len(b) /\ log'[d] = b[d - Len(log)]
<1>1. /\ Len(log) \in Nat /\ Len(b) \in Nat
      /\ log' \in Seq(Decision) /\ Len(log') = Len(log) + Len(b)
      /\ \A i \in 1..Len(log') : log'[i] = IF i <= Len(log) THEN log[i] ELSE b[i - Len(log)]
  BY ConcatProperties, LenProperties DEF Well, Batch
<1>2. \A d \in 1..Len(log) : log'[d] = log[d]
  BY <1>1
<1>3. \A d \in Fresh(log, log') : d - Len(log) \in 1..Len(b) /\ log'[d] = b[d - Len(log)]
  BY <1>1 DEF Fresh
<1>4. \A d \in Fresh(log, log') : log'[d].names \subseteq 1..Len(log)
  BY <1>3 DEF Batch
<1>5. Well(log')
  <2>1. ASSUME NEW d \in 1..Len(log'), d \in 1..Len(log)
        PROVE  log'[d].names \subseteq 1..(d - 1)
    BY <1>2, <2>1 DEF Well
  <2>2. ASSUME NEW d \in 1..Len(log'), d \notin 1..Len(log)
        PROVE  log'[d].names \subseteq 1..(d - 1)
    <3>1. d \in Fresh(log, log')
      BY <1>1, <2>2 DEF Fresh
    <3>2. \A x \in 1..Len(log) : x \in 1..(d - 1)
      BY <1>1, <2>2
    <3> QED BY <1>4, <3>1, <3>2
  <2> QED BY <1>1, <2>1, <2>2 DEF Well
<1>6. Len(log) <= Len(log')
  BY <1>1
<1>7. Extends(log, log')
  BY <1>2, <1>4, <1>5, <1>6 DEF Extends
<1> QED BY <1>1, <1>3, <1>7

\* The numbers of a batch lie together after the p lowest; the others keep their order.
LEMMA NumberedOrder ==
  ASSUME Well(log), seq \in [DOMAIN log -> DOMAIN log], Order(log, seq),
         NEW n \in Nat, NEW p \in 0..Len(log), Len(log') = Len(log) + n, DOMAIN log' = 1..Len(log'),
         seq' = Numbered(n, p)
  PROVE  seq' \in [DOMAIN log' -> DOMAIN log'] /\ Order(log', seq') /\ Agree(log, seq, seq')
<1> DEFINE N == Len(log)
           Shift(a) == IF a > p THEN a + n ELSE a
<1>1. N \in Nat /\ p \in Nat /\ p <= N /\ \A d \in 1..N : seq[d] \in 1..N
  BY LogTypes
<1>2. \A d, e \in 1..N : seq[d] = seq[e] => d = e
  BY DEF Order
<1>3. seq' = [d \in 1..(N + n) |-> IF d > N THEN p + d - N ELSE Shift(seq[d])] /\ Len(log') = N + n
  BY DEF Numbered
<1> HIDE DEF N
<1>4. \A a \in 1..N : Shift(a) \in 1..(N + n) /\ Shift(a) \notin (p + 1)..(p + n)
  BY <1>1
<1>5. \A a, b \in 1..N : (Shift(a) < Shift(b) <=> a < b) /\ (Shift(a) = Shift(b) => a = b)
  BY <1>1
<1> HIDE DEF Shift
<1>6. \A d \in 1..N : d \in 1..(N + n) /\ seq'[d] = Shift(seq[d])
  BY <1>1, <1>3
<1>7. \A d \in 1..(N + n) : d \notin 1..N => seq'[d] = p + d - N /\ d \in (N + 1)..(N + n)
  BY <1>1, <1>3
<1>8. \A d \in (N + 1)..(N + n) : p + d - N \in (p + 1)..(p + n) /\ p + d - N \in 1..(N + n)
  BY <1>1
<1>9. \A d \in 1..(N + n) : seq'[d] \in 1..(N + n)
  <2> SUFFICES ASSUME NEW d \in 1..(N + n)
               PROVE  seq'[d] \in 1..(N + n)
    OBVIOUS
  <2>1. CASE d \in 1..N
    <3>1. seq[d] \in 1..N /\ seq'[d] = Shift(seq[d])
      BY <1>1, <1>6, <2>1
    <3> QED BY <1>4, <3>1
  <2>2. CASE d \notin 1..N
    <3>1. seq'[d] = p + d - N /\ d \in (N + 1)..(N + n)
      BY <1>7, <2>2
    <3> QED BY <1>8, <3>1
  <2> QED BY <2>1, <2>2
<1>10. seq' \in [1..(N + n) -> 1..(N + n)] /\ seq' \in [1..(N + n) -> Nat]
  <2>1. \A x \in 1..(N + n) : x \in Nat
    BY <1>1
  <2> QED BY <1>3, <1>9, <2>1
<1>11. ASSUME NEW d \in 1..(N + n), NEW e \in 1..(N + n), seq'[d] = seq'[e]
       PROVE  d = e
  <2>1. CASE d \in 1..N /\ e \in 1..N
    <3>1. seq[d] \in 1..N /\ seq[e] \in 1..N /\ Shift(seq[d]) = Shift(seq[e])
      BY <1>1, <1>6, <1>11, <2>1
    <3>2. seq[d] = seq[e]
      BY <1>5, <3>1
    <3> QED BY <1>2, <2>1, <3>2
  <2>2. CASE d \notin 1..N /\ e \notin 1..N
    <3>1. seq'[d] = p + d - N /\ seq'[e] = p + e - N
      BY <1>7, <2>2
    <3>2. p + d - N = p + e - N
      BY <1>11, <3>1
    <3>3. d \in Int /\ e \in Int /\ p \in Int /\ N \in Int
      BY <1>1
    <3> QED BY <3>2, <3>3
  <2>3. CASE d \in 1..N /\ e \notin 1..N
    <3>1. seq[d] \in 1..N /\ seq'[d] = Shift(seq[d])
      BY <1>1, <1>6, <2>3
    <3>2. seq'[d] \notin (p + 1)..(p + n)
      BY <1>4, <3>1
    <3>3. e \in (N + 1)..(N + n) /\ seq'[e] = p + e - N
      BY <1>7, <2>3
    <3>4. seq'[e] \in (p + 1)..(p + n)
      BY <1>8, <3>3
    <3> QED BY <1>11, <3>2, <3>4
  <2>4. CASE d \notin 1..N /\ e \in 1..N
    <3>1. seq[e] \in 1..N /\ seq'[e] = Shift(seq[e])
      BY <1>1, <1>6, <2>4
    <3>2. seq'[e] \notin (p + 1)..(p + n)
      BY <1>4, <3>1
    <3>3. d \in (N + 1)..(N + n) /\ seq'[d] = p + d - N
      BY <1>7, <2>4
    <3>4. seq'[d] \in (p + 1)..(p + n)
      BY <1>8, <3>3
    <3> QED BY <1>11, <3>2, <3>4
  <2> QED BY <2>1, <2>2, <2>3, <2>4
<1>12. ASSUME NEW d \in 1..N, NEW e \in 1..N
       PROVE  seq[d] < seq[e] <=> seq'[d] < seq'[e]
  <2>1. seq[d] \in 1..N /\ seq[e] \in 1..N
    BY <1>1
  <2>2. Shift(seq[d]) < Shift(seq[e]) <=> seq[d] < seq[e]
    BY <1>5, <2>1
  <2>3. seq'[d] = Shift(seq[d]) /\ seq'[e] = Shift(seq[e])
    BY <1>6
  <2> QED BY <2>2, <2>3
<1> QED BY <1>3, <1>10, <1>11, <1>12 DEF Order, Agree, N

\* Nothing is said of a record that is not among those shown anew.
LEMMA UntouchedBy ==
  ASSUME NEW b, Well(log), Batch(b), log' = log \o b, NEW r \in Records, r \notin Touched(b)
  PROVE  Untouched(log, log', r)
<1>1. DOMAIN b = 1..Len(b) /\ r # None
  BY LenProperties, DecisionAssumption DEF Batch
<1>2. \A i \in 1..Len(b) : r \notin Subjects(b[i])
  BY <1>1 DEF Touched
<1>3. \A i \in 1..Len(b) : b[i].rec # r /\ \A x \in b[i].names : log[x].rec # r
  BY <1>1, <1>2 DEF Subjects
<1>4. \A d \in Fresh(log, log') : d - Len(log) \in 1..Len(b) /\ log'[d] = b[d - Len(log)]
  BY BatchExtends
<1> QED BY <1>3, <1>4, ZenonT(60) DEF Untouched

\* apply_decisions keeps the log in order and the records at what it says.
LEMMA ApplyKeeps ==
  ASSUME TypeOK, Well(log), Order(log, seq), ProjectedIsLog, NEW b, Batch(b),
         NEW u \in 0..Len(log), NEW p \in 0..Len(log), Apply(b, u, p)
  PROVE  /\ Well(log') /\ Len(log') <= MaxLog /\ Order(log', seq') /\ Agree(log, seq, seq')
         /\ seq' \in [DOMAIN log' -> DOMAIN log'] /\ commits' \subseteq 0..Len(log')
         /\ projected' \in [Records -> Values \cup {None}]
         /\ behind' \subseteq Records
         /\ ProjectedIsLog'
<1> DEFINE sees == 1..u \cup (Len(log) + 1)..Len(log')
<1>1. /\ log' = log \o b /\ commits' = commits \cup {Len(log')} /\ seq' = Numbered(Len(b), p)
      /\ projected' = [r \in Records |-> IF r \in Touched(b) THEN Value(log', seq', sees, r) ELSE projected[r]]
      /\ behind' = IF u = Len(log) THEN behind \ Touched(b) ELSE behind \cup Touched(b)
      /\ Len(log) + Len(b) <= MaxLog
  BY DEF Apply, Room
<1>2. /\ Extends(log, log') /\ Len(log') = Len(log) + Len(b) /\ Well(log')
      /\ Len(log) \in Nat /\ Len(b) \in Nat /\ Len(log') \in Nat
  BY <1>1, BatchExtends, LogTypes, LenProperties DEF Batch, Extends
<1>3. sees \subseteq DOMAIN log' /\ (u = Len(log) => sees = DOMAIN log')
  BY <1>2, Parts
<1>8. seq' \in [DOMAIN log' -> DOMAIN log'] /\ Order(log', seq') /\ Agree(log, seq, seq')
  BY <1>1, <1>2, Parts, NumberedOrder DEF TypeOK
<1>4. Touched(b) \subseteq Records
  <2>1. ASSUME NEW i \in 1..Len(b)
        PROVE  Subjects(b[i]) \subseteq Records
    <3>1. b[i] \in Decision /\ \A x \in b[i].names : log[x] \in Decision
      BY <2>1, ElementOfSeq, LogTypes DEF Batch
    <3> QED BY <3>1 DEF Subjects, Decision
  <2> QED BY <2>1, LenProperties DEF Touched, Batch
<1>5. projected' \in [Records -> Values \cup {None}]
  <2>1. \A r \in Records : Value(log', seq', sees, r) \in Values \cup {None}
    BY <1>2, <1>3, <1>8, ValueType
  <2> QED BY <1>1, <2>1 DEF TypeOK
<1>6. behind' \subseteq Records /\ commits' \subseteq 0..Len(log')
  <2>1. \A x \in 0..Len(log) : x \in 0..Len(log')
    BY <1>2
  <2>2. commits \subseteq 0..Len(log) /\ behind \subseteq Records /\ Len(log') \in 0..Len(log')
    BY <1>2 DEF TypeOK
  <2> QED BY <1>1, <1>4, <2>1, <2>2
<1>7. ProjectedIsLog'
  <2> SUFFICES ASSUME NEW r \in Records, ~Misnamed(log', r), r \notin behind'
               PROVE  projected'[r] = Value(log', seq', DOMAIN log', r)
    BY DEF ProjectedIsLog, Misnamed, Written
  <2>1. CASE r \in Touched(b)
    BY <1>1, <1>3, <2>1
  <2>2. CASE r \notin Touched(b)
    <3>1. Value(log', seq', DOMAIN log', r) = Value(log, seq, DOMAIN log, r)
      <4>1. Untouched(log, log', r)
        BY <1>1, <2>2, UntouchedBy
      <4> QED BY <1>2, <1>8, <4>1, UntouchedStays
    <3>2. ~Misnamed(log, r)
      <4>1. \A d \in Names(log, DOMAIN log, {"revoke"}) :
              d \in Names(log', DOMAIN log', {"revoke"}) /\ d \in 1..Len(log)
        BY <1>2, NamesAfter, NamedBefore
      <4>2. \A d \in 1..Len(log) : log'[d] = log[d] /\ log[d].names \subseteq 1..Len(log)
        BY <1>2, LogTypes DEF Extends
      <4> QED BY <4>1, <4>2 DEF Misnamed
    <3>3. r \notin behind
      BY <1>1, <2>2
    <3>4. projected[r] = Value(log, seq, DOMAIN log, r)
      BY <3>2, <3>3 DEF ProjectedIsLog, Misnamed, Written
    <3> QED BY <1>1, <2>2, <3>1, <3>4
  <2> QED BY <2>1, <2>2
<1> QED BY <1>1, <1>2, <1>5, <1>6, <1>7, <1>8

----------------------------------------------------------------------------
(* The batches of the actions *)

\* A request with one decision.
LEMMA OneItem ==
  ASSUME NEW d \in Decision, d.names \subseteq 1..Len(log)
  PROVE  Batch(<<d>>) /\ Len(<<d>>) = 1 /\ <<d>>[1] = d
BY DEF Batch

\* Confirming a value replaces what the request could see of the record.
LEMMA Confirming ==
  ASSUME TypeOK, Well(log), NEW r \in Records, NEW v \in Values, NEW S \in SUBSET DOMAIN log
  PROVE  LET d == ConfirmValue(r, v, Active(log, S, r)) IN
         /\ d \in Decision /\ d.names \subseteq 1..Len(log)
         /\ d.kind \in {"confirm", "supersede"}
<1>1. Active(log, S, r) \subseteq 1..Len(log)
  BY LogTypes DEF Active
<1>2. Active(log, S, r) \subseteq 1..MaxLog
  BY <1>1, LogTypes, DecisionAssumption DEF TypeOK
<1> QED BY <1>1, <1>2 DEF ConfirmValue, Item, Decision, Kinds

\* Some records in an order.
LEMMA InOrder ==
  ASSUME NEW R \in SUBSET Records
  PROVE  /\ SetToSeq(R) \in [1..Cardinality(R) -> R] /\ Cardinality(R) \in Nat
         /\ DOMAIN SetToSeq(R) = 1..Cardinality(R)
<1>1. IsFiniteSet(R)
  BY DecisionAssumption, FS_Subset
<1>2. Cardinality(R) \in Nat /\ ExistsBijection(1..Cardinality(R), R)
  BY <1>1, FS_CardinalityType
<1>3. \E f \in [1..Cardinality(R) -> R] : IsInjective(f)
  BY <1>2 DEF ExistsBijection, Bijection, Injection
<1> QED BY <1>2, <1>3 DEF SetToSeq

\* The batch of a bulk change.
LEMMA WriteBatch ==
  ASSUME TypeOK, Well(log), NEW v \in Values, NEW R \in SUBSET Records
  PROVE  LET rows == SetToSeq(R)
             b == [i \in DOMAIN rows |-> ConfirmValue(rows[i], v, Active(log, DOMAIN log, rows[i]))]
         IN  /\ Batch(b) /\ Len(b) = Cardinality(R)
             /\ \A i \in 1..Len(b) : b[i].kind \in {"confirm", "supersede"}
<1> DEFINE rows == SetToSeq(R)
           n == Cardinality(R)
           b == [i \in DOMAIN rows |-> ConfirmValue(rows[i], v, Active(log, DOMAIN log, rows[i]))]
<1>1. n \in Nat /\ DOMAIN rows = 1..n /\ \A i \in 1..n : rows[i] \in Records
  BY InOrder
<1>2. \A i \in 1..n : /\ b[i] \in Decision /\ b[i].names \subseteq 1..Len(log)
                      /\ b[i].kind \in {"confirm", "supersede"}
  <2> HIDE DEF rows
  <2> QED BY <1>1, Confirming
<1>3. b \in [1..n -> Decision]
  <2>1. b = [i \in 1..n |-> b[i]]
    BY <1>1
  <2> HIDE DEF b
  <2> QED BY <1>2, <2>1
<1>4. b \in Seq(Decision) /\ Len(b) = n
  <2> HIDE DEF b
  <2> QED BY <1>1, <1>3, SeqDef, LenProperties
<1> HIDE DEF b
<1>5. Batch(b) /\ Len(b) = n /\ \A i \in 1..Len(b) : b[i].kind \in {"confirm", "supersede"}
  BY <1>2, <1>4 DEF Batch
<1> QED BY <1>5 DEF b

----------------------------------------------------------------------------
(* The invariant *)

\* A bulk change confirms and supersedes.
BulkConfirms == \A c \in Changes : \A d \in change[c].batch : log[d].kind \in {"confirm", "supersede"}

\* Its last part is what is wanted; the numbers decide which of the decisions in force is shown.
Sound == TypeOK /\ Well(log) /\ Order(log, seq) /\ BulkConfirms /\ ProjectedIsLog

\* A batch keeps the invariant, and what it means for the bulk changes is shown apart.
LEMMA SoundAfter ==
  ASSUME Sound, NEW b, Batch(b), NEW u \in 0..Len(log), NEW p \in 0..Len(log), Apply(b, u, p),
         change' \in [Changes -> [state : {"previewed", "awaiting_approval", "applied", "undone"},
                                  batch : SUBSET (DOMAIN log')]],
         BulkConfirms'
  PROVE  Sound'
<1>1. Well(log') /\ Len(log') <= MaxLog /\ ProjectedIsLog' /\ Order(log', seq')
  BY ApplyKeeps DEF Sound
<1>2. /\ projected' \in [Records -> Values \cup {None}] /\ behind' \subseteq Records
      /\ seq' \in [DOMAIN log' -> DOMAIN log'] /\ commits' \subseteq 0..Len(log')
  BY ApplyKeeps DEF Sound
<1>3. log' \in Seq(Decision) /\ \A d \in DOMAIN log' : log'[d].names \subseteq 1..(d - 1)
  BY <1>1, LogTypes DEF Well
<1>4. TypeOK'
  BY <1>1, <1>2, <1>3 DEF TypeOK
<1> QED BY <1>1, <1>4 DEF Sound

\* The batch of an undo.
LEMMA UndoBatch ==
  ASSUME Sound, NEW c \in Changes
  PROVE  LET d == Item("revoke", None, None, Undone(c)) IN
         /\ Batch(<<d>>) /\ Len(<<d>>) = 1 /\ <<d>>[1] = d
         /\ d.kind = "revoke" /\ d.names = change[c].batch /\ d.rec = None
<1>1. change[c].batch \subseteq DOMAIN log /\ DOMAIN log = 1..Len(log) /\ DOMAIN log \subseteq 1..MaxLog
  BY LogTypes, DecisionAssumption DEF Sound, TypeOK
<1> DEFINE d == Item("revoke", None, None, Undone(c))
<1>2. d \in Decision /\ d.names \subseteq 1..Len(log) /\ d.kind = "revoke"
  BY <1>1 DEF Item, Undone, Decision, Kinds
<1>3. d.names = change[c].batch /\ d.rec = None
  BY DEF Item, Undone
<1> HIDE DEF d
<1>4. Batch(<<d>>) /\ Len(<<d>>) = 1 /\ <<d>>[1] = d
  BY <1>2, OneItem
<1> QED BY <1>2, <1>3, <1>4 DEF d

\* What is posted is a batch.
LEMMA PostedBatch ==
  ASSUME Sound, NEW n \in Nat, NEW items \in [1..n -> Items]
  PROVE  Batch(items)
<1>1. DOMAIN log = 1..Len(log) /\ DOMAIN log \subseteq 1..MaxLog
  BY LogTypes, DecisionAssumption DEF Sound, TypeOK
<1>2. ASSUME NEW d \in Items
      PROVE  d \in Decision /\ d.names \subseteq 1..Len(log)
  BY <1>1 DEF Items, Item, Decision, Kinds
<1>3. items \in [1..n -> Decision] /\ \A i \in 1..n : items[i].names \subseteq 1..Len(log)
  BY <1>2
<1>4. items \in Seq(Decision) /\ Len(items) = n
  BY <1>3, SeqDef, LenProperties
<1> QED BY <1>3, <1>4 DEF Batch

\* Every action appends one batch, or changes neither the log nor what is shown.
LEMMA SomeBatch ==
  ASSUME Sound, Next
  PROVE  \/ UNCHANGED <<log, seq, commits, projected, behind>>
         \/ \E b, u, p : Batch(b) /\ u \in 0..Len(log) /\ p \in 0..Len(log) /\ Apply(b, u, p)
<1> DEFINE Some == \E b, u, p : Batch(b) /\ u \in 0..Len(log) /\ p \in 0..Len(log) /\ Apply(b, u, p)
<1>0. Len(log) \in 0..Len(log) /\ DOMAIN log = 1..Len(log) /\ commits \subseteq 0..Len(log)
  BY LogTypes DEF Sound, TypeOK
<1>1. ASSUME NEW r \in Records, NEW v \in Values, NEW t \in commits, NEW u \in commits,
             NEW p \in 0..Len(log), edit_value(r, v, t, u, p)
      PROVE  Some
  <2> DEFINE d == ConfirmValue(r, v, Active(log, 1..t, r))
  <2>1. 1..t \in SUBSET DOMAIN log
    BY <1>0
  <2>2. d \in Decision /\ d.names \subseteq 1..Len(log)
    BY <2>1, Confirming DEF Sound
  <2>3. Apply(<<d>>, u, p)
    BY <1>1 DEF edit_value
  <2> HIDE DEF d
  <2> QED BY <1>0, <2>2, <2>3, OneItem
<1>2. ASSUME NEW b, Batch(b), ApplyNow(b)
      PROVE  Some
  BY <1>0, <1>2 DEF ApplyNow
<1>3. ASSUME NEW n \in {m \in 1..MaxItems : Room(m)}, NEW items \in [1..n -> Items], decide(items)
      PROVE  Some
  BY <1>2, <1>3, PostedBatch, DecisionAssumption DEF decide
<1>4. ASSUME NEW c \in Changes, NEW v \in Values, NEW targets \in SUBSET Records, write(c, v, targets)
      PROVE  Some
  <2>1. Rows(v, targets) \in SUBSET Records
    BY DEF Rows
  <2> QED BY <1>2, <1>4, <2>1, WriteBatch DEF write, Sound
<1>5. ASSUME NEW c \in Changes, undo(c)
      PROVE  Some
  BY <1>2, <1>5, UndoBatch DEF undo
<1> QED BY <1>1, <1>3, <1>4, <1>5 DEF Next, apply, approve

\* The batch of a bulk change is what its write appends, and stays what it is.
LEMMA BulkAfter ==
  ASSUME Sound, Next
  PROVE  /\ change' \in [Changes -> [state : {"previewed", "awaiting_approval", "applied", "undone"},
                                     batch : SUBSET (DOMAIN log')]]
         /\ BulkConfirms'
<1> DEFINE Bulk(l) == [Changes -> [state : {"previewed", "awaiting_approval", "applied", "undone"},
                                   batch : SUBSET DOMAIN l]]
<1>1. DOMAIN log \subseteq DOMAIN log' /\ \A d \in DOMAIN log : log'[d] = log[d]
  <2>1. ASSUME NEW b, Batch(b), NEW u, NEW p, Apply(b, u, p)
        PROVE  DOMAIN log \subseteq DOMAIN log' /\ \A d \in DOMAIN log : log'[d] = log[d]
    <3>1. Extends(log, log')
      BY <2>1, BatchExtends DEF Sound, Apply
    <3> QED BY <3>1, Parts DEF Extends
  <2> QED BY <2>1, SomeBatch
<1>2. change \in Bulk(log)
  BY DEF Sound, TypeOK
<1>3. CASE change' = change
  BY <1>1, <1>2, <1>3 DEF Sound, BulkConfirms
<1>4. ASSUME NEW c \in Changes, NEW s \in {"awaiting_approval", "undone"},
             change' = [change EXCEPT ![c].state = s]
      PROVE  change' \in Bulk(log') /\ BulkConfirms'
  <2>1. change' \in Bulk(log') /\ \A x \in Changes : change'[x].batch = change[x].batch
    BY <1>1, <1>2, <1>4
  <2> QED BY <1>1, <1>2, <2>1 DEF Sound, BulkConfirms
<1>5. ASSUME NEW c \in Changes, NEW v \in Values, NEW targets \in SUBSET Records, write(c, v, targets)
      PROVE  change' \in Bulk(log') /\ BulkConfirms'
  <2> DEFINE R == Rows(v, targets)
             rows == SetToSeq(R)
             b == [i \in DOMAIN rows |-> ConfirmValue(rows[i], v, Active(log, DOMAIN log, rows[i]))]
  <2>1. R \in SUBSET Records
    BY DEF Rows
  <2>2. Batch(b) /\ Len(b) = Cardinality(R) /\ \A i \in 1..Len(b) : b[i].kind \in {"confirm", "supersede"}
    BY <2>1, WriteBatch DEF Sound
  <2>3. Apply(b, Len(log), Len(log))
    BY <1>5 DEF write, ApplyNow
  <2> HIDE DEF b
  <2>4. /\ Extends(log, log') /\ Len(log') = Len(log) + Len(b)
        /\ \A d \in Fresh(log, log') : d - Len(log) \in 1..Len(b) /\ log'[d] = b[d - Len(log)]
    BY <2>2, <2>3, BatchExtends DEF Sound, Apply
  <2>5. change' = [change EXCEPT ![c].state = "applied", ![c].batch = Fresh(log, log')]
    BY <1>5, <2>2, <2>4 DEF write, Following, Fresh
  <2>6. Fresh(log, log') \subseteq DOMAIN log'
    BY <2>4, Parts
  <2>7. change' \in Bulk(log')
    BY <1>1, <1>2, <2>5, <2>6, ZenonT(60)
  <2>8. change'[c].batch = Fresh(log, log') /\ \A x \in Changes : x # c => change'[x].batch = change[x].batch
    BY <1>2, <2>5
  <2>9. \A d \in Fresh(log, log') : log'[d].kind \in {"confirm", "supersede"}
    BY <2>2, <2>4
  <2>10. BulkConfirms'
    BY <1>1, <1>2, <2>8, <2>9 DEF Sound, BulkConfirms
  <2> QED BY <2>7, <2>10
<1> QED BY <1>3, <1>4, <1>5 DEF Next, edit_value, decide, apply, approve, undo

\* The invariant is inductive.
LEMMA SoundStep ==
  ASSUME Sound, [Next]_vars
  PROVE  Sound'
<1>1. ASSUME Next, NEW b, NEW u \in 0..Len(log), NEW p \in 0..Len(log), Batch(b), Apply(b, u, p)
      PROVE  Sound'
  BY <1>1, BulkAfter, SoundAfter
<1>2. ASSUME Next, UNCHANGED <<log, seq, commits, projected, behind>>
      PROVE  Sound'
  <2>1. BulkConfirms' /\ TypeOK' /\ Well(log') /\ Order(log', seq')
    BY <1>2, BulkAfter DEF Sound, TypeOK
  <2>2. ProjectedIsLog'
    BY <1>2 DEF Sound, ProjectedIsLog, Written
  <2> QED BY <2>1, <2>2 DEF Sound
<1>3. CASE UNCHANGED vars
  <2>1. TypeOK' /\ BulkConfirms' /\ Well(log') /\ Order(log', seq')
    BY <1>3 DEF vars, Sound, TypeOK, BulkConfirms
  <2>2. ProjectedIsLog'
    BY <1>3 DEF vars, Sound, ProjectedIsLog, Written
  <2> QED BY <2>1, <2>2 DEF Sound
<1> QED BY <1>1, <1>2, <1>3, SomeBatch

\* The invariant holds at first.
LEMMA SoundInit == Init => Sound
<1> SUFFICES ASSUME Init PROVE Sound
  OBVIOUS
<1>1. log = <<>> /\ Len(log) = 0 /\ log \in Seq(Decision) /\ DOMAIN log = {}
  BY DEF Init
<1>2. TypeOK /\ Well(log) /\ Order(log, seq) /\ BulkConfirms
  BY <1>1, DecisionAssumption DEF Init, TypeOK, Well, Order, BulkConfirms
<1>3. \A r \in Records : Active(log, Written, r) = {}
  BY <1>1 DEF Active, Written
<1>4. ProjectedIsLog
  BY <1>3 DEF Init, ProjectedIsLog, Value
<1> QED BY <1>2, <1>4 DEF Sound

\* The invariant of the specification.
LEMMA AlwaysSound == Spec => []Sound
BY SoundInit, SoundStep, PTL DEF Spec

\* Every decision, record and bulk change is what the code makes of it.
THEOREM TypeCorrect == Spec => []TypeOK
<1>1. Sound => TypeOK
  BY DEF Sound
<1> QED BY <1>1, AlwaysSound, PTL

\* I-LED-1: a decision out of force has one that stands against it.  What a supersede or a retraction
\* named is out only while no revocation names that one, for every log, well formed or not.
LEMMA EndedHasReason ==
  ASSUME NEW l, NEW S
  PROVE  Ended(l, S) \subseteq Standing(l, S)
<1> SUFFICES ASSUME NEW d \in Ended(l, S)
             PROVE  d \in Standing(l, S)
  OBVIOUS
<1>1. PICK x \in S : l[x].kind \in {"supersede", "retract", "revoke"} /\ d \in l[x].names
  BY DEF Ended, Names
<1>2. CASE l[x].kind = "revoke"
  BY <1>1, <1>2 DEF Standing, Names
<1>3. CASE l[x].kind \in {"supersede", "retract"}
  <2>1. x \notin Names(l, S, {"revoke"})
    <3> SUFFICES ASSUME x \in Names(l, S, {"revoke"})
                 PROVE  d \in Restored(l, S)
      BY DEF Ended
    <3> QED BY <1>1, <1>3 DEF Restored, Names
  <2> QED BY <2>1, <1>1, <1>3 DEF Standing, Names
<1> QED BY <1>1, <1>2, <1>3

\* I-LED-1, of every log the requests can write.
THEOREM NothingElseEnds == Spec => []EndedByStanding
<1>1. EndedByStanding
  BY EndedHasReason DEF EndedByStanding
<1> QED BY <1>1, PTL

\* apply_decisions shows anew the subjects of a batch and of what it names, one level deep: that is enough
\* for readers to see what all the decisions say, however many there are, but for records that a revoked
\* decision had named without being about them, and for those of a request that did not see all the log.
THEOREM ReadersSeeTheLog == Spec => []ProjectedIsLog
<1>1. Sound => ProjectedIsLog
  BY DEF Sound
<1> QED BY <1>1, AlwaysSound, PTL

----------------------------------------------------------------------------
(* What a step may not do *)

\* What is in force of a record after an undo: what was, but for the batch, and what the batch had replaced.
LEMMA UndoStep ==
  ASSUME Sound, NEW c \in Changes, NEW r \in Records, undo(c)
  PROVE  /\ Active(log, Written, r) \ change[c].batch \subseteq Active(log', DOMAIN log', r)
         /\ Active(log', DOMAIN log', r) \ Active(log, Written, r)
              \subseteq Names(log, change[c].batch, {"supersede"})
<1> DEFINE d == Item("revoke", None, None, Undone(c))
<1>1. /\ Batch(<<d>>) /\ Len(<<d>>) = 1 /\ <<d>>[1] = d
      /\ d.kind = "revoke" /\ d.names = change[c].batch /\ d.rec = None
  BY UndoBatch
<1>2. log' = log \o <<d>>
  BY DEF undo, ApplyNow, Apply
<1> HIDE DEF d
<1>3. /\ Extends(log, log') /\ Len(log') = Len(log) + 1
      /\ \A x \in Fresh(log, log') : log'[x] = d
  <2> DEFINE b == <<d>>
  <2>1. Batch(b) /\ log' = log \o b /\ Len(b) = 1 /\ \A i \in 1..Len(b) : b[i] = d
    BY <1>1, <1>2
  <2> HIDE DEF b
  <2> QED BY <2>1, BatchExtends DEF Sound
<1>4. /\ DOMAIN log = 1..Len(log) /\ DOMAIN log' = 1..Len(log')
      /\ \A x \in DOMAIN log : x \in DOMAIN log' /\ log'[x] = log[x]
      /\ \A x \in DOMAIN log' : x \in DOMAIN log \/ x \in Fresh(log, log')
  BY <1>3, Parts DEF Extends
<1>5. \E x : x \in Fresh(log, log')
  BY <1>3, LogTypes DEF Fresh, Sound
<1>6. \A x : x \in Names(log', DOMAIN log', {"revoke"})
               <=> x \in Names(log, DOMAIN log, {"revoke"}) \/ x \in change[c].batch
  BY <1>1, <1>3, <1>5, NamesAfter
<1>7. ASSUME NEW x
      PROVE  /\ x \in Names(log, DOMAIN log, {"supersede", "retract", "revoke"})
                  => x \in Names(log', DOMAIN log', {"supersede", "retract", "revoke"})
             /\ x \in Names(log', DOMAIN log', {"supersede", "retract", "revoke"})
                  => x \in Names(log, DOMAIN log, {"supersede", "retract", "revoke"}) \/ x \in change[c].batch
  BY <1>1, <1>3, NamesAfter
<1>8. \A x \in Restored(log, DOMAIN log) : x \in Restored(log', DOMAIN log')
  BY <1>3, <1>4, <1>6, RestoredIs, RestoredAfter
<1>9. ASSUME NEW x \in Active(log, Written, r), x \notin change[c].batch
      PROVE  x \in Active(log', DOMAIN log', r)
  BY <1>4, <1>7, <1>8, <1>9 DEF Active, Ended, Written
<1>10. ASSUME NEW x \in Active(log', DOMAIN log', r), x \notin Active(log, Written, r)
       PROVE  x \in Names(log, change[c].batch, {"supersede"})
  <2>1. x \in DOMAIN log /\ log[x].rec = r /\ log[x].kind \in {"confirm", "supersede"}
    BY <1>1, <1>3, <1>4, <1>10, DecisionAssumption DEF Active
  <2>2. x \in Restored(log', DOMAIN log') /\ x \notin Restored(log, DOMAIN log)
    BY <1>7, <1>10, <2>1 DEF Active, Ended, Written
  <2>3. PICK s \in 1..Len(log) : /\ s \in Names(log', DOMAIN log', {"revoke"})
                                 /\ log[s].kind \in {"supersede", "retract"}
                                 /\ x \in log[s].names
    BY <1>3, <2>2, RestoredAfter
  <2>4. s \in change[c].batch
    BY <1>4, <1>6, <2>2, <2>3, RestoredIs
  <2>5. log[s].kind = "supersede"
    BY <2>3, <2>4 DEF Sound, BulkConfirms
  <2> QED BY <2>3, <2>4, <2>5 DEF Names
<1> QED BY <1>9, <1>10

\* A batch that revokes nothing, names nothing in force of a record and has no decision about it with a lower
\* number than all of these leaves the confirmation that is shown.
LEMMA OldestStays ==
  ASSUME NEW l, NEW m, Extends(l, m), NEW q, NEW k, Order(l, q), Order(m, k), Agree(l, q, k),
         NEW r, Active(l, DOMAIN l, r) # {},
         \A d \in Fresh(l, m) : m[d].kind # "revoke" /\ m[d].names \cap Active(l, DOMAIN l, r) = {},
         \A d \in Fresh(l, m) : m[d].rec = r => \E x \in Active(l, DOMAIN l, r) : ~(k[d] < k[x])
  PROVE  Value(m, k, DOMAIN m, r) = Value(l, q, DOMAIN l, r)
<1> DEFINE A == Active(l, DOMAIN l, r)
           B == Active(m, DOMAIN m, r)
<1>1. Well(l) /\ Well(m) /\ \A d \in 1..Len(l) : m[d] = l[d]
  BY DEF Extends
<1>2. \A x : x \in Names(m, DOMAIN m, {"revoke"}) <=> x \in Names(l, DOMAIN l, {"revoke"})
  BY NamesAfter
<1>3. \A x : x \in Restored(m, DOMAIN m) <=> x \in Restored(l, DOMAIN l)
  BY <1>2, RestoredIs, RestoredAfter, Parts
<1>4. ASSUME NEW x \in A
      PROVE  x \in B
  <2>1. x \in Names(m, DOMAIN m, {"supersede", "retract", "revoke"})
          => x \in Names(l, DOMAIN l, {"supersede", "retract", "revoke"})
    BY <1>4, NamesAfter
  <2> QED BY <1>1, <1>3, <1>4, <2>1, Parts DEF Active, Ended
<1>5. ASSUME NEW x \in B, x \in 1..Len(l)
      PROVE  x \in A
  <2>1. x \in Names(l, DOMAIN l, {"supersede", "retract", "revoke"})
          => x \in Names(m, DOMAIN m, {"supersede", "retract", "revoke"})
    BY NamesAfter
  <2> QED BY <1>1, <1>3, <1>5, <2>1, Parts DEF Active, Ended
<1>6. PICK o \in A : \A x \in A : q[o] <= q[x]
  BY <1>1, OldestRules
<1>7. /\ A \subseteq 1..Len(l) /\ o \in 1..Len(l)
      /\ \A x \in 1..Len(l) : x \in 1..Len(m) /\ q[x] \in Nat /\ k[x] \in Nat
      /\ \A x \in B : x \in 1..Len(m) /\ m[x].rec = r /\ k[x] \in Nat
  <2>1. A \subseteq 1..Len(l) /\ o \in 1..Len(l)
    BY <1>1, <1>6, LogTypes DEF Active
  <2>2. \A x \in 1..Len(l) : x \in 1..Len(m)
    BY Parts
  <2>3. (\A x \in 1..Len(l) : q[x] \in Nat) /\ \A x \in 1..Len(m) : k[x] \in Nat
    BY <1>1, LogTypes DEF Order
  <2>4. \A x \in B : x \in 1..Len(m) /\ m[x].rec = r
    BY <1>1, LogTypes DEF Active
  <2> QED BY <2>1, <2>2, <2>3, <2>4
<1>8. ASSUME NEW x \in A
      PROVE  k[o] <= k[x]
  <2>1. q[o] <= q[x] /\ o \in 1..Len(l) /\ x \in 1..Len(l)
    BY <1>6, <1>7
  <2>2. q[x] < q[o] <=> k[x] < k[o]
    BY <2>1 DEF Agree
  <2>3. q[o] \in Nat /\ q[x] \in Nat /\ k[o] \in Nat /\ k[x] \in Nat
    BY <1>7, <2>1
  <2> QED BY <2>1, <2>2, <2>3
<1>9. ASSUME NEW x \in B
      PROVE  k[o] <= k[x]
  <2>1. CASE x \in 1..Len(l)
    BY <1>5, <1>8, <2>1
  <2>2. CASE x \in Fresh(l, m)
    <3>1. PICK y \in A : ~(k[x] < k[y])
      BY <1>7, <2>2
    <3>2. k[x] \in Nat /\ k[y] \in Nat /\ k[o] \in Nat
      BY <1>7
    <3> QED BY <1>8, <3>1, <3>2
  <2> QED BY <1>7, <2>1, <2>2, Parts
<1>10. o \in B /\ l[o] = m[o]
  BY <1>1, <1>4, <1>6, <1>7
<1> QED BY <1>1, <1>6, <1>9, <1>10, SameValue

\* The same of a request.
LEMMA ConfirmedStep ==
  ASSUME Sound, NEW b, Batch(b), NEW u \in 0..Len(log), NEW p \in 0..Len(log), Apply(b, u, p), NEW r \in Records,
         Active(log, Written, r) # {}, projected[r] = Value(log, seq, Written, r),
         projected'[r] # projected[r], r \notin behind'
  PROVE  \E d \in (Len(log) + 1)..Len(log') :
           \/ log'[d].kind = "revoke"
           \/ log'[d].names \cap Active(log, Written, r) # {}
           \/ log'[d].rec = r /\ \A x \in Active(log, Written, r) : seq'[d] < seq'[x]
<1>1. Extends(log, log') /\ Len(log') = Len(log) + Len(b)
  BY BatchExtends DEF Apply, Sound
<1>2. Len(log) \in Nat /\ Len(b) \in Nat /\ DOMAIN log' = 1..Len(log')
  BY <1>1, LogTypes, LenProperties, Parts DEF Sound, Batch
<1>3. r \in Touched(b)
  BY DEF Apply, Sound, TypeOK
<1>4. u = Len(log)
  BY <1>3 DEF Apply
<1>5. 1..u \cup (Len(log) + 1)..Len(log') = DOMAIN log'
  BY <1>1, <1>2, <1>4
<1>6. projected'[r] = Value(log', seq', DOMAIN log', r)
  BY <1>3, <1>5 DEF Apply
<1>7. Order(log, seq) /\ Order(log', seq') /\ Agree(log, seq, seq')
  BY ApplyKeeps DEF Sound
<1> QED BY <1>1, <1>6, <1>7, OldestStays DEF Fresh, Written

\* bulk.py, "undone by revoking that batch": an undo ends its own batch and brings back what that had
\* replaced, and nothing else, whatever was decided and undone in between.
THEOREM UndoIsOfItsBatch == Spec => UndoTakesBack
<1> DEFINE Undoing(c, r) ==
       change'[c].state = "undone" /\ change[c].state # "undone"
       => /\ Active(log, Written, r) \ change[c].batch \subseteq Active(log', DOMAIN log', r)
          /\ Active(log', DOMAIN log', r) \ Active(log, Written, r)
               \subseteq Names(log, change[c].batch, {"supersede"})
<1>1. ASSUME Sound, Next, NEW c \in Changes, NEW r \in Records
      PROVE  Undoing(c, r)
  <2> SUFFICES ASSUME change'[c].state = "undone", change[c].state # "undone"
               PROVE  undo(c)
    BY <1>1, UndoStep
  <2>1. change \in [Changes -> [state : {"previewed", "awaiting_approval", "applied", "undone"},
                                batch : SUBSET DOMAIN log]]
    BY <1>1 DEF Sound, TypeOK
  <2>2. ASSUME NEW x \in Changes, NEW s \in {"awaiting_approval", "applied"}, NEW n,
               \/ change' = [change EXCEPT ![x].state = s]
               \/ change' = [change EXCEPT ![x].state = s, ![x].batch = n]
        PROVE  FALSE
    BY <2>1, <2>2
  <2>3. ASSUME NEW x \in Changes, undo(x)
        PROVE  x = c
    BY <2>1, <2>3 DEF undo
  <2> QED BY <1>1, <2>2, <2>3, ZenonT(60) DEF Next, edit_value, decide, apply, approve, write
<1>2. Sound /\ [Next]_vars => [\A c \in Changes, r \in Records : Undoing(c, r)]_vars
  BY <1>1
<1> QED BY <1>2, AlwaysSound, PTL DEF Spec, UndoTakesBack

\* I-LED-2: the value of a record that is confirmed is changed only by a decision that names a confirmation
\* in force of it, by a revocation, or by a decision that took its seq before all of these and is committed after.
THEOREM ConfirmationHolds == Spec => ConfirmedStays
<1> DEFINE Kept(r) ==
       LET active == Active(log, Written, r)
           new == Len(log) + 1 .. Len(log')
       IN  /\ projected'[r] # projected[r] /\ r \notin behind'
           /\ active # {} /\ projected[r] = Value(log, seq, Written, r)
           => \E d \in new : \/ log'[d].kind = "revoke"
                             \/ log'[d].names \cap active # {}
                             \/ log'[d].rec = r /\ \A x \in active : seq'[d] < seq'[x]
<1>1. ASSUME Sound, Next, NEW r \in Records
      PROVE  Kept(r)
  BY <1>1, SomeBatch, ConfirmedStep
<1>2. Sound /\ [Next]_vars => [\A r \in Records : Kept(r)]_vars
  BY <1>1
<1> QED BY <1>2, AlwaysSound, PTL DEF Spec, ConfirmedStays
=============================================================================
