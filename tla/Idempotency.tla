---------------------------- MODULE Idempotency ----------------------------
(***************************************************************************)
(* The middleware that makes a retried request safe:                       *)
(* src/backend/app/idempotency.py.  Every mutating request that carries an *)
(* Idempotency-Key goes through run(): the key is reserved in a row of     *)
(* idempotency_records, the endpoint runs, and its answer is stored in the *)
(* row for the retries.                                                    *)
(*                                                                         *)
(* Each request is a process: run() commits between reading the row,       *)
(* releasing a dead reservation, reserving the key, running the endpoint   *)
(* and storing its answer, so requests with one key interleave there.  A   *)
(* Key stands for (workspace, principal, key), the unique index of the     *)
(* table; a row is known by the request that inserted it.  An endpoint     *)
(* commits once, and one that answers 5xx has committed nothing.           *)
(***************************************************************************)
EXTENDS Integers

CONSTANTS Requests, Keys,
          KeyOf,       \* [Requests -> Keys]
          DigestOf,    \* what request_hash makes of method, path, query and body
          Captured,    \* keys whose requests carry X-ARGUS-Captured-At
          None

ASSUME KeyAssumption == KeyOf \in [Requests -> Keys] /\ Captured \subseteq Keys
Row == [owner : Requests, done : BOOLEAN, stale : BOOLEAN, lapsed : BOOLEAN]

\* A request, None and an answer are told apart.
ASSUME NoneAssumption ==
  /\ None \notin Requests
  /\ None \notin Row
  /\ None \notin {"busy", "mismatch", "expired", "error", "ok", "refused"}
  /\ Requests \cap {"busy", "mismatch", "expired", "error"} = {}

VARIABLES row,       \* the record of each key, None when there is none
          late,      \* keys captured longer ago than the offline retention
          pc,        \* where each request is
          seen,      \* the row a request found releasable, by its owner
          outcome,   \* what the endpoint answered a request that ran
          answer,    \* what the client was answered: an error, or the owner of the answer
          applied,   \* requests whose endpoint committed its effect
          released   \* requests whose reservation was taken for dead and deleted

vars == <<row, late, pc, seen, outcome, answer, applied, released>>

Steps == {"idle", "release", "insert", "again", "run", "store", "forget", "over"}

Refusals == {"busy", "mismatch", "expired", "error"}

TypeOK ==
  /\ row \in [Keys -> Row \cup {None}]
  /\ late \subseteq Keys
  /\ pc \in [Requests -> Steps]
  /\ seen \in [Requests -> Requests \cup {None}]
  /\ outcome \in [Requests -> {None, "ok", "refused"}]
  /\ answer \in [Requests -> Requests \cup Refusals \cup {None}]
  /\ applied \subseteq Requests /\ released \subseteq Requests

Init ==
  /\ row = [k \in Keys |-> None]
  /\ late = {}
  /\ pc = [r \in Requests |-> "idle"]
  /\ seen = [r \in Requests |-> None]
  /\ outcome = [r \in Requests |-> None]
  /\ answer = [r \in Requests |-> None]
  /\ applied = {} /\ released = {}

----------------------------------------------------------------------------

Reservation(r) == [owner |-> r, done |-> FALSE, stale |-> FALSE, lapsed |-> FALSE]

Owns(r) == row[KeyOf[r]] # None /\ row[KeyOf[r]].owner = r

GoTo(r, step) == pc' = [pc EXCEPT ![r] = step] /\ UNCHANGED answer

Answer(r, a) == pc' = [pc EXCEPT ![r] = "over"] /\ answer' = [answer EXCEPT ![r] = a]

\* Mutant of Reserve: an old command is checked only when nothing was ever stored under its
\* key.
ReserveUnchecked(r) == GoTo(r, "insert")

\* expired(): an old command is not applied anew, whatever became of it before.
Reserve(r) == IF KeyOf[r] \in late THEN Answer(r, "expired") ELSE GoTo(r, "insert")

\* Mutant of Compare: the hash is compared only once the answer is stored.
CompareWhenDone(r) ==
  LET held == row[KeyOf[r]] IN IF held.done THEN Answer(r, held.owner) ELSE Answer(r, "busy")

\* What a request is answered when the row of its key stands.
Compare(r) ==
  LET held == row[KeyOf[r]]
  IN  IF DigestOf[held.owner] # DigestOf[r] THEN Answer(r, "mismatch")
      ELSE IF held.done THEN Answer(r, held.owner) ELSE Answer(r, "busy")

Releasable(held) == held.lapsed \/ (held.stale /\ ~held.done)

\* The first read of the row.
Look(r) ==
  /\ pc[r] = "idle"
  /\ LET held == row[KeyOf[r]]
     IN  IF held = None THEN Reserve(r) /\ UNCHANGED seen
         ELSE IF Releasable(held)
              THEN GoTo(r, "release") /\ seen' = [seen EXCEPT ![r] = held.owner]
              ELSE Compare(r) /\ UNCHANGED seen
  /\ UNCHANGED <<row, late, outcome, applied, released>>

\* The delete is by primary key: it takes the row that was seen, whatever has happened to it
\* since, and nothing if that one is gone.
Release(r) ==
  /\ pc[r] = "release"
  /\ LET k == KeyOf[r]
         there == row[k] # None /\ row[k].owner = seen[r]
     IN  /\ row' = IF there THEN [row EXCEPT ![k] = None] ELSE row
         /\ released' = IF there /\ ~row[k].lapsed THEN released \cup {seen[r]} ELSE released
  /\ Reserve(r)
  /\ UNCHANGED <<late, seen, outcome, applied>>

\* Mutant of Insert: the row found releasable is filled again instead of a new one.
InsertSeen(r) ==
  /\ pc[r] = "insert"
  /\ LET k == KeyOf[r]
     IN  IF row[k] = None
         THEN /\ row' = [row EXCEPT ![k] = Reservation(seen[r])]
              /\ GoTo(r, "run")
         ELSE GoTo(r, "again") /\ UNCHANGED row
  /\ UNCHANGED <<late, seen, outcome, applied, released>>

\* Mutant of Insert: the existing row is read without a unique index behind it: the second
\* insert succeeds too.
InsertWithoutIndex(r) ==
  /\ pc[r] = "insert"
  /\ row' = [row EXCEPT ![KeyOf[r]] = Reservation(r)]
  /\ GoTo(r, "run")
  /\ UNCHANGED <<late, seen, outcome, applied, released>>

\* The insert commits, or the unique index refuses it.
Insert(r) ==
  /\ pc[r] = "insert"
  /\ LET k == KeyOf[r]
     IN  IF row[k] = None
         THEN /\ row' = [row EXCEPT ![k] = Reservation(r)]
              /\ GoTo(r, "run")
         ELSE GoTo(r, "again") /\ UNCHANGED row
  /\ UNCHANGED <<late, seen, outcome, applied, released>>

\* After the refusal the row is read again; it may have gone meanwhile.
Reread(r) ==
  /\ pc[r] = "again"
  /\ IF row[KeyOf[r]] = None THEN Answer(r, "busy") ELSE Compare(r)
  /\ UNCHANGED <<row, late, seen, outcome, applied, released>>

----------------------------------------------------------------------------
\* _execute

\* The endpoint: it applies the command, refuses it with an answer worth storing, or fails
\* (5xx, an exception, or one of NOT_STORED).
Run(r) ==
  /\ pc[r] = "run"
  /\ \/ applied' = applied \cup {r} /\ outcome' = [outcome EXCEPT ![r] = "ok"] /\ GoTo(r, "store")
     \/ outcome' = [outcome EXCEPT ![r] = "refused"] /\ GoTo(r, "store") /\ UNCHANGED applied
     \/ GoTo(r, "forget") /\ UNCHANGED <<applied, outcome>>
  /\ UNCHANGED <<row, late, seen, released>>

\* Storing the answer in a row that is gone updates nothing, which the session reports as an
\* error: the client is answered 500 though the command was applied.
Store(r) ==
  /\ pc[r] = "store"
  /\ IF Owns(r)
     THEN row' = [row EXCEPT ![KeyOf[r]].done = TRUE] /\ Answer(r, r)
     ELSE UNCHANGED row /\ Answer(r, "error")
  /\ UNCHANGED <<late, seen, outcome, applied, released>>

Forget(r) ==
  /\ pc[r] = "forget"
  /\ row' = IF Owns(r) THEN [row EXCEPT ![KeyOf[r]] = None] ELSE row
  /\ Answer(r, "error")
  /\ UNCHANGED <<late, seen, outcome, applied, released>>

\* The server process ends between two of the commits.
Die(r) ==
  /\ pc[r] \notin {"idle", "over"}
  /\ pc' = [pc EXCEPT ![r] = "over"]
  /\ UNCHANGED <<row, late, seen, outcome, answer, applied, released>>

----------------------------------------------------------------------------
\* Time, and the periodic job

\* A reservation reaches STALE_AFTER, whether or not its request still runs.
TurnStale(k) ==
  /\ row[k] # None /\ ~row[k].done /\ ~row[k].stale
  /\ row' = [row EXCEPT ![k].stale = TRUE]
  /\ UNCHANGED <<late, pc, seen, outcome, answer, applied, released>>

TurnLate(k) ==
  /\ k \in Captured \ late
  /\ late' = late \cup {k}
  /\ UNCHANGED <<row, pc, seen, outcome, answer, applied, released>>

\* expires_at is seven days past the retention: a captured command is late by then, and no request
\* lasts as long as that.
Lapse(k) ==
  /\ row[k] # None /\ ~row[k].lapsed
  /\ k \in Captured => k \in late
  /\ \A r \in Requests : KeyOf[r] = k => pc[r] \in {"idle", "over"}
  /\ row' = [row EXCEPT ![k].lapsed = TRUE]
  /\ UNCHANGED <<late, pc, seen, outcome, answer, applied, released>>

purge ==
  /\ \E k \in Keys : row[k] # None /\ row[k].lapsed
  /\ row' = [k \in Keys |-> IF row[k] # None /\ row[k].lapsed THEN None ELSE row[k]]
  /\ UNCHANGED <<late, pc, seen, outcome, answer, applied, released>>

Next ==
  \/ \E r \in Requests : \/ Look(r) \/ Release(r) \/ Insert(r) \/ Reread(r)
                         \/ Run(r) \/ Store(r) \/ Forget(r) \/ Die(r)
  \/ \E k \in Keys : TurnStale(k) \/ TurnLate(k) \/ Lapse(k)
  \/ purge

Spec == Init /\ [][Next]_vars

----------------------------------------------------------------------------
\* Properties

\* Of the requests that applied one captured command, all but one had their reservation released
\* while they held it: retries, races on the insert, late stores, expiry and the purge never write
\* twice by themselves (the promise of the module's head and of I-MOB-2).
OncePerReservation ==
  \A r, q \in applied : KeyOf[r] = KeyOf[q] /\ KeyOf[r] \in Captured /\ r # q
                        => r \in released \/ q \in released

\* A client is only ever given the answer of a run of its own command, under its own key, and it is
\* told of success only when that run applied it.
AnswersOwnCommand ==
  \A r \in Requests : answer[r] \in Requests =>
    LET o == answer[r]
    IN  /\ KeyOf[o] = KeyOf[r] /\ DigestOf[o] = DigestOf[r]
        /\ outcome[o] = "ok" <=> o \in applied
        /\ outcome[o] # None

\* Two clients given an answer under one captured key were given the same one, unless the
\* reservation behind one of the answers was released.
OneAnswer ==
  \A r, q \in Requests :
    answer[r] \in Requests /\ answer[q] \in Requests /\ KeyOf[r] = KeyOf[q] /\ KeyOf[r] \in Captured
    => answer[r] = answer[q] \/ answer[r] \in released \/ answer[q] \in released

\* docs/asset-model-revision.md:2941 promises that a retry with the same key never writes twice,
\* and the module's head excepts a process that dies.  It does not hold: a request that merely
\* takes longer than STALE_AFTER loses its reservation as well.
Died(r) == pc[r] = "over" /\ answer[r] = None

TwiceOnlyAfterDeath ==
  \A r, q \in applied : KeyOf[r] = KeyOf[q] /\ KeyOf[r] \in Captured /\ r # q => Died(r) \/ Died(q)

=============================================================================
