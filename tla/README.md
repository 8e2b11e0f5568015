# A verification model of the ARGUS Knowledge Hub

ARGUS keeps the assets, documents and work of a research facility. What makes it more than a set of
tables is the *fact ledger*: every source (a Jira export, a GLPI database, a lattice file, people)
is a stream of revisions, and the records people read are a projection of what the streams said.
Around it stand a migration off Jira with its own stages, an offline field client, and a portability
subsystem. This directory holds TLA+ models of the parts whose correctness depends on order,
concurrency and failure, the TLC runs that check them, and TLAPS proofs about them. Paths below
are relative to `src/`.

## 1. Inventory

### 1.1 How the parts fit

The backend is a FastAPI application over PostgreSQL at READ COMMITTED. Routers are plain functions
run in a thread pool, one database session and (nearly always) one commit per request, so two
requests interleave at their reads and their commit. The web application and the field client talk
to it over HTTP; the field client marks every change with an idempotency key and the time of its
capture. Importers reach the ledger only through `engine.ingest`; the portability jobs and the
periodic command (`python -m app.ledger escalate`) run in threads or processes of their own.

### 1.2 Components

| Component | State it keeps | Operations | What is hard | What makes it correct |
|---|---|---|---|---|
| Source streams (`ledger/engine.py`) | revisions with claim events, revision events, the parsed and the published head, projected records | register, ingest, approve, reject, rewind, freeze, activate a ruleset | differences taken against a head nobody published; a guard that holds revisions and a cascade that lets them follow; partial re-projection | the log replays to what the parser read; readers see one whole claim set; nothing held is overtaken |
| Concurrent ingestion (`ledger/engine.py`, `routers/ledger.py`) | the same, by several sessions | ingest, freeze | no lock or version on the head | one numbering, differences that compose |
| Decisions and bulk changes (`engine.py`, `bulk.py`) | append-only decisions, change sets | confirm, supersede, retract, revoke, apply, approve, undo | what a revoked retraction restores; undo after later edits | the decisions in force are those nobody ended |
| Projection, identity, policy (`policy.py`, `identity.py`, `registry.py`, ...) | records, aliases, conflicts | project, resolve, check | several sources about one fact | one winner by rank; conflicts opened and closed |
| Connectivity, installations (`connectivity.py`, `replacement.py`, ...) | installations, access points, derived relations | propose, confirm, replace, derive | overlapping intervals, stale proposals | one open installation of a position |
| Audit, queues, writer guard (`audit.py`, `queues.py`, `writer.py`) | digests, escalations, derive requests | seal, verify, escalate, derive | workers that share a queue | every request derived, no gap in the digests |
| Cutover and retirement (`ledger/cutover.py`, `ledger/entry.py`, `services/retirement.py`) | stage, manifest, exit, reports and exports of each domain; freezes of the streams | create, advance, abort, freeze, reconcile, sign exit, export, revert the pilot, retire | domains that share scope or streams; evidence that is older than what it is used for | no revision behind the watermark; the final report stays true |
| Legacy and type migrations (`ledger/legacy.py`, `services/type_migration.py`) | staged plans and their reports | plan, rehearse, apply, undo | partial failure | all or nothing, with a way back |
| Idempotency keys (`idempotency.py`) | one row per (workspace, principal, key) | look up, reserve, run, store, release, purge | retries at any point, dead processes, expiry | one application and one answer per command |
| Pending commands (`mobile/app/lib/app/queue.dart`, `data/command_queue.dart`, `app/providers.dart`) | the list in memory, the encrypted store, files, session | enqueue, sync, retry, discard, sign out, change workspace | one loop with an await at each request; lost requests and answers; the app ends | drafts are not lost, accepted means applied |
| Documents (`routers/documents.py`, `services/document_control.py`) | revisions and their states | submit, withdraw, approve, reject, publish, retire, supersede | check and write without a lock | what is published was approved, by another person, and once |
| Uploads (`routers/uploads.py`) | offset, state, file | create, piece, complete, attach | body awaited after the check; stored answers; refusals that stay | the file is what was hashed |
| Export and import (`portability/lifecycle.py`, `service.py`, `importer.py`) | a state machine each, staging checkpoints | analyse, approve, generate, publish; fetch, verify, dry run, import, finalize | resumption; a state is read, and committed over later | what is loaded was approved; what commits over another commit is known |
| Jobs and schedules (`portability/jobs.py`, `schedules.py`) | one running job per subject, a claim per schedule | start, recover, claim, finish | takeover of a claim that is not dead | one runner at a time |
| Access reviews, notifications, timers, transfer (`services/`) | snapshots and signatures, outboxes, schedules | sign, deliver, start | two signatures at once | nothing lost |

Not state machines of their own, and left aside: the HTTP handlers and schemas, authentication and
permissions (stateless checks), packages, catalogue, converters and importers (parsers), search,
graph and assistants (read-only), formats and signatures of archives, the web pages, deployment,
operator tools. `PROJECT.json` lists every component with its status and reason, and the hazards of
the code, each at its line, with the properties that cover it or the reason why none does.

## 2. Plan

| # | Module | Composes or refines | Status |
|---|---|---|---|
| 1 | `LedgerStream` with `PublishedView` | implements the view by a refinement mapping | modelled, checked, proved |
| 2 | `Cutover` | several domains over summarised streams | modelled, checked, proved |
| 3 | `Idempotency` | | modelled, checked, proved |
| 4 | `CommandQueue` | the client with the server of 3 seen from outside | modelled, checked, proved |
| 5 | `DocumentControl` | a slow request among quick ones on one document | modelled, checked, proved |
| 6 | `Uploads` | the upload and its client, with stored answers as in 3 | modelled, checked, proved with 5 |
| 7 | `Decisions` | the set of decisions in force, bulk apply and undo | modelled, checked, proved |
| 8 | `ScheduledExports` | schedule, export and repository | modelled, checked, proved |
| 9 | `ImportLifecycle` | workers over the active and the staging database | modelled, checked, proved |
| 10 | `Projection` | several sources and the decisions that accept or reject their claims (`_project_key`) | planned |
| 11 | `AccessReview`, `DeriveQueue`, `TypeMigration` | small modules | planned |

`IngestSessions`, two sessions that ingest into one stream, was planned and is not written: the head
is read without a lock, revision numbers carry no unique constraint, and so every property of
`LedgerStream` fails in the shortest behaviour with two sessions. A model would restate the hazard,
which is listed at `engine.py:366`.

## 3. What is modelled

Each module names the code it translates at its head, and `map` in `PROJECT.json` gives the lines of
each definition. Definitions keep the names of the source where TLA+ allows it.

### 3.1 `LedgerStream`: one stream of the ledger

State: `chain` is the sequence of head-ordered revisions with their claim events, `status` the kind
of each revision's latest event, `published` the number of the published head, `projected` what
each record shows, `frozen`, `version` (the active ruleset), `pinned` (records with dependents and no
other support, which changes outside the stream) and `aside` (rows that got number 0). An action is
one call of the engine with everything it does before the commit: `Ingest` orders the revision
(rejected when frozen, historical when older than the head), reuses the claims of identical bytes
under the same versions, writes the difference to the *parsed* head, asks the guard, and publishes
with its cascade and projection. `ActivateRuleset` includes the re-run of `reinfer`. `Approve`,
`Reject` and `Rewind` are the person's; `Freeze` and `Unfreeze` are what a cutover does to a stream.

Abstractions: every subject has a record; evidence, confidence and the two audit tables beside the
events are left out; a rewind that the routers do not offer today is kept, since the engine does.

`PublishedView` is the promise to readers, without revisions or queue: records show one claim set the
source stated, as a whole. A person's act shows the claim set it picks; otherwise it is replaced only by one
that has just arrived and that does not make too much disappear; nothing new is heard while the scope
is frozen. The view knows no calls, so its act of a person (`Choose`) alone would let any set come back
at any time. `LedgerStream!ShowsWhatWasSaid` therefore binds it: under the refinement mapping `View`
each step is one of the view without a person (`Unasked`), or `Choose` of the claim set of revision `n`
in a step that is `Approve(n)` or `Rewind(n)` (`Asks`). An approval or a rewind shows another set than the
one it names when the cascade goes on from it to a held revision; `Choose` therefore allows the set that
is picked, or another heard one that follows a heard one without too much disappearing.
`ActivateRuleset` is no such act: what it infers has just arrived.

### 3.2 `Cutover`: leaving Jira domain by domain

State: stage, exit, window, manifest, latest report, edits and export of each domain; and of each
stream the level of its source, of its published head and of a held revision, and its freeze. Actions
are `create_domain`, `advance` forward and back, `freeze`, `reconcile`, `sign_exit`,
`reversion_export`, `revert_pilot`, the retirement, the edits of people behind `assert_writable`, and
the streams' imports and approvals. Decisions that ask nothing of the stage, `POST /decisions` and the
bulk changes, are an action of their own (`DecideUnasked`). A stream is summarised by levels: what
`LedgerStream` proves about publication is used here as one step. Criteria that nothing else in the module depends on
(stewards, ageing, clean runs, attestations) are met or not as the environment likes; a call that
fails on one changes nothing.

### 3.3 `Idempotency`: the retry middleware

Each request is a process that takes one step between two commits of `run` and `_execute`: `Look`,
`Release`, `Insert`, `Reread`, `Run`, `Store`, `Forget`; `Die` ends the server process anywhere;
`TurnStale`, `TurnLate` and `Lapse` are the ages of a reservation, of a captured command and of a row;
`purge` is the periodic job. A row is known by the request that inserted it (its primary key), so a
late `Store` into a row that was released and reserved again is told apart. Assumed: an endpoint that
answers 5xx has committed nothing, and no request lasts for the seven days between the offline
retention and the expiry of a row.

### 3.4 `CommandQueue`: the field client's queue

Three layers. The device: `status` and `attempts` in memory, `disk` and `files` in the encrypted
store, `session`; `told` is what became of a command for the person. The loop of `sync()`: `sync` is
the session it read and its force, `walk` the commands left to visit, `call` the request it awaits;
one action per way through the loop body (`passOver`, `expire`, `refuseDependent`, `fileMissing`,
`send`, then `giveUp`, `accept` and `removeEntry`, or `problem`), so that everything else may come in
between: new commands, retries, discards, a change of workspace, a sign-out (`wipe`, then
`signedOut`), the end of the app (`restart`). The server: requests in flight form a set, may be lost,
overtake each other and outlive the client's interest in them; `held` is the idempotency record. The
several requests of an upload are one request with one key; what that hides belongs to `Uploads`.
A file is dropped with the answer and its entry one step later, as `CommandStore.remove` does.

### 3.5 `DocumentControl`: a controlled document

State: the revisions by number with their state, author, approver and whether they were out; the
document's `current`, `retired`, `superseded` and `class`; the `age` since the last release. The
handlers read, check and later commit the columns they assign, with no lock. Most requests are one
action (`Quick`); one at a time is `slow`: it made its checks (`Start`), others commit, then it
writes whatever its checks would say by now (`Finish`), or its process ends (`Fail`). `raced` is set
when one of the others changed a row the slow request had read and is to write: there the code
promises nothing, and the document is followed no further. So what is checked is that every overlap
on *other* rows is harmless, and every sequence. `detach` deletes a file of a revision and, as
`DELETE /attachments/{uid}`, asks for no state: a released revision keeps its text and gets no file,
but may lose one. `KeptOnceOut` promises the former, `FiguresKept` is the sentence of the code about
the latter, which TLC refutes. Years of retention are periods; titles, tags and relations are left out.

### 3.6 `Uploads`: a resumable upload

State: the row (`state`, `received`), the file as a sequence of pieces, the moved file, the pieces
under way (`puts`), where `complete` or `attach` is (`pc`), the answer stored for the completion, and
the client (`at`, `mine`, `attempts`). `PutPiece` checks the offset, `PutWrite` is the arrival of the body
at the offset of the row read before, `PutCommit` the commit: other pieces, the completion, the
attachment, `Purge` and `Crash` come in between. A piece is its index, its index plus the size once
location metadata is removed, or 0 for bytes that are wrong. `late` and `overrun` remember that a
piece was written which the check would have refused by then. The record the file is for may stop
taking it (`Bar`, of other handlers): then `AttachRefused` stores the refusal under the key of the
attachment (`denied`), and every later attempt under that key gets it again. The definitions that every
module has (`UploadInit`, `UploadNext`, `UploadSpec`, `UploadTypeOK`) carry the module's name here,
since the theorems about the uploads stand beside those about the documents whose files they become.

### 3.7 `Decisions`: what people decided

State: the `log` of decisions in the order of their commits, with what each names; the order of their
`seq`s; the lengths the log has had (`commits`); the value each record shows (`projected`); and the bulk
changes with their batches. Which decisions are in force is computed from all of them, as `_ended`
does, and the lowest `seq` among them is shown. A `seq` is taken at the flush and the decision seen by
others at the commit, so an edit may be slow: it read the log when it was shorter, took its number,
shows the record by what it sees then, and commits after decisions with higher numbers (`Sees`,
`Numbered`). `behind` are the records last shown by a request that did not see the whole log. The
actions are the edit; `POST /decisions`, a batch of items of the four kinds that may name any
decisions of the workspace (`Items`); and `apply`, `approve` and `undo` of a bulk change. One fact of each
record is modelled; what the sources say is one value.

### 3.8 `ScheduledExports`: increments to a repository

State: the exports with their base, watermark and what of them was pushed; the schedule (claim,
`last...` columns, failures); where each run is, and with which export. A run goes from commit to commit:
`Claim`, `Begin`, `Create`, `CarryOn`, `Generate`, `Generated`, `Publish`, `Push`, `Published`, `Finish`; a
person generates, publishes, approves, revokes or changes the same exports and the schedule in
between, and `Crash` ends a process anywhere. Nothing locks an export. So a step either finds the
state it goes on from when it commits, or had found it before and commits over what came in between
(`MayHaveRead`, `CommitTo`); the second counts as a fault, and marks the export (`over`). Two sessions that
generate one export disturb each other in its directory (`Doubled`), two that push disturb each other
in the clone (`Disturbed`). Each step may fail before its commit (`Fails`, and the second disjunct of
`Create`: the id of an export that was rolled back is `Gone`). A `Push` that fails may leave the directory
of the export, its tag, or nothing (`Leaves`); what is left stops every later attempt. A step that reads a
state it does not go on from ends the run as that state says (`Passes`). What is in an export is the level
of the edits it includes.

### 3.9 `ImportLifecycle`: importing an archive

State: the row of each import, its quarantine and its staging database (`stage`), the chain of what
was applied of the origin, and the workers. A worker goes from commit to commit of the active or the
staging database, so that the process may end between a step in the one and its checkpoint in the
other; what it read before a long part is in `seen`, and its next commit writes over whatever has
happened since. `discard` takes no turn among the jobs, as in the code, and neither does the approval: it
reads the row (`approve`) and commits later (`approved`), whatever a dry run or a discard committed in
between. The row then notes that its decisions were approved `"unread"`; `overtaken` are the imports
with a commit over a state other than the one it had read. A verification asks for the files when it
begins and not when it ends, so it may end after a discard removed them. The chunks of an archive are
`Steps`; those in `Loose` hold a row whose missing reference is deferred. Left out: evidence imports,
which load nothing, and steps called without a job.

## 4. The runs

| Run | What it asks | Result |
|---|---|---|
| `ledger_stream` | the log, queue, projection and freeze of one stream, and the promise to readers | holds |
| `cutover` | two domains with their own streams: sealed, reopened, the final report stays true | holds |
| `cutover_shared_stream` | does a frozen stream accept nothing (I-SOR-1) when two domains share it | violated |
| `idempotency` | three requests on one key at every interleaving | holds |
| `command_queue` | two commands, one needing the other | holds |
| `command_queue_alone` | one command, two workspaces: is it settled in the end | holds |
| `document_control` | two revisions, two people and tokens, one slow request | holds |
| `uploads` | overlapping and damaged pieces, crashes: what is attached, and does every upload end | holds |
| `decisions` | two records, two bulk changes, slow edits, batches: what is in force and what readers see | holds |
| `decisions_undone` | are the decisions of an undone change out of force | violated |
| `scheduled_exports` | two runners and a person: one runner, one chain, and does it catch up | holds |
| `import_lifecycle` | checkpoints, chain and approvals; is an interrupted import resumed | holds |

A violated run is a disagreement between the code and what a document or docstring of the repository
says of it, and is a finding in `PROJECT.json` with the quoted line. A stream may belong to two
domains, and the abort of one thaws it under the other. And `_ended` takes out of what is ended
everything that a *revoked* decision named, also where another decision that stands names it. A bulk
change is applied, an edit supersedes its decision, the edit is revoked by `POST /decisions`, and the
change is undone: the revocation of the change's decision does not end it, since the revoked edit had
named it too, and it is in force again.

The modules state more formulas of that kind, each refuted by TLC in the bounds of its module when
put alone in a copy of a configuration, which have no run of their own. They are what to look at
before relying on the sentence in brackets:

| Formula | What the code does |
|---|---|
| `LedgerStream!DiscardedNeverProjected` (I-REV-3) | `rewind` publishes a superseded or rejected revision |
| `LedgerStream!RulesetReachesPublished` (`activate_ruleset`) | with a later revision held, the re-run is historical and set aside |
| `Cutover!MirrorUntouched` (`cutover.py:11`) | `POST /decisions` and the bulk changes do not ask whether the scope is a mirror |
| `Cutover!RevertCarriesEdits` (`revert_pilot`) | any export ever made lets the reversion through, edits since are in none |
| `Cutover!RetiredForGood` (section 17.2) | a pilot within its window goes back from T5 to T1 |
| `Cutover!ExitOnFinalReport` (`sign_exit`) | the exit takes any earlier report of the same manifest |
| `Idempotency!TwiceOnlyAfterDeath` | a reservation is released by age though its request lives |
| `CommandQueue!HomeOnly` | `sync` compares workspaces with the session it started in, requests take the current one |
| `CommandQueue!AcceptedStays` | the app ends while an accepted command is being removed, finds it again without its file and reports it as not applied |
| `CommandQueue!RetryStartsAnew` | *Try again* carries the old key, and is answered with the stored refusal |
| `CommandQueue!ExpiredNotApplied` (A65) | a command sent in time whose answer was lost expires, applied or not |
| `CommandQueue!NeedsSucceeded` (section 5.2 of the design) | a needed command that was discarded counts as done |
| `CommandQueue!WipedIsGone` (A71) | what is saved while a sign-out clears the files stays on the device |
| `DocumentControl!FiguresKept` (`documents.py:775`) | the deletion of a file asks for no state of its revision |
| `DocumentControl!FiguresAsApproved` (`uploads.py:266`) | a file is attached to a revision that is in review or approved |
| `DocumentControl!SupersededStaysRetired` (`document_control.py:8`) | a superseded document gets a new revision, which is published |
| `Uploads!AttachedAsHashed` (`models/device.py:64`) | a piece whose body comes late is written over the verified file |
| `Decisions!SupersededEnds` (`asset-model-revision.md`, 7.4) | as `decisions_undone`, for any decision that stands |
| `Decisions!NamedOrRevoked` (`asset-model-revision.md`, I-LED-2) | an edit numbered before the confirmation in force is committed after it, and shown |
| `ScheduledExports!InterruptedRunsAgain`, `ImportLifecycle!InterruptedRunsAgain` (`jobs.py:6`) | no transition leaves generating, publishing, fetching, verifying, rebuilding or reconciling but the step's own |
| `ScheduledExports!EachNamesTheOneBefore` (`schedules.py:7`) | an export a person publishes by hand is not what the next run continues, and a revoked last publication sends the run back to the first |
| `ScheduledExports!OneAtATime` (`jobs.py`, "A subject runs one job at a time") | a run of the schedule is no job of its export, and two sessions that read one state both go on from it |
| `ScheduledExports!RevokedStays` (`lifecycle.py:3`) | a step that read the export before its revocation commits after it |
| `ScheduledExports!OneRunner` with `Slow = TRUE` | a run longer than `STALE_RUN` is taken over |
| `ImportLifecycle!InOrder` (`export-import-design.md:377`) | only the dry run asks where an increment sits in the chain |
| `ImportLifecycle!DeferralsKept` (`jobs.py:9`) | the deferrals of an interrupted run are lost, and no reconciliation passes without them |
| `ImportLifecycle!ApprovedAsRead` (`portability/lifecycle.py:3`) | a dry run with other decisions commits between the reading and the commit of the approval |
| `ImportLifecycle!DiscardedIsNothing`, `NothingLeft` (`discard`) | a discard takes no turn among the jobs: the import under it goes on |

### Mutants

Beside a definition some modules keep a wrong form of it, marked as a mutant: a guard dropped, a key
compared too late, a bound off by one, as a plausible change to the code would have it. With the
wrong form in place of the right one TLC refutes the property named in `mutants` of `PROJECT.json`,
which shows that each property depends on the code it speaks of. Nothing else refers to them.

### Bounds

`MaxRevisions = 3` lets a revision be held, another be held behind it and a third publish past both
or trigger the cascade; with two contents, two versions and two instants every branch of `ingest` is
taken. With `GuardShare = 50` and `GuardMin = 2` over three subjects each clause of the guard
decides alone in some state: the shorter content loses one subject under one parser version (held
only when it is pinned) and two under the other. `MaxLevel` and `MaxEdits` allow a change before and
after each freeze, report and export; of the two streams of the cutover, that of the pilot (`Changing`)
changes again after its first content. Three requests are the least that let a reservation be
released, taken by another and stored into late; the third carries another command under the same
key. For the queue, two commands are what a dependency needs; `MaxAttempts` is 1 with two commands
(the cap, at its edge) and 2 with one (a retry after a backoff), where the code has 8; `MaxRestarts
= 1` is one end of the app, sign-out or change of workspace at any point. Actions that only the
larger vocabulary of the one-command run can take (`chooseWorkspace`, `backoffOver`) are checked
there. Requests under one key that are the same command are symmetric, and only they are declared
so.

`DocumentControl` needs two revisions for a publication over another and two people for an author
and an approver. One slow request is enough: one that is not overtaken does what a quick one would
do in the moment it writes (`StillMayPass`, section 5), so a second slow one adds nothing. `Uploads`
has three pieces and three requests, so that a piece may be late behind two others, and two faults
(a damaged piece and a crash). `Decisions` has four decisions, two in a batch, each naming one: a
confirmation, its retraction, the revocation of that and one more, or two bulk changes and an undo, and
an edit committed after up to three decisions with higher numbers. Values are symmetric there,
records are not (`SetToSeq` orders them). `ScheduledExports` has three exports, the least with two
increments on one base; one fault is one crash, failed step, change of the schedule or session that
commits over what it had not read. `CatchesUp` follows a schedule until a run is about to make a fourth
export (`Full`). `ImportLifecycle` has one import, whose neighbours are the promotions of `another`; two
workers are what a discard beside a step needs, two faults an interruption of the resumption.

Deadlock is not checked where the system may stop: a stream with no room for a revision under the
bound, domains that are all retired, requests that have all been answered, commands that are all
settled.

### Fairness

`Settles` (`command_queue_alone`): while the person stays in the command's workspace, an open command
ends as accepted or needs the person. Its fairness: the loop runs on (`Loop`), a sync starts within
a minute while something is open (the timer of `sync_driver.dart`), a started sign-out completes,
time passes (`turnLate`), and a request ends with an answer or with its connection (`giveUp`). The
last is an assumption about the platform: the client sets no timeout of its own. Nothing is assumed
of the network or the server, so what ends the wait in the worst case is the offline retention.

`Arrives` (`uploads`): every upload is attached or expires, or stands in one of four ends only a
person gets it out of, each with the only cause it may have. Weak fairness of the client's loop and
of the steps of a request that has begun; none of `StartOver`, `Crash` or `Purge`.

`CatchesUp` (`scheduled_exports`): what was recorded is published in the end, unless the schedule is
off, removed or has nothing to continue; or its export waits for a person, was left in the middle of a
step by a process that ended, or left something in the clone; or two sessions work on one export
again and again (`[]<>~OneAtATime`). Weak fairness of the CronJob's claim, of the steps of a run and of
time (`TurnStale`); none of people.

`Resumes` (`import_lifecycle`): an approved import is reconciled, discarded, or lost for one of the
reasons in `Lost`. Weak fairness of the steps of a worker, strong fairness of `execute`: the person
who approved it takes it up again, whenever it can be, as the page asks them to. Strong, because a
failed attempt disables and enables it.

## 5. What is proved

The proofs hold for every value of the constants that satisfies the `ASSUME`s of the module.

* `LedgerStream_proofs`: `TypeCorrect`, `LogReplays`, `QueueAhead`, `ProjectionSound` from the
  invariant `TypeOK /\ ReplaySound /\ HeldAhead /\ ProjectionFollowsHead`, which is inductive as a whole
  and in none of its parts: the projection is right after a partial update only because it was right
  before; an approval publishes forwards only because what is held is ahead. `FreezeHolds` and
  `QueueSettles` are action properties; the second needs the cascade to be followed to its end, which
  goes by the greatest element of a finite set (`GreatestExists`, by well-foundedness). The refinement is
  `StreamImplementsView`: every step of the engine is one step of `PublishedView` or none, and the
  initial states agree; and the view's act of a person happens in an approval or a rewind only, of the
  revision that is asked for. `StreamRefinesView` is the plain `Spec => View!Spec` that follows.
* `Cutover_proofs`: `TypeCorrect`; `Sealed`, that domains with disjoint streams are sealed from the
  freeze on; `FinalStands`, that what a reconciliation since the freeze compared is what ARGUS holds
  from then on. Disjointness is a hypothesis of both because the code does not enforce it:
  `cutover_shared_stream` is what happens otherwise. The strengthening is that an exit is only ever held
  by a domain past its freeze, and a final report too; `FinalStands` rests on `Sealed`.
  `ClosedForACutover`, that no stream stays closed for nobody, holds without it: a thaw of a shared
  stream opens too much and never too little.
* `Idempotency_proofs`: `TypeCorrect`; `OwnAnswers`, `SameAnswer`, `AppliedOnce`. Neither of the last
  two is inductive. What carries them is that a run that was not released still *stands*: its row is
  there, or it went after its key was *shut*, that is, after captured commands under it are refused as
  expired and none is between its check and its insert.
* `CommandQueue_proofs`: `TypeCorrect`, `DraftsAreKept`, `AcceptedIsTrue`, `NeedsComeFirst`, for any
  commands, needs and numbers of attempts and restarts. A command is in four places that change at
  different moments: the list in memory, the store, the request in flight and the record of the
  server. The strengthening says how they go together: what is told of a command decides what memory
  and store may hold of it (`Kept`); one request at most can still answer the loop (`WaitsForOne`,
  `OneCall`); an answer on its way, or stored under a key, speaks of what was applied (`Answers`); and
  a command is made after those it needs (`NeedsMade`), without which none of the rest says anything
  of an order. Nothing is assumed beyond the `ASSUME` of the module.
* `DocumentControl_proofs`: `TypeCorrect`, `OneAtMost`, `ApprovedByAnother`, `ReleasedIsKept`. The
  strengthening says what being out and being approved mean for a revision's state (`RevisionOK`),
  that a released document has the longest class it was promised (`PromiseOK`), and that the checks of
  the slow request would still pass (`StillMay`). The last is what an overlap on other rows comes to:
  `Overtaken` is proved to name every write that could make a check fail (`StillMayPass`).
* `DocumentControl_proofs`, the uploads: `UploadTypes`, `AttachedIsWhole` and `EndsHaveCauses`, for a
  file of any length and any number of requests. The second is not inductive: between the comparison of
  the hash and the attachment there are four commits or writes, and pieces that were accepted before may
  still arrive. `UploadInv` has three layers. Always, a piece lies in the file, one piece at a time is
  written and not committed (`OneWrites`), and each step of `complete` and `attach` knows what the row
  can be (`Completes`). Until a piece overruns the verification, what was verified is what is kept
  (`Keeps`), and the end of the file and the offset go together, also for a piece that was written
  before the verification and is committed during it (`Ends`). Without faults and late pieces the file
  is the beginning of what is sent, up to the offset (`InOrder`). `EndsHaveCauses` is the safety half of
  `Arrives`: the four ends a person has to repair have the one cause each that the property allows; an
  attachment is refused for good only if the record had stopped taking it. Assumed: `Nil`, which stands
  for no file, is not the name of anything else.
* `Decisions_proofs`: `TypeCorrect`; `ReadersSeeTheLog`; `UndoIsOfItsBatch` and `ConfirmationHolds`,
  which are action properties; and `NothingElseEnds`. The question behind the second is whether it is
  enough to show the subjects of a batch and of what it names, one level deep. It is where a decision
  names those of its own record, since what its revocation gives back then belongs to a record that is
  shown anew. A retraction has no record, and a supersede of `POST /decisions` may name another's: those
  are the exception of `ProjectedIsLog` (`Misnamed`). Everything is stated for two logs of which one
  goes on with a batch (`Extends`), and for two orders of the seqs that agree on the decisions of the
  shorter (`Order`, `Agree`), since a later commit may take a number among them. This is also the
  exception of `ConfirmationHolds`: what is shown is the lowest number in force (`OldestStays`), and an
  edit that took its number before all of them and commits last is shown. Assumed: there are finitely
  many records.
* `ScheduledExports_proofs`: `TypeCorrect`; `RunsAlone`, one run of a schedule at a time, and
  `ChainUnforked`, one chain of increments, both if no run outlives its claim (`~Slow`, a hypothesis:
  `STALE_RUN` is an age and not a sign of death). For the first, a claim which can be taken is
  nobody's (`Claimed`). The second needs what every step between two commits leaves behind: a run's
  place fits the state of its export (`PlaceOK`), what the schedule has noted is in the repository
  (`ExportsOK`), and two sessions work on one export only if a commit went over it unread (`Alone`).
  From these follows `Linked`: each noted publication continues another one and is its only
  continuation, nothing continues the last one yet, and what a run has in hand, or what was left open
  for a person, will. `Linked` holds until a publication of the chain is revoked or written over
  (`Broken`), which is the exception of `Chain`. The theorems on the exports themselves hold with slow
  runs also. `OneWorker` is `Alone`: nothing in the code excludes two sessions from one export, and the
  theorem says what it takes, a commit over a state that was not read. `ExportsMoveByTable` says of
  every export that it keeps its base, and its tag once it has one, and is published only after a push;
  and of one that no commit went over, that every step of every process moves it as `lifecycle.EXPORT`
  says and only a generation changes its content (`Keeps`). What needs an argument there is that the
  last commit of a long part finds the export as the part began it, or marks it.
* `ImportLifecycle_proofs`: `TypeCorrect`, `CheckpointsHold`, `ChainTold`. An import is a row, a
  staging database and a chain that are committed one after the other, and a worker that goes on with
  what it read. The strengthening says what the row and the staging database owe each other
  (`RowOK`: nothing is staged before the execution, what is done is staged, what is staged and gone
  took the archive with it, from the approval on the decisions are those the approver read, or are
  noted as unread); that what a job has read and needs still holds when it commits (`JobOK`), because
  only discards and approvals run beside it (`OneJob`); and that an import that made a link of the chain is over, unless it was overtaken (`LinkOK`).
  `MovesByTable` says that an import moves as `lifecycle.IMPORT` says, and names the exceptions. For it
  the invariant relates what each job has read to what the row may be by now (`SeenOK`), and keeps
  approvals from running beside a fetch or a verification (`Apart`). A worker checks its transition against the state it
  read, so its last commit may overtake what others did since, in these ways only (`Overtakes`): a
  fetch or a verification a discard; a dry run, a reconciliation or a promotion a discard or an approval;
  a discard a promotion; and an approval whatever an import can be from its first dry run on (`Since`).
  Besides, an export that was applied already goes through rebuilding and reconciling in one commit.
  Assumed of the constants: an archive has finitely many steps, there is an import, no import is
  `"none"`, the name under which the chain holds what was promoted elsewhere, and no decision is
  `"none"` or `"unread"`.

TLC checked each of these invariants as an invariant of the module's run, or on smaller constants,
before it was proved.

### What is only model-checked

* `Settles`, `Arrives`, `CatchesUp` and `Resumes`: liveness under fairness is out of the prover's
  reach.
* What a recursive definition computes for every input would be an induction over data, which the
  prover's library states with operators as parameters. No module uses a recursive operator, and no
  theorem needs such an induction but for one: the greatest element of a finite set, which goes by
  well-foundedness.

## 6. What is not modelled

See the components with status `not_modelled`, each with its reason or its place in the plan. These
limits of the present models matter to a reader. `LedgerStream` takes an ingest as one step; that two
sessions may ingest into one stream at once is a listed hazard without a property (section 2).
`Cutover` takes the reconciliation's comparison as exact and its accepted exceptions as a free
choice. `CommandQueue` has one device and one person; two devices of one person never share a key, so
`Idempotency` covers what they could do to each other. `DocumentControl` promises nothing once a
request is overtaken on its own rows, because the code does not. `Decisions` leaves out the decisions
that accept or reject a claim of a source and the merge of several sources, which belong to
`Projection`. `ImportLifecycle` leaves out evidence imports and the synchronous form of the steps.
The share of the implementation that is modelled is small: most of the repository is screens,
handlers, parsers and validation, and a model is kept to what order, concurrency and failure decide.
