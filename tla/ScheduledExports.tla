-------------------------- MODULE ScheduledExports --------------------------
(***************************************************************************)
(* Periodic Git exports: src/backend/app/portability/schedules.py, with    *)
(* the export life cycle of service.py and lifecycle.py, the push of       *)
(* gitrepo.py, and the people who work on the same exports.                *)
(*                                                                         *)
(* One schedule of increments.  Export 1 is the published one it was set   *)
(* on.  A run claims the schedule, takes the export it left open or makes  *)
(* one, approves, generates, publishes, and writes down how it ended.      *)
(* Hand is a person who generates and publishes exports on the             *)
(* Portability page.                                                       *)
(*                                                                         *)
(* No step locks an export: a step reads its state and refuses, or         *)
(* commits later, over whatever was committed in between.  An export that  *)
(* was written over so is marked.                                          *)
(***************************************************************************)
EXTENDS Integers, Sequences

CONSTANTS Runners,       \* numbers of runs: a run takes the lowest that is free
          Hand,
          MaxFailures,   \* MAX_FAILURES
          MaxExports, MaxLevel, MaxFaults,   \* bounds: exports, edits, and what goes wrong
          skip_unchanged,
          Slow           \* a run may outlive its claim (STALE_RUN)

ASSUME ScheduleAssumption ==
  /\ MaxFailures \in Nat \ {0} /\ MaxExports \in Nat \ {0} /\ MaxLevel \in Nat /\ MaxFaults \in Nat
  /\ {skip_unchanged, Slow} \subseteq BOOLEAN /\ Runners \subseteq Nat /\ Hand \notin Runners

Who == Runners \cup {Hand}

VARIABLES exports,
          level,         \* what was recorded: current_vector
          enabled, claim,
          lastOpen, lastPublished,   \* last_export_id and last_published_export_id, 0 for none
          failures,
          run,           \* [Who -> where it is, with which export]
          faults,
          crashed        \* the process of a run ended

schedule == <<enabled, claim, lastOpen, lastPublished, failures>>
vars == <<exports, level, schedule, run, faults, crashed>>

\* The states a commit leaves an export in.
States == {"awaiting_approval", "approved", "generating", "ready_to_publish", "publishing", "published",
           "failed", "revoked", "expired"}

\* Mutant of Open: a run waits for an export that failed.
OpenFailed == {"awaiting_approval", "approved", "generating", "ready_to_publish", "publishing", "failed"}

\* OPEN_STATES.
Open == {"awaiting_approval", "approved", "generating", "ready_to_publish", "publishing"}

Export == [state : States,
           base : 0..MaxExports,     \* base_export_id, 0 for the source
           level : -1..MaxLevel,     \* the watermark, -1 before its generation
           ready : BOOLEAN,          \* its analysis needs nobody
           approved : BOOLEAN,       \* approved_by
           git : BOOLEAN,            \* its publication is recorded: git["tag"]
           left : BOOLEAN,           \* its directory or its tag is in the working clone
           noted : BOOLEAN,          \* its publication is written to the schedule
           over : BOOLEAN]           \* a commit went over a state it had not read

\* The id of an export whose transaction was rolled back.
Gone == MaxExports + 1

Idle == [at |-> "idle", exp |-> 0, outcome |-> "none"]

\* At create the export is the base of the one to be made.
Run == [at : {"idle", "begin", "create", "carry", "settled", "generate", "generating", "publish", "pushing",
              "pushed", "finish"},
        exp : 0..Gone, outcome : {"none", "published", "unchanged", "waiting", "failed"}]

TypeOK ==
  /\ exports \in Seq(Export) /\ Len(exports) \in 1..MaxExports
  /\ level \in 0..MaxLevel /\ failures \in 0..MaxFailures /\ faults \in 0..MaxFaults
  /\ {enabled, crashed} \subseteq BOOLEAN
  /\ claim \in {"free", "fresh", "stale", "removed"}
  /\ lastOpen \in 0..Len(exports) /\ lastPublished \in 1..Len(exports)
  /\ run \in [Who -> Run]

Init ==
  /\ exports = <<[state |-> "published", base |-> 0, level |-> 0, ready |-> TRUE,
                  approved |-> TRUE, git |-> TRUE, left |-> TRUE, noted |-> TRUE, over |-> FALSE]>>
  /\ level = 0 /\ faults = 0 /\ failures = 0 /\ crashed = FALSE
  /\ enabled = TRUE /\ claim = "free"
  /\ lastOpen = 0 /\ lastPublished = 1
  /\ run = [r \in Who |-> Idle]

----------------------------------------------------------------------------
(* Helpers *)

State(e) == exports[e].state

Fault == faults < MaxFaults /\ faults' = faults + 1

Commit(e, x) == exports' = [exports EXCEPT ![e] = x]

\* Requests with the states they go on from and the one they write: set_export_decisions, approve_export,
\* generate_export, publish_export, revoke_export and cleanup.
From == [decide |-> {"awaiting_approval", "failed"}, approve |-> {"awaiting_approval"}, generate |-> {"approved"},
         publish |-> {"ready_to_publish"}, expire |-> {"ready_to_publish", "published"},
         revoke |-> {"awaiting_approval", "approved", "ready_to_publish", "published", "failed"}]

To == [decide |-> "awaiting_approval", approve |-> "approved", generate |-> "generating",
       publish |-> "publishing", expire |-> "expired", revoke |-> "revoked"]

\* A session read that it may go on: now, or once, and then it was overtaken, as one of what goes wrong.
\* Export 1 is older than every request but these two.
MayHaveRead(e, q) ==
  \/ State(e) \in From[q] /\ (q = "approve" => exports[e].ready) /\ UNCHANGED faults
  \/ /\ CASE q = "decide" -> e # 1
          [] q = "approve" -> e # 1 /\ (exports[e].ready \/ exports[e].approved)
          [] q = "generate" -> e # 1 /\ exports[e].approved
          [] q = "publish" -> e # 1 /\ exports[e].level # -1
          [] q = "expire" -> exports[e].level # -1
          [] q = "revoke" -> TRUE
     /\ Fault

\* Its commit; an analysis ends with or without questions.
Written(e, q, ok) ==
  [exports[e] EXCEPT !.state = To[q], !.over = @ \/ State(e) \notin From[q],
                     !.ready = IF q = "decide" THEN ok ELSE @, !.approved = @ \/ q = "approve"]

CommitTo(e, q) == MayHaveRead(e, q) /\ \E ok \in IF q = "decide" THEN BOOLEAN ELSE {TRUE} : Commit(e, Written(e, q, ok))

Goes(r, at, e) == run' = [run EXCEPT ![r] = [at |-> at, exp |-> e, outcome |-> "none"]]

\* A step that ends the run: the schedule's goes on to _finish, a person's is over.
Ends(r, outcome, e) ==
  run' = [run EXCEPT ![r] = IF r = Hand THEN Idle ELSE [at |-> "finish", exp |-> e, outcome |-> outcome]]

\* The publication of one that expired stays.
was_published(e) == State(e) \in {"published", "expired"} /\ exports[e].git

\* Mutant of BaseOf: an expired publication cannot be continued.
BaseOfKept == IF State(lastPublished) = "published" THEN lastPublished ELSE IF was_published(1) THEN 1 ELSE 0

\* The last publication, else the export the schedule was set on.
BaseOf == IF was_published(lastPublished) THEN lastPublished ELSE IF was_published(1) THEN 1 ELSE 0

----------------------------------------------------------------------------
(* The steps of a run *)

\* Mutant of MayClaim: a claim does not keep a run that is forced out.
MayClaimForced(force) == claim # "removed" /\ (force \/ (claim # "fresh" /\ enabled))

\* next_run_at may have come at any time.
MayClaim(force) == claim \in {"free", "stale"} /\ (force \/ enabled)

\* run_due, or run_now by a person.
Claim(r, force) ==
  /\ run[r].at = "idle" /\ (\A x \in Runners : x < r => run[x].at # "idle") /\ MayClaim(force)
  /\ claim' = "fresh"
  /\ Goes(r, "begin", 0)
  /\ UNCHANGED <<exports, level, enabled, lastOpen, lastPublished, failures, faults, crashed>>

\* publish_export reads a state that it does not go on from.
Passes(r, e) == Ends(r, IF State(e) = "published" THEN "published" ELSE "failed", e)

\* run: the export that was left open, or a new one.
Begin(r) ==
  /\ run[r].at = "begin"
  /\ IF lastOpen # 0 /\ State(lastOpen) \in Open
     THEN CASE State(lastOpen) = "approved" -> Goes(r, "generate", lastOpen)
            [] State(lastOpen) = "ready_to_publish" -> Goes(r, "publish", lastOpen)
            [] State(lastOpen) = "awaiting_approval" -> Goes(r, "carry", lastOpen)
            [] OTHER -> Ends(r, "waiting", lastOpen)
     ELSE CASE BaseOf = 0 -> Ends(r, "failed", 0)
            [] BaseOf # 0 /\ skip_unchanged /\ exports[BaseOf].level = level -> Ends(r, "unchanged", 0)
            [] OTHER -> Goes(r, "create", BaseOf)
  /\ UNCHANGED <<exports, level, schedule, faults, crashed>>

\* create_export and analyse_export; when they fail, the id of what was rolled back may be what is kept.
Create(r) ==
  /\ run[r].at = "create"
  /\ \/ /\ Len(exports) < MaxExports
        /\ \E ready \in BOOLEAN :
             exports' = Append(exports, [state |-> "awaiting_approval", base |-> run[r].exp, level |-> -1,
                                         ready |-> ready, approved |-> FALSE, git |-> FALSE, left |-> FALSE,
                                         noted |-> FALSE, over |-> FALSE])
        /\ Goes(r, "carry", Len(exports) + 1) /\ UNCHANGED faults
     \/ \E e \in {0, Gone} : Ends(r, "failed", e) /\ Fault /\ UNCHANGED exports
  /\ UNCHANGED <<level, schedule, crashed>>

\* _carry_on: what the analysis left open may get an outcome and is analysed again, once; then the standing approval.
CarryOn(r) ==
  LET e == run[r].exp IN
  /\ run[r].at \in {"carry", "settled"}
  /\ \/ CommitTo(e, "approve") /\ Goes(r, "generate", e)
     \/ State(e) = "approved" /\ exports[e].ready /\ Goes(r, "generate", e) /\ UNCHANGED <<exports, faults>>
     \/ run[r].at = "carry" /\ ~exports[e].ready /\ CommitTo(e, "decide") /\ Goes(r, "settled", e)
     \/ ~exports[e].ready /\ Ends(r, "waiting", e) /\ UNCHANGED <<exports, faults>>
     \/ /\ State(e) \notin IF exports[e].ready THEN {"awaiting_approval", "approved"} ELSE From.decide
        /\ exports[e].ready \/ run[r].at = "carry"
        /\ Ends(r, "failed", e) /\ UNCHANGED <<exports, faults>>
  /\ UNCHANGED <<level, schedule, crashed>>

\* The commit generate_export begins with; or it reads what was committed since.
Generate(r) ==
  LET e == run[r].exp IN
  /\ run[r].at = "generate"
  /\ \/ CommitTo(e, "generate") /\ Goes(r, "generating", e)
     \/ State(e) = "ready_to_publish" /\ Goes(r, "publish", e) /\ UNCHANGED <<exports, faults>>
     \/ State(e) \notin {"approved", "ready_to_publish"} /\ Passes(r, e) /\ UNCHANGED <<exports, faults>>
  /\ UNCHANGED <<level, schedule, crashed>>

\* Another session generates the export too, in the same directory.
Doubled(r, e) == \E x \in Who \ {r} : run[x].at = "generating" /\ run[x].exp = e

\* The checkpoint was written and verified; or it was not, or the session read a state that another had
\* written since, and _fail writes so as far as it may.
Generated(r) ==
  LET e == run[r].exp IN
  /\ run[r].at = "generating"
  /\ \/ /\ Commit(e, [exports[e] EXCEPT !.state = "ready_to_publish", !.level = level,
                                       !.over = @ \/ State(e) # "generating"])
        /\ IF r = Hand THEN run' = [run EXCEPT ![r] = Idle] ELSE Goes(r, "publish", e)
        /\ UNCHANGED faults
     \/ /\ Fault \/ ((State(e) # "generating" \/ Doubled(r, e)) /\ UNCHANGED faults)
        /\ Commit(e, [exports[e] EXCEPT !.state = IF @ \in {"generating", "publishing"} THEN "failed" ELSE @])
        /\ Ends(r, "failed", e)
  /\ UNCHANGED <<level, schedule, crashed>>

\* The commit publish_export begins with.
Publish(r) ==
  LET e == run[r].exp IN
  /\ run[r].at = "publish"
  /\ \/ CommitTo(e, "publish") /\ Goes(r, "pushing", e)
     \/ State(e) # "ready_to_publish" /\ Passes(r, e) /\ UNCHANGED <<exports, faults>>
  /\ UNCHANGED <<level, schedule, crashed>>

\* What a push that fails leaves: its directory before the commit, its tag after it; nothing when it fails
\* earlier, finds a secret or has committed and not tagged yet.
Leaves(e) == {exports[e].left, TRUE}

\* Another session pushes in the same working clone.
Disturbed(r) == \E x \in Who \ {r} : run[x].at = "pushing"

\* gitrepo.publish: commit, tag and push, or it fails; what an earlier attempt left in the clone stops it.
Push(r) ==
  LET e == run[r].exp IN
  /\ run[r].at = "pushing"
  /\ \/ /\ ~exports[e].left
        /\ Commit(e, [exports[e] EXCEPT !.left = TRUE]) /\ Goes(r, "pushed", e)
        /\ UNCHANGED faults
     \/ /\ Fault \/ ((exports[e].left \/ Disturbed(r)) /\ UNCHANGED faults)
        /\ \E left \in Leaves(e) :
             Commit(e, [exports[e] EXCEPT !.left = left, !.state = IF @ = "publishing" THEN "ready_to_publish" ELSE @])
        /\ Ends(r, "failed", e)
  /\ UNCHANGED <<level, schedule, crashed>>

\* publish_export writes what was pushed, unless it read that the export is no longer being published.
Published(r) ==
  LET e == run[r].exp IN
  /\ run[r].at = "pushed"
  /\ \/ /\ Commit(e, [exports[e] EXCEPT !.state = "published", !.git = TRUE, !.over = @ \/ State(e) # "publishing"])
        /\ Ends(r, "published", e)
     \/ State(e) # "publishing" /\ Ends(r, "failed", e) /\ UNCHANGED exports
  /\ UNCHANGED <<level, schedule, faults, crashed>>

\* An error before the commit of a step: a missing signing key, a repository that is no longer registered.
Fails(r) ==
  /\ run[r].at \in {"carry", "settled", "generate", "publish"}
  /\ Ends(r, "failed", run[r].exp) /\ Fault
  /\ UNCHANGED <<exports, level, schedule, crashed>>

\* Mutant of Failures: a run that does not fail takes one failure back.
FailuresBack(outcome) == IF outcome = "failed" THEN failures + 1 ELSE failures - 1

Failures(outcome) == IF outcome = "failed" THEN failures + 1 ELSE 0

\* _finish: what the run leaves to the next one; the claim is free, whoever has it.
Note(outcome, e) ==
  /\ lastOpen' = CASE e = 0 -> lastOpen [] e = Gone -> 0 [] OTHER -> e
  /\ lastPublished' = IF outcome = "published" THEN e ELSE lastPublished
  /\ exports' = IF outcome = "published" THEN [exports EXCEPT ![e].noted = TRUE] ELSE exports
  /\ failures' = IF Failures(outcome) > MaxFailures THEN MaxFailures ELSE Failures(outcome)
  /\ enabled' = (enabled /\ failures' < MaxFailures)
  /\ claim' = "free"

Finish(r) ==
  /\ run[r].at = "finish"
  /\ IF claim = "removed" THEN UNCHANGED <<exports, schedule>> ELSE Note(run[r].outcome, run[r].exp)
  /\ run' = [run EXCEPT ![r] = Idle]
  /\ UNCHANGED <<level, faults, crashed>>

Step(r) ==
  \/ Begin(r) \/ Create(r) \/ CarryOn(r)
  \/ Generate(r) \/ Generated(r) \/ Publish(r) \/ Push(r) \/ Published(r)
  \/ Finish(r)

----------------------------------------------------------------------------
(* People, and what time does *)

\* A person generates or publishes an export.
ByHand(e) ==
  /\ run[Hand].at = "idle"
  /\ \/ CommitTo(e, "generate") /\ Goes(Hand, "generating", e)
     \/ CommitTo(e, "publish") /\ Goes(Hand, "pushing", e)
  /\ UNCHANGED <<level, schedule, crashed>>

\* People settle, approve and revoke; retention deletes the files of what is old.
Touch(e) ==
  /\ \E q \in {"decide", "approve", "expire", "revoke"} : CommitTo(e, q)
  /\ UNCHANGED <<level, schedule, run, crashed>>

Edit ==
  /\ level < MaxLevel
  /\ level' = level + 1
  /\ UNCHANGED <<exports, schedule, run, faults, crashed>>

Change ==
  /\ claim # "removed" /\ Fault
  /\ enabled' = ~enabled
  /\ failures' = IF enabled' THEN 0 ELSE failures
  /\ UNCHANGED <<exports, level, claim, lastOpen, lastPublished, run, crashed>>

Remove ==
  /\ claim # "removed" /\ Fault
  /\ claim' = "removed"
  /\ UNCHANGED <<exports, level, enabled, lastOpen, lastPublished, failures, run, crashed>>

\* STALE_RUN after the claim: its runner died, or it is slow.
TurnStale ==
  /\ claim = "fresh" /\ (Slow \/ \A r \in Runners : run[r].at = "idle")
  /\ claim' = "stale"
  /\ UNCHANGED <<exports, level, enabled, lastOpen, lastPublished, failures, run, faults, crashed>>

\* The process of a run ends.
Crash(r) ==
  /\ run[r].at # "idle" /\ Fault
  /\ run' = [run EXCEPT ![r] = Idle] /\ crashed' = TRUE
  /\ UNCHANGED <<exports, level, schedule>>

Next ==
  \/ \E r \in Runners, force \in BOOLEAN : Claim(r, force)
  \/ \E r \in Who : Step(r) \/ Fails(r) \/ Crash(r)
  \/ \E e \in DOMAIN exports : ByHand(e) \/ Touch(e)
  \/ Edit \/ Change \/ Remove \/ TurnStale

\* The CronJob starts a runner every 15 minutes, next_run_at comes, a step ends, and time passes.
Fairness ==
  /\ WF_vars(\E r \in Runners : Claim(r, FALSE)) /\ WF_vars(TurnStale)
  /\ \A r \in Who : WF_vars(Step(r))

Spec == Init /\ [][Next]_vars /\ Fairness

----------------------------------------------------------------------------
(* Properties *)

\* schedules.py: "A run claims its schedule in the database first, so two runners never run it at
\* once"; however runners die, and as long as no run lasts longer than its claim is respected.
OneRunner == \A r, x \in Runners : run[r].at # "idle" /\ run[x].at # "idle" => r = x

\* The publications the schedule knows of are a chain: two increments on one base only after one of
\* its publications was revoked or written over, through failures, crashes, work by hand, exports that
\* wait, and sessions that commit after others.
Chain ==
  \A d, e \in 2..Len(exports) :
    exports[d].noted /\ exports[e].noted /\ exports[d].base = exports[e].base /\ d # e
    => \E x \in DOMAIN exports : exports[x].noted /\ (State(x) = "revoked" \/ exports[x].over)

\* An export in a state nobody can take it out of (lifecycle.EXPORT).
Stranded(e) ==
  /\ State(e) \in {"generating", "publishing"}
  /\ \A r \in Who : run[r].exp = e => run[r].at \notin {"generating", "pushing", "pushed"}

\* The schedule is off, or has nothing to continue, or its export waits for a person, was stranded by a
\* process that ended, or left something of a push that failed in the working clone.
NeedsPerson ==
  \/ ~enabled \/ claim = "removed" \/ BaseOf = 0
  \/ /\ lastOpen # 0 /\ State(lastOpen) \in Open
     /\ State(lastOpen) = "awaiting_approval" \/ (Stranded(lastOpen) /\ crashed) \/ exports[lastOpen].left

CaughtUp == BaseOf # 0 /\ exports[BaseOf].level = level

\* A run is about to make one export more than the bound.
Full == Len(exports) = MaxExports /\ \E r \in Runners : run[r].at = "create"

\* jobs.py: "A subject runs one job at a time".  A run of the schedule is no job of its export.
OneAtATime ==
  \A r, x \in Who :
    run[r].exp = run[x].exp /\ {run[r].at, run[x].at} \subseteq {"generating", "pushing", "pushed"} => r = x

\* What was recorded is published in the end, or there is such a reason, which the Portability page shows;
\* unless two sessions work on one export again and again.
CatchesUp == skip_unchanged => <>[](NeedsPerson \/ CaughtUp \/ Full) \/ []<>~OneAtATime

(* Statements the code does not keep *)

\* jobs.py: after an interruption "the step can be run again -- every step is idempotent".  No
\* transition leaves generating or publishing but the step's own.
InterruptedRunsAgain == \A e \in DOMAIN exports : ~Stranded(e)

\* lifecycle.py: "Every transition is checked".  It is, against what was read before.
RevokedStays == [][\A e \in DOMAIN exports : State(e) = "revoked" => exports'[e].state = "revoked"]_vars

\* schedules.py: "the repository holds the base and a chain of increments, each a signed tag naming the one
\* before".  A waiting export that a person publishes is not what the next run continues; and when
\* the last publication is revoked, the next run goes back to the first one.
EachNamesTheOneBefore ==
  \A d, e \in 2..Len(exports) :
    exports[d].git /\ exports[e].git /\ exports[d].base = exports[e].base => d = e
=============================================================================
