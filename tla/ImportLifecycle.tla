-------------------------- MODULE ImportLifecycle --------------------------
(***************************************************************************)
(* Imports of portable archives: src/backend/app/portability/service.py    *)
(* (create_import to discard), with importer.py, staging.py, jobs.py and   *)
(* the table of lifecycle.py.                                              *)
(*                                                                         *)
(* All archives come from one origin, whose exports form a chain.  A long  *)
(* step is a worker that goes from commit to commit: of the active         *)
(* database, where the row of the import is, or of the import's staging    *)
(* database.  What it read of the row before a long part is in `seen', and *)
(* its next commit writes over whatever has happened since.                *)
(*                                                                         *)
(* A discard and an approval are no jobs: they read the row, commit later, *)
(* and may overtake a job or one another.                                  *)
(*                                                                         *)
(* Rows are abstracted to steps, of which those in Loose hold a row whose  *)
(* reference is missing and deferred by decision.  Left out: evidence      *)
(* imports, which load nothing; who may approve; and steps called without  *)
(* a job, as the API's synchronous form does.                              *)
(***************************************************************************)
EXTENDS Integers, Sequences, FiniteSets

CONSTANTS Imports, Workers, Decisions,
          Exports, Base,   \* Base[e]: the base of an increment, "none" for a full checkpoint
          First,           \* applied here already
          Steps, Loose,    \* the seeding and the chunks of an archive, in the order of their loading
          MaxFaults        \* bound: ends of the process and errors

ASSUME ImportAssumption ==
  /\ "none" \notin Exports /\ {"none", "unread"} \cap Decisions = {} /\ First \in Exports /\ Base \in [Exports -> Exports \cup {"none"}]
  /\ IsFiniteSet(Steps) /\ Steps = 1..Cardinality(Steps) /\ Loose \subseteq Steps /\ MaxFaults \in Nat
  /\ Imports # {} /\ "none" \notin Imports

VARIABLES row,      \* [Imports -> the row of portability_imports]
          files,    \* [Imports -> the quarantine holds the archive]
          stage,    \* [Imports -> the steps its staging database holds]
          stages,   \* the imports that have one
          chain,    \* the links of this origin: export, import, the decisions it was loaded with
          job,      \* [Workers -> the job or the request it runs]
          faults,
          stopped,  \* imports that were worked on when the process ended
          overtaken \* imports with a commit over a state other than the one it had read

vars == <<row, files, stage, stages, chain, job, faults, stopped, overtaken>>

\* lifecycle.IMPORT, without the discard, which all states but the last two allow, and awaiting_mapping, which
\* nothing enters.
Table == [created |-> {"fetching", "quarantined"}, fetching |-> {"quarantined", "invalid"},
          quarantined |-> {"verifying"}, verifying |-> {"invalid", "dry_run_ready"}, invalid |-> {},
          dry_run_ready |-> {"awaiting_approval"}, awaiting_approval |-> {"dry_run_ready", "approved"},
          approved |-> {"importing"}, importing |-> {"rebuilding", "failed"},
          rebuilding |-> {"reconciling", "failed"}, reconciling |-> {"ready_to_finalize", "failed"},
          ready_to_finalize |-> {"finalized"}, failed |-> {"importing"}, finalized |-> {}, discarded |-> {}]

States == DOMAIN Table

\* `approved' is the decisions its approver read, "unread" when the row was another by the time of the approval.
Blank == [state |-> "created", export |-> First, decisions |-> "none", approved |-> "none",
          done |-> {}, explained |-> {}, staging |-> FALSE, recon |-> "none"]

Free == [at |-> "free", imp |-> CHOOSE i \in Imports : TRUE, seen |-> "created", decisions |-> "none",
         loose |-> {}, had |-> FALSE]

Row == [state : States, export : Exports, decisions : Decisions \cup {"none"}, approved : Decisions \cup {"none", "unread"},
        done : SUBSET Steps, explained : SUBSET Loose, staging : BOOLEAN,
        recon : {"none", "passed", "failed", "already"}]

Job == [at : {"free", "fetch", "verify", "dry", "check", "stage", "load", "save", "rebuild", "reconcile",
              "promote", "discard", "approve"},
        imp : Imports, seen : States, decisions : Decisions \cup {"none"}, loose : SUBSET Loose, had : BOOLEAN]

TypeOK ==
  /\ row \in [Imports -> Row] /\ files \in [Imports -> BOOLEAN] /\ stage \in [Imports -> SUBSET Steps]
  /\ UNION {stages, stopped, overtaken} \subseteq Imports /\ faults \in 0..MaxFaults
  /\ job \in [Workers -> Job]
  /\ \A k \in 1..Len(chain) : chain[k] \in [export : Exports, by : Imports \cup {"none"}, with : Decisions \cup {"none"}]
  /\ \A i \in Imports \ stages : stage[i] = {}

Init ==
  /\ \E e \in [Imports -> Exports] : row = [i \in Imports |-> [Blank EXCEPT !.export = e[i]]]
  /\ files = [i \in Imports |-> FALSE] /\ stage = [i \in Imports |-> {}] /\ stages = {}
  /\ chain = <<[export |-> First, by |-> "none", with |-> "none"]>>
  /\ job = [w \in Workers |-> Free]
  /\ faults = 0 /\ stopped = {} /\ overtaken = {}

----------------------------------------------------------------------------
(* Helpers *)

State(i) == row[i].state

Put(i, r) == row' = [row EXCEPT ![i] = r]

To(i, s) == Put(i, [row[i] EXCEPT !.state = s])

\* jobs.start: one job of an import at a time; a discard is none, nor is an approval.
MayStart(w, i) ==
  /\ job[w].at = "free"
  /\ \A v \in Workers : job[v].at \in {"free", "discard", "approve"} \/ job[v].imp # i

Goes(w, i, at) == job' = [job EXCEPT ![w] = [Free EXCEPT !.at = at, !.imp = i, !.seen = State(i)]]

At(w, at) == job' = [job EXCEPT ![w].at = at]

Ends(w) == job' = [job EXCEPT ![w] = Free]

outside == <<files, stage, stages, chain>>

history == <<faults, stopped, overtaken>>

\* A commit of what was read before a long part.
Late(w) ==
  overtaken' = IF State(job[w].imp) # job[w].seen THEN overtaken \cup {job[w].imp} ELSE overtaken

Fault == faults < MaxFaults /\ faults' = faults + 1

\* _fail: to the state where the table has it from here, else a line in the audit.
FailTo(s, to) == IF to \in Table[s] THEN to ELSE s

\* Where the failure of a step leads.
Fails(w) ==
  LET i == job[w].imp
  IN CASE job[w].at \in {"fetch", "verify"} -> To(i, FailTo(State(i), "invalid"))
       [] job[w].at \in {"stage", "load", "save", "rebuild", "reconcile"} -> To(i, FailTo(State(i), "failed"))
       [] OTHER -> UNCHANGED row

\* chain_status: a full checkpoint always may be next, an increment after its base.
InPlace(e) == Base[e] = "none" \/ chain[Len(chain)].export = Base[e]

Applied(e) == \E k \in 1..Len(chain) : chain[k].export = e

----------------------------------------------------------------------------
(* Up to the approval *)

upload(i) ==
  /\ State(i) = "created"
  /\ To(i, "quarantined") /\ files' = [files EXCEPT ![i] = TRUE]
  /\ UNCHANGED <<stage, stages, chain, job, history>>

\* fetch_git and verify_import up to their first commit.
begin(w, i, from, during, at) ==
  /\ MayStart(w, i) /\ State(i) = from
  /\ To(i, during)
  /\ job' = [job EXCEPT ![w] = [Free EXCEPT !.at = at, !.imp = i, !.seen = during]]
  /\ UNCHANGED <<outside, history>>

\* fetch_git from there.
fetched(w) ==
  /\ job[w].at = "fetch"
  /\ To(job[w].imp, "quarantined") /\ files' = [files EXCEPT ![job[w].imp] = TRUE]
  /\ Ends(w) /\ UNCHANGED <<stage, stages, chain, faults, stopped>> /\ Late(w)

\* verify_import from there.  A discard may take the files behind what was read of them.
verified(w) ==
  /\ job[w].at = "verify"
  /\ To(job[w].imp, "dry_run_ready")
  /\ Ends(w) /\ UNCHANGED <<outside, faults, stopped>> /\ Late(w)

MayDryRun(s) == s \in {"dry_run_ready", "awaiting_approval"}

\* dry_run up to its report, with new decisions.
dryRun(w, i, d) ==
  /\ MayStart(w, i) /\ MayDryRun(State(i)) /\ files[i]
  /\ job' = [job EXCEPT ![w] = [Free EXCEPT !.at = "dry", !.imp = i, !.seen = State(i), !.decisions = d]]
  /\ UNCHANGED <<row, outside, history>>

\* Mutant of dryRunEnd: a dry run of an import that awaits its approval leaves the state as it finds it.
dryRunEndKept(w) ==
  /\ job[w].at = "dry"
  /\ LET i == job[w].imp
         r == [row[i] EXCEPT !.decisions = job[w].decisions]
     IN \/ /\ InPlace(r.export) \/ Applied(r.export)
           /\ Put(i, IF job[w].seen = "awaiting_approval" THEN r ELSE [r EXCEPT !.state = "awaiting_approval"])
        \/ Put(i, r)
  /\ Ends(w) /\ UNCHANGED <<outside, faults, stopped>> /\ Late(w)

\* Its end.  It is ready when the archive is in its place in the chain and nothing else is in the way.
dryRunEnd(w) ==
  /\ job[w].at = "dry"
  /\ LET i == job[w].imp
         r == [row[i] EXCEPT !.decisions = job[w].decisions]
     IN \/ (InPlace(r.export) \/ Applied(r.export)) /\ Put(i, [r EXCEPT !.state = "awaiting_approval"])
        \/ Put(i, IF job[w].seen = "awaiting_approval" THEN [r EXCEPT !.state = "dry_run_ready"] ELSE r)
  /\ Ends(w) /\ UNCHANGED <<outside, faults, stopped>> /\ Late(w)

\* approve_import up to its commit: the approver is shown the decisions that are asked for.
approve(w, i) ==
  /\ job[w].at = "free" /\ State(i) = "awaiting_approval"
  /\ job' = [job EXCEPT ![w] = [Free EXCEPT !.at = "approve", !.imp = i, !.seen = State(i),
                                           !.decisions = row[i].decisions]]
  /\ UNCHANGED <<row, outside, history>>

\* Its commit, whatever the row is by then.
approved(w) ==
  /\ job[w].at = "approve"
  /\ LET i == job[w].imp
         asRead == State(i) = job[w].seen /\ row[i].decisions = job[w].decisions
     IN Put(i, [row[i] EXCEPT !.state = "approved", !.approved = IF asRead THEN row[i].decisions ELSE "unread"])
  /\ Ends(w) /\ UNCHANGED <<outside, faults, stopped>> /\ Late(w)

----------------------------------------------------------------------------
(* execute *)

\* Mutant of MayExecute: an import that was interrupted is not taken up again.
MayExecuteOnce(s) == s \in {"approved", "failed"}

MayExecute(s) == s \in {"approved", "importing", "failed"}

execute(w, i) ==
  /\ MayStart(w, i) /\ MayExecute(State(i))
  /\ To(i, "importing") /\ Goes(w, i, "check")
  /\ UNCHANGED <<outside, history>>

\* The export is applied already, or it is to be staged.
check(w) ==
  /\ job[w].at = "check"
  /\ LET i == job[w].imp
     IN IF ~Applied(row[i].export) THEN At(w, "stage") /\ UNCHANGED row
        ELSE /\ Ends(w)
             /\ IF State(i) = "importing" THEN Put(i, [row[i] EXCEPT !.state = "ready_to_finalize", !.recon = "already"])
                ELSE UNCHANGED row
  /\ UNCHANGED <<outside, history>>

\* staging.create, with the commit of its name; a name that is there is not asked for.
makeStaging(w) ==
  /\ job[w].at = "stage"
  /\ At(w, "load")
  /\ LET i == job[w].imp
     IN /\ Put(i, [row[i] EXCEPT !.staging = TRUE])
        /\ stages' = IF row[i].staging THEN stages ELSE stages \cup {i}
  /\ UNCHANGED <<files, stage, chain, history>>

\* Mutant of NextOf: the checkpoints are counted from one too far.
NextOfPast(done) == Cardinality(done) + 2

\* The first step that is not done.
NextOf(done) == Cardinality(done) + 1

\* A deferred row that is there already is updated, with the reference that is missing.
Loadable(w) ==
  LET i == job[w].imp
  IN files[i] /\ i \in stages /\ NextOf(row[i].done) \notin stage[i] \cap Loose

\* Mutant of load: the commit of the staging database is missing.
loadUncommitted(w) ==
  /\ job[w].at = "load" /\ row[job[w].imp].done # Steps /\ Loadable(w)
  /\ At(w, "save")
  /\ UNCHANGED <<row, outside, history>>

\* A step, committed in the staging database.
load(w) ==
  /\ job[w].at = "load" /\ row[job[w].imp].done # Steps /\ Loadable(w)
  /\ LET i == job[w].imp
         s == NextOf(row[i].done)
     IN /\ stage' = [stage EXCEPT ![i] = @ \cup {s}]
        /\ job' = [job EXCEPT ![w].at = "save", ![w].loose = @ \cup ({s} \cap Loose)]
  /\ UNCHANGED <<row, files, stages, chain, history>>

\* _save: the step is a checkpoint.
save(w) ==
  /\ job[w].at = "save"
  /\ LET i == job[w].imp
     IN Put(i, [row[i] EXCEPT !.done = @ \cup {NextOf(@)}])
  /\ At(w, "load")
  /\ UNCHANGED <<outside, history>>

\* Everything is loaded: what was deferred is written down, and the rebuild begins.
loaded(w) ==
  /\ job[w].at = "load" /\ row[job[w].imp].done = Steps
  /\ LET i == job[w].imp
         r == [row[i] EXCEPT !.explained = @ \cup job[w].loose]
     IN IF State(i) = "importing" THEN Put(i, [r EXCEPT !.state = "rebuilding"]) /\ At(w, "rebuild")
        ELSE Put(i, [r EXCEPT !.state = FailTo(@, "failed")]) /\ Ends(w)
  /\ UNCHANGED <<outside, history>>

rebuilt(w) ==
  /\ job[w].at = "rebuild" /\ files[job[w].imp] /\ job[w].imp \in stages
  /\ LET i == job[w].imp
     IN IF State(i) = "rebuilding"
          THEN /\ To(i, "reconciling")
               /\ job' = [job EXCEPT ![w].at = "reconcile", ![w].seen = "reconciling"]
          ELSE To(i, FailTo(State(i), "failed")) /\ Ends(w)
  /\ UNCHANGED <<outside, history>>

\* The result of the reconciliation is written over the state it was begun in.
reconciled(w) ==
  /\ job[w].at = "reconcile"
  /\ LET i == job[w].imp
         passed == stage[i] = Steps /\ Loose \subseteq row[i].explained
     IN Put(i, [row[i] EXCEPT !.state = IF passed THEN "ready_to_finalize" ELSE "failed",
                              !.recon = IF passed THEN "passed" ELSE "failed"])
  /\ Ends(w) /\ UNCHANGED <<outside, faults, stopped>> /\ Late(w)

----------------------------------------------------------------------------
(* finalize, discard, and what goes wrong *)

finalize(w, i) ==
  /\ MayStart(w, i) /\ State(i) = "ready_to_finalize"
  /\ job' = [job EXCEPT ![w] = [Free EXCEPT !.at = "promote", !.imp = i, !.seen = State(i),
                                           !.had = files[i] \/ row[i].recon = "already"]]
  /\ UNCHANGED <<row, outside, history>>

\* _cleanup.
Cleaned(i) ==
  /\ files' = [files EXCEPT ![i] = FALSE]
  /\ stages' = IF row[i].staging THEN stages \ {i} ELSE stages
  /\ stage' = IF row[i].staging THEN [stage EXCEPT ![i] = {}] ELSE stage

\* promote and its commit: all of the archive or, where the chain has its export (its primary key), nothing.
promoted(w) ==
  /\ job[w].at = "promote" /\ job[w].had
  /\ LET i == job[w].imp
         e == row[i].export
     IN /\ row[i].recon = "already" \/ ~Applied(e)
        /\ chain' = IF row[i].recon = "already" THEN chain
                    ELSE Append(chain, [export |-> e, by |-> i, with |-> row[i].decisions])
        /\ To(i, "finalized") /\ Cleaned(i)
  /\ Ends(w) /\ UNCHANGED <<faults, stopped>> /\ Late(w)

\* The promotion of an import of this origin that is not one of Imports.
another(e) ==
  /\ ~Applied(e)
  /\ chain' = Append(chain, [export |-> e, by |-> "none", with |-> "none"])
  /\ UNCHANGED <<row, files, stage, stages, job, history>>

MayDiscard(s) == s \notin {"discarded", "finalized"}

\* discard: everything is removed before the state is written.
discard(w, i) ==
  /\ job[w].at = "free" /\ MayDiscard(State(i))
  /\ Cleaned(i) /\ Goes(w, i, "discard")
  /\ UNCHANGED <<row, chain, history>>

discarded(w) ==
  /\ job[w].at = "discard"
  /\ To(job[w].imp, "discarded")
  /\ Ends(w) /\ UNCHANGED <<outside, faults, stopped>> /\ Late(w)

\* cleanup: the files of a failed import are kept for the retention period.
cleanup(i) ==
  /\ State(i) = "failed" /\ files[i]
  /\ Cleaned(i)
  /\ UNCHANGED <<row, chain, job, history>>

\* What a step needs is not there.
Blocked(w) ==
  LET i == job[w].imp
  IN \/ job[w].at = "verify" /\ ~files[i]
     \/ job[w].at = "load" /\ row[i].done # Steps /\ ~Loadable(w)
     \/ job[w].at = "rebuild" /\ ~(files[i] /\ i \in stages)
     \/ job[w].at = "promote" /\ (~job[w].had \/ (row[i].recon # "already" /\ Applied(row[i].export)))

\* A step of a job fails: for what it needs, or for any other reason.
fail(w) ==
  /\ job[w].at \notin {"free", "discard", "approve", "check"}
  /\ Fails(w) /\ Ends(w)
  /\ \/ Blocked(w) /\ UNCHANGED faults
     \/ ~Blocked(w) /\ Fault
  /\ UNCHANGED <<outside, stopped, overtaken>>

\* The process ends, with everything that ran; jobs.recover closes the jobs and leaves the imports.
crash ==
  /\ Fault
  /\ \E w \in Workers : job[w].at # "free"
  /\ stopped' = stopped \cup {job[w].imp : w \in {v \in Workers : job[v].at # "free"}}
  /\ job' = [w \in Workers |-> Free]
  /\ UNCHANGED <<row, outside, overtaken>>

Work(w) ==
  \/ fetched(w) \/ verified(w) \/ dryRunEnd(w) \/ check(w) \/ makeStaging(w) \/ load(w) \/ save(w) \/ loaded(w)
  \/ rebuilt(w) \/ reconciled(w) \/ promoted(w) \/ discarded(w) \/ approved(w)
  \/ (Blocked(w) /\ fail(w))

Next ==
  \/ \E i \in Imports : upload(i) \/ cleanup(i)
  \/ \E w \in Workers, i \in Imports :
       \/ begin(w, i, "created", "fetching", "fetch") \/ begin(w, i, "quarantined", "verifying", "verify")
       \/ execute(w, i) \/ finalize(w, i) \/ discard(w, i) \/ approve(w, i)
       \/ \E d \in Decisions : dryRun(w, i, d)
  \/ \E w \in Workers : Work(w) \/ fail(w)
  \/ \E e \in Exports : another(e)
  \/ crash

\* What runs goes on; a person takes up an import that is approved or was interrupted.
Fairness ==
  /\ \A w \in Workers : WF_vars(Work(w))
  /\ \A i \in Imports : SF_vars(\E w \in Workers : execute(w, i))

Spec == Init /\ [][Next]_vars /\ Fairness

----------------------------------------------------------------------------
(* Properties *)

Busy(i) == \E w \in Workers : job[w].at # "free" /\ job[w].imp = i

\* The links the imports here made.
Links == {k \in 1..Len(chain) : chain[k].by \in Imports}

Midway == {"fetching", "verifying", "rebuilding", "reconciling"}

\* What is recorded as done is in the staging database, so that a resumed import misses nothing; a staging
\* database goes only with the archive itself (execute, _save, _cleanup).
DoneIsStaged ==
  \A i \in Imports : IF i \in stages THEN row[i].done \subseteq stage[i] ELSE row[i].done # {} => ~files[i]

\* What the chain says and what the imports say agree: an export is applied once; an import that says it is
\* finalized has its export applied; and one whose archive was promoted was loaded with the decisions its
\* approver read, unless a dry run or another request committed between that reading and the approval, and it
\* says it is finalized, unless a discard or a second approval was under way at the promotion (dry_run,
\* approve_import, finalize, discard, jobs.start).
ChainAsTold ==
  /\ \A j, k \in 1..Len(chain) : chain[j].export = chain[k].export => j = k
  /\ \A i \in Imports : State(i) = "finalized" => Applied(row[i].export)
  /\ \A k \in Links :
       LET i == chain[k].by
       IN row[i].approved \in {chain[k].with, "unread"} /\ (State(i) = "finalized" \/ i \in overtaken)

\* A step that is out of the reach of a resumption: what it needs is gone, the process ended in the middle,
\* or a deferred row is staged and its deferral was not written down.
Lost(i) ==
  \/ ~files[i] \/ i \in overtaken
  \/ State(i) \in Midway /\ i \in stopped
  \/ (stage[i] \cap Loose) \ row[i].explained # {}

\* An approved import is reconciled, discarded or lost in the end, over ends of the process and errors
\* (execute, jobs.recover).
Resumes ==
  \A i \in Imports :
    State(i) = "approved" ~> State(i) \in {"ready_to_finalize", "finalized", "discarded"} \/ (~Busy(i) /\ Lost(i))

----------------------------------------------------------------------------
(* What the documents say and TLC refutes *)

\* "Increments name their base ... An increment out of order, or with a gap, is refused"
\* (docs/export-import-design.md:377): only the dry run asks, and another import may be finalized after it.
InOrder == \A k \in Links : Base[chain[k].export] \in {"none", chain[k - 1].export}

\* "it is marked failed (interrupted), and the step can be run again" (jobs.py:7): not in the middle of one.
InterruptedRunsAgain == \A i \in Imports : State(i) \in Midway => Busy(i)

\* "an interrupted import resumes from its staging checkpoints" (jobs.py:9): the deferrals of a run that did
\* not come to its end are lost, and without them no reconciliation passes.
DeferralsKept ==
  \A i \in Imports : ~Busy(i) /\ State(i) \in {"importing", "failed"} => (stage[i] \cap Loose) \subseteq row[i].explained

\* "The active database was never written to" (discard): it may be, while the discard is under way.
DiscardedIsNothing == \A k \in Links : State(chain[k].by) # "discarded"

\* "Every transition is checked" (lifecycle.py:3), on what was read: a dry run with other decisions, or a
\* discard, may commit before the approval does.
ApprovedAsRead == \A i \in Imports : State(i) = "approved" => row[i].approved # "unread"

\* "the staging database and the quarantine go" (discard): a step that is running may make them again.
NothingLeft == \A i \in Imports : State(i) = "discarded" /\ ~Busy(i) => ~files[i] /\ i \notin stages

=============================================================================
