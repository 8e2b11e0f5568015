------------------------------ MODULE Cutover -------------------------------
(***************************************************************************)
(* Moving domains from Jira or Insight to ARGUS, one by one:               *)
(* src/backend/app/ledger/cutover.py and services/retirement.py.           *)
(*                                                                         *)
(* A domain is a scope of records and the source streams that feed it.  It *)
(* goes T0 Prepare, T1 Import, T2 Shadow, T3 Cutover (its streams frozen), *)
(* exit signed, T4 Archive, T5 Retire.  What a stream published stands for *)
(* its whole chain here (LedgerStream has the rest): a level of the        *)
(* source, 0 before the first publication.                                 *)
(*                                                                         *)
(* Criteria nothing else in this module depends on (stewards, ageing of    *)
(* the queues, legacy records, clean runs, rehearsals, attestations) are   *)
(* met, waived or not at the environment's choice: a call that fails on    *)
(* one changes nothing, so it is left out.                                 *)
(***************************************************************************)
EXTENDS Integers, FiniteSets

CONSTANTS Domains, Streams,
          None,        \* no stage, manifest, report or export yet
          StreamsOf,   \* [Domains -> SUBSET Streams]: stream_ids
          Scope,       \* [Domains -> scopes]: the workspace and resource
          Pilots,      \* the domains created as pilots
          MaxLevel,    \* bound: changes of the source of a stream
          Changing,    \* bound: the streams whose source changes again after its first content
          MaxEdits     \* bound: decisions people make on records of a domain

ASSUME DomainAssumption ==
  /\ StreamsOf \in [Domains -> SUBSET Streams]
  /\ Pilots \subseteq Domains /\ Changing \subseteq Streams
  /\ MaxLevel \in Nat /\ MaxEdits \in Nat

Stages == {"T0", "T1", "T2", "T3", "T4", "T5"}

Level == 0..MaxLevel

ASSUME NoneAssumption == None \notin Stages

VARIABLES stage,      \* stage of each domain, None before create_domain
          exited,     \* exited_at is set
          closed,     \* REVERSION_DAYS have passed since exited_at
          manifest,   \* what the manifest recorded by the last freeze says
          report,     \* the latest reconciliation report
          final,      \* that it was made since the latest freeze (created_at, frozen_at)
          edits,      \* decisions people made in ARGUS in the scope of the domain
          exported,   \* how many of them the latest reversion export reports
          retired,    \* the retire_jira decision exists
          source,     \* level of each stream's source in Jira or Insight, 0 if empty
          published,  \* level of each stream's published head
          waiting,    \* level of the revision held on each stream, 0 if none
          frozen      \* frozen_at of each stream is set

domainVars == <<stage, exited, closed, manifest, report, final, edits, exported, retired>>
streamVars == <<source, published, waiting, frozen>>
vars == <<domainVars, streamVars>>

\* What an export manifest, or ARGUS, says of the streams of a domain.
Content(d) == [StreamsOf[d] -> Level]

Report(d) == [manifest : Content(d), seen : Content(d), passed : BOOLEAN]

TypeOK ==
  /\ stage \in [Domains -> Stages \cup {None}]
  /\ exited \in [Domains -> BOOLEAN] /\ closed \in [Domains -> BOOLEAN]
  /\ DOMAIN manifest = Domains /\ \A d \in Domains : manifest[d] \in Content(d) \cup {None}
  /\ DOMAIN report = Domains /\ \A d \in Domains : report[d] \in Report(d) \cup {None}
  /\ final \in [Domains -> BOOLEAN]
  /\ edits \in [Domains -> 0..MaxEdits]
  /\ exported \in [Domains -> 0..MaxEdits \cup {None}]
  /\ retired \in BOOLEAN
  /\ source \in [Streams -> Level] /\ published \in [Streams -> Level]
  /\ waiting \in [Streams -> Level] /\ frozen \in [Streams -> BOOLEAN]

Init ==
  /\ stage = [d \in Domains |-> None]
  /\ exited = [d \in Domains |-> FALSE] /\ closed = [d \in Domains |-> FALSE]
  /\ manifest = [d \in Domains |-> None] /\ report = [d \in Domains |-> None]
  /\ final = [d \in Domains |-> FALSE]
  /\ edits = [d \in Domains |-> 0] /\ exported = [d \in Domains |-> None]
  /\ retired = FALSE
  /\ source = [s \in Streams |-> 0] /\ published = [s \in Streams |-> 0]
  /\ waiting = [s \in Streams |-> 0] /\ frozen = [s \in Streams |-> FALSE]

----------------------------------------------------------------------------
(* The streams, as far as a cutover sees them *)

\* The source of a stream changes in Jira or Insight.
SourceChanges(s) ==
  /\ source[s] < MaxLevel /\ (source[s] = 0 \/ s \in Changing)
  /\ source' = [source EXCEPT ![s] = @ + 1]
  /\ UNCHANGED <<domainVars, published, waiting, frozen>>

\* Mutant of Import: an ingest that does not ask whether the stream is frozen.
ImportFrozen(s) ==
  /\ source[s] # 0
  /\ published' = [published EXCEPT ![s] = source[s]]
  /\ waiting' = [waiting EXCEPT ![s] = 0]
  /\ UNCHANGED <<domainVars, source, frozen>>

\* ingest: refused on a frozen stream; else published, or held by the guard.
Import(s) ==
  /\ ~frozen[s] /\ source[s] # 0
  /\ \/ /\ published' = [published EXCEPT ![s] = source[s]]
        /\ waiting' = [waiting EXCEPT ![s] = 0]
     \/ /\ waiting' = [waiting EXCEPT ![s] = source[s]]
        /\ UNCHANGED published
  /\ UNCHANGED <<domainVars, source, frozen>>

\* approve_revision and reject_revision.
Decide(s, approve) ==
  /\ waiting[s] # 0
  /\ published' = IF approve THEN [published EXCEPT ![s] = waiting[s]] ELSE published
  /\ waiting' = [waiting EXCEPT ![s] = 0]
  /\ UNCHANGED <<domainVars, source, frozen>>

----------------------------------------------------------------------------
(* The calls of cutover.py *)

Create(d) ==
  /\ stage[d] = None
  /\ stage' = [stage EXCEPT ![d] = "T0"]
  /\ UNCHANGED <<exited, closed, manifest, report, final, edits, exported, retired, streamVars>>

\* advance to the next stage.  T3 is entered by freezing, T5 by the retirement.
Forward(d) ==
  /\ \/ stage[d] = "T0" /\ stage' = [stage EXCEPT ![d] = "T1"]
     \/ stage[d] = "T1" /\ stage' = [stage EXCEPT ![d] = "T2"]
     \/ stage[d] = "T3" /\ exited[d] /\ stage' = [stage EXCEPT ![d] = "T4"]
  /\ UNCHANGED <<exited, closed, manifest, report, final, edits, exported, retired, streamVars>>

Reopened(d) == [s \in Streams |-> frozen[s] /\ s \notin StreamsOf[d]]

\* Mutant of Abort: an abort that forgets to reopen the streams.
AbortFrozen(d, to) ==
  /\ ~exited[d]
  /\ <<stage[d], to>> \in {<<"T2", "T1">>, <<"T3", "T1">>, <<"T3", "T2">>}
  /\ stage' = [stage EXCEPT ![d] = to]
  /\ final' = [final EXCEPT ![d] = FALSE]
  /\ UNCHANGED <<exited, closed, manifest, report, edits, exported, retired, streamVars>>

\* advance to an earlier stage: the abort of a cutover, reopening the streams.
Abort(d, to) ==
  /\ ~exited[d]
  /\ <<stage[d], to>> \in {<<"T2", "T1">>, <<"T3", "T1">>, <<"T3", "T2">>}
  /\ frozen' = Reopened(d)
  /\ stage' = [stage EXCEPT ![d] = to]
  /\ final' = [final EXCEPT ![d] = FALSE]
  /\ UNCHANGED <<exited, closed, manifest, report, edits, exported, retired,
                 source, published, waiting>>

\* Mutant of Freeze: a freeze that leaves undecided revisions behind it.
FreezeWaiting(d, content) ==
  /\ stage[d] \in {"T1", "T2"}
  /\ \A s \in StreamsOf[d] : published[s] # 0 /\ content[s] \in 1..source[s]
  /\ frozen' = [s \in Streams |-> frozen[s] \/ s \in StreamsOf[d]]
  /\ manifest' = [manifest EXCEPT ![d] = content]
  /\ stage' = [stage EXCEPT ![d] = "T3"]
  /\ final' = [final EXCEPT ![d] = FALSE]
  /\ UNCHANGED <<exited, closed, report, edits, exported, retired, source, published, waiting>>

\* freeze: record the manifest of an export of the source, which may be older
\* than the source, and close every stream of the domain.
Freeze(d, content) ==
  /\ stage[d] \in {"T1", "T2"}
  /\ \A s \in StreamsOf[d] : waiting[s] = 0 /\ published[s] # 0 /\ content[s] \in 1..source[s]
  /\ frozen' = [s \in Streams |-> frozen[s] \/ s \in StreamsOf[d]]
  /\ manifest' = [manifest EXCEPT ![d] = content]
  /\ stage' = [stage EXCEPT ![d] = "T3"]
  /\ final' = [final EXCEPT ![d] = FALSE]
  /\ UNCHANGED <<exited, closed, report, edits, exported, retired, source, published, waiting>>

\* Mutant of Held: what ARGUS holds, without asking which domain it is for.
HeldAnywhere(d) == published

\* What ARGUS holds of a domain.
Held(d) == [s \in StreamsOf[d] |-> published[s]]

\* From the freeze on frozen_at of the domain is set.
CutOver(d) == stage[d] \in {"T3", "T4", "T5"}

\* reconcile: a difference between the manifest and ARGUS fails the report
\* unless decisions (explain_difference) explain each one.
Reconcile(d, content, explained) ==
  /\ stage[d] # None
  /\ \A s \in StreamsOf[d] : content[s] \in 1..source[s]
  /\ report' = [report EXCEPT ![d] =
       [manifest |-> content, seen |-> Held(d), passed |-> content = Held(d) \/ explained]]
  /\ final' = [final EXCEPT ![d] = CutOver(d)]
  /\ UNCHANGED <<stage, exited, closed, manifest, edits, exported, retired, streamVars>>

\* exit_criteria: streams frozen, a passed report on the frozen manifest, and
\* nothing held.  The report may be older than the freeze.
ExitCriteria(d) ==
  /\ StreamsOf[d] # {} /\ \A s \in StreamsOf[d] : frozen[s]
  /\ report[d] # None
  /\ report[d].passed /\ report[d].manifest = manifest[d]
  /\ \A s \in StreamsOf[d] : waiting[s] = 0

SignExit(d) ==
  /\ stage[d] = "T3" /\ ~exited[d]
  /\ ExitCriteria(d)
  /\ exited' = [exited EXCEPT ![d] = TRUE]
  /\ closed' = [closed EXCEPT ![d] = FALSE]
  /\ UNCHANGED <<stage, manifest, report, final, edits, exported, retired, streamVars>>

\* Thirty days after the exit; only a pilot has the window.
WindowCloses(d) ==
  /\ d \in Pilots /\ exited[d] /\ ~closed[d]
  /\ closed' = [closed EXCEPT ![d] = TRUE]
  /\ UNCHANGED <<stage, exited, manifest, report, final, edits, exported, retired, streamVars>>

PilotInWindow(d) == d \in Pilots /\ exited[d] /\ ~closed[d]

\* reversion_export: the edits so far, recorded as a decision that stays.
ReversionExport(d) ==
  /\ PilotInWindow(d)
  /\ exported' = [exported EXCEPT ![d] = edits[d]]
  /\ UNCHANGED <<stage, exited, closed, manifest, report, final, edits, retired, streamVars>>

\* revert_pilot, at any stage after the exit, once there is an export from
\* whatever time: the source is authoritative again.
RevertPilot(d) ==
  /\ PilotInWindow(d)
  /\ exported[d] # None
  /\ frozen' = Reopened(d)
  /\ exited' = [exited EXCEPT ![d] = FALSE]
  /\ stage' = [stage EXCEPT ![d] = "T1"]
  /\ final' = [final EXCEPT ![d] = FALSE]
  /\ UNCHANGED <<closed, manifest, report, edits, exported, retired, source, published, waiting>>

\* retirement.sign: once, with every domain past its exit and archived.
Retire ==
  LET created == {d \in Domains : stage[d] # None} IN
  /\ ~retired
  /\ created # {} /\ \A d \in created : stage[d] \in {"T4", "T5"} /\ exited[d]
  /\ retired' = TRUE
  /\ stage' = [d \in Domains |-> IF stage[d] = "T4" THEN "T5" ELSE stage[d]]
  /\ UNCHANGED <<exited, closed, manifest, report, final, edits, exported, streamVars>>

----------------------------------------------------------------------------
(* People at work *)

\* assert_writable: no domain of the scope is a mirror of its source.
Mirror(d) == stage[d] \in {"T1", "T2", "T3"} /\ ~exited[d]
Writable(scope) == \A d \in Domains : Scope[d] = scope => ~Mirror(d)

\* A decision of a person on a record of the scope, once ARGUS holds records of
\* it; it counts for every domain of the scope.
Decided(scope) ==
  LET touched == {d \in Domains : Scope[d] = scope /\ stage[d] \notin {None, "T0"}} IN
  /\ touched # {} /\ \A d \in touched : edits[d] < MaxEdits
  /\ edits' = [d \in Domains |-> edits[d] + (IF d \in touched THEN 1 ELSE 0)]
  /\ UNCHANGED <<stage, exited, closed, manifest, report, final, exported, retired, streamVars>>

\* edit_value and the other edits of a record ask assert_writable first.
Edit(scope) == Writable(scope) /\ Decided(scope)

\* POST /decisions, and bulk changes and their undoing, do not.
DecideUnasked(scope) == Decided(scope)

Next ==
  \/ \E s \in Streams : SourceChanges(s) \/ Import(s) \/ \E b \in BOOLEAN : Decide(s, b)
  \/ \E d \in Domains :
       \/ Create(d) \/ Forward(d) \/ \E to \in Stages : Abort(d, to)
       \/ \E content \in Content(d) : Freeze(d, content)
       \/ \E content \in Content(d), b \in BOOLEAN : Reconcile(d, content, b)
       \/ SignExit(d) \/ WindowCloses(d) \/ ReversionExport(d) \/ RevertPilot(d)
       \/ Edit(Scope[d]) \/ DecideUnasked(Scope[d])
  \/ Retire

Spec == Init /\ [][Next]_vars

----------------------------------------------------------------------------
(* Properties *)

\* From the freeze on, whatever other domains do and however the cutover goes
\* on, every stream of the domain stays closed with nothing left to approve:
\* no revision can reach the records behind the watermark (I-SOR-1; freeze,
\* ingest, advance, revert_pilot).  It takes domains that share no stream.
CutOverSealed ==
  \A d \in Domains : CutOver(d) => \A s \in StreamsOf[d] : frozen[s] /\ waiting[s] = 0

\* No stream stays closed for a cutover that was aborted or reverted: it would
\* refuse every later revision (advance, revert_pilot).
FrozenForCutover ==
  \A s \in Streams : frozen[s] => \E d \in Domains : s \in StreamsOf[d] /\ CutOver(d)

\* "The final reconciliation report": a comparison made since the freeze stays
\* true of what ARGUS holds of the streams, through the exit, the archive and whatever happens
\* to other domains, so that signing does not rest on what has moved since
\* (reconcile, exit_criteria, sign_exit, ingest).  Same assumption on streams.
FinalReportStands ==
  \A d \in Domains : final[d] => report[d].seen = Held(d)

(* Statements of the documentation the code does not keep *)

\* Section 17.2: "No dual write: from T1 until the exit is signed ARGUS holds the
\* scope read-only, and only migration decisions are recorded" (cutover.py).
\* POST /decisions and bulk changes record others.
MirrorUntouched == [][\A d \in Domains : Mirror(d) => edits'[d] = edits[d]]_vars

\* I-SOR-1: "a stream frozen at a cutover watermark accepts no further
\* revisions".  With a stream in two domains, the abort of one reopens it
\* under the other, even after the exit.
AcceptsNoFurther ==
  [][\A d \in Domains : \A s \in StreamsOf[d] :
       exited[d] /\ exited'[d] => published'[s] = published[s]]_vars

\* cutover.py: "The exit is signed only when the final reconciliation report
\* shows no unexplained difference".  The report may have compared the frozen
\* manifest with an earlier state of ARGUS, and the difference since is in none.
ExitOnFinalReport ==
  [][\A d \in Domains : exited'[d] /\ ~exited[d]
       => Held(d) \in {report[d].seen, manifest[d]}]_vars

\* revert_pilot: "after its change report has been exported".  Any report ever
\* exported will do, and the edits made since are in none.
RevertCarriesEdits ==
  [][\A d \in Domains : exited[d] /\ ~exited'[d] => exported[d] = edits[d]]_vars

\* Section 17.2, T5: the source is "decommissioned", ARGUS "authoritative".  A
\* pilot within its window goes back to T1 all the same.
RetiredForGood ==
  [][\A d \in Domains : stage[d] = "T5" => stage'[d] = "T5"]_vars
=============================================================================
