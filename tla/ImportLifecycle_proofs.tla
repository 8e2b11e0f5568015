------------------------ MODULE ImportLifecycle_proofs ------------------------
(***************************************************************************)
(* What the rows of imports, their staging databases and the chain say of  *)
(* each other.  One job works on an import, so what it has read holds      *)
(* until its next commit, but for a discard, which takes the archive and   *)
(* the staging database together, and an approval, which may come late and *)
(* puts the state back.  From that the way of each import through its      *)
(* states follows, with the commits that go over another.                  *)
(***************************************************************************)
EXTENDS ImportLifecycle, FiniteSetTheorems, TLAPS

----------------------------------------------------------------------------
(* The inductive invariant *)

\* Before anything is loaded, and from the approval on, to which a late one leads back.
Early == {"created", "fetching", "quarantined", "verifying", "invalid", "dry_run_ready", "awaiting_approval"}

Past == {"approved", "importing", "rebuilding", "reconciling", "ready_to_finalize", "finalized", "failed"}

\* The places of a job that loads or promotes.
Executing == {"check", "stage", "load", "save", "rebuild", "reconcile", "promote"}

\* Those of one that prepares the approval.
Preparing == {"fetch", "verify", "dry"}

\* A job that nobody runs beside it.
Sole == Preparing \cup Executing

\* What does, and is no job.
Beside == {"free", "discard", "approve"}

\* A row r and what is outside of it: the steps s of its staging database, whether that is there, and whether
\* the archive is.
RowFine(r, s, here, archive) ==
  /\ r.state \in Early => ~r.staging
  /\ r.done # {} => r.staging
  /\ here => r.staging /\ r.done \subseteq s
  /\ r.staging /\ ~here => ~archive
  /\ r.state \in Past => r.approved \in {r.decisions, "unread"}

\* A job and the row it works on: what it has read holds still, or is not asked for.
JobFine(j, r, s, here) ==
  /\ j.at \in Preparing => ~r.staging
  /\ j.at \in Executing => r.state \notin Early /\ r.approved \in {r.decisions, "unread"}
  /\ j.at \in {"load", "save", "rebuild", "reconcile"} => r.staging
  /\ j.at = "save" => NextOf(r.done) \in Steps /\ (here => NextOf(r.done) \in s)
  /\ j.at = "dry" /\ j.seen # "awaiting_approval" =>
       r.state \in {"dry_run_ready", "discarded"} \/ (r.state = "approved" /\ r.approved = "unread")
  /\ j.at = "discard" => j.seen \notin {"finalized", "discarded"}
  /\ j.at = "approve" => j.seen = "awaiting_approval"

RowOK(i) == RowFine(row[i], stage[i], i \in stages, files[i])

JobOK(w) == JobFine(job[w], row[job[w].imp], stage[job[w].imp], job[w].imp \in stages)

OneJob ==
  \A v, w \in Workers : job[v].at \in Sole /\ job[w].at \in Sole /\ job[v].imp = job[w].imp => v = w

Link == [export : Exports, by : Imports \cup {"none"}, with : Decisions \cup {"none"}]

\* Applied, of any chain.
InChain(c, e) == \E k \in 1..Len(c) : c[k].export = e

\* The chain names an export once, and what was found there stays there.
ChainOK ==
  /\ chain \in Seq(Link)
  /\ \A j, k \in 1..Len(chain) : chain[j].export = chain[k].export => j = k
  /\ \A i \in Imports : row[i].recon = "already" \/ State(i) = "finalized" => InChain(chain, row[i].export)

\* An import that made a link is over, or was taken up again after a commit that came late; it is not prepared
\* again.
LinkFine(l, r, over) ==
  /\ r.approved \in {l.with, "unread"} /\ r.state \notin Early
  /\ r.state = "finalized" \/ over

LinkOK(k) ==
  LET i == chain[k].by
  IN /\ LinkFine(chain[k], row[i], i \in overtaken)
     /\ \A w \in Workers : job[w].imp = i =>
          job[w].at \notin Preparing /\ (job[w].at \in Executing => i \in overtaken)

WorkInv ==
  /\ \A i \in Imports : RowOK(i)
  /\ \A w \in Workers : JobOK(w)
  /\ OneJob /\ ChainOK
  /\ \A k \in Links : LinkOK(k)

----------------------------------------------------------------------------
(* What a step on one import changes *)

\* Outside of the row, a step touches its own import only,
NearOK(i) ==
  /\ files' \in [Imports -> BOOLEAN] /\ stage' \in [Imports -> SUBSET Steps] /\ stages' \subseteq Imports
  /\ \A j \in Imports \ {i} : files'[j] = files[j] /\ stage'[j] = stage[j] /\ (j \in stages' <=> j \in stages)
  /\ i \notin stages' => stage'[i] = {}

\* and not the chain.
OutsideOK(i) == NearOK(i) /\ chain' = chain

HistoryOK ==
  faults' \in 0..MaxFaults /\ stopped' \subseteq Imports /\ overtaken \subseteq overtaken' /\ overtaken' \subseteq Imports

\* Import i made no link yet.
Unlinked(i) == \A k \in Links : chain[k].by # i

\* And that of a link it made, if it did, only after a late commit.
Reopened(i) == \A k \in Links : chain[k].by = i => i \in overtaken

\* It goes on from there.
Onward(i, r, j) ==
  /\ Reopened(i) /\ r.state \notin Early /\ r.approved = row[i].approved
  /\ j.at \notin Preparing

\* Nobody but w works on import i, but for a discard and an approval.
SoleOn(w, i) == \A v \in Workers \ {w} : job[v].imp = i => job[v].at \notin Sole

\* The states of the table.
LEMMA StatesAre ==
  States = {"created", "fetching", "quarantined", "verifying", "invalid", "dry_run_ready", "awaiting_approval",
            "approved", "importing", "rebuilding", "reconciling", "ready_to_finalize", "failed", "finalized",
            "discarded"}
BY DEF States, Table

\* While not everything is loaded, the next step is one of the archive.
LEMMA NextIsStep ==
  ASSUME NEW done \in SUBSET Steps, done # Steps
  PROVE  NextOf(done) \in Steps
<1>1. IsFiniteSet(done) /\ Cardinality(done) <= Cardinality(Steps) /\ Cardinality(done) # Cardinality(Steps)
  BY FS_Subset, ImportAssumption
<1>2. Cardinality(done) \in Nat /\ Cardinality(Steps) \in Nat
  BY <1>1, FS_CardinalityType, ImportAssumption
<1>3. Cardinality(done) + 1 \in 1..Cardinality(Steps)
  BY <1>1, <1>2
<1> QED BY <1>3, ImportAssumption DEF NextOf

\* A worker that does nothing.
LEMMA FreeJob == Free \in Job /\ Free.at = "free"
<1>1. (CHOOSE i \in Imports : TRUE) \in Imports
  BY ImportAssumption
<1>2. "created" \in States
  BY StatesAre
<1> QED BY <1>1, <1>2 DEF Free, Job

\* One row changes, and one job.
LEMMA RowChange ==
  ASSUME TypeOK, NEW i \in Imports, NEW r \in Row, Put(i, r)
  PROVE  row' \in [Imports -> Row] /\ row'[i] = r /\ \A j \in Imports \ {i} : row'[j] = row[j]
BY DEF TypeOK, Put

\* Only the job of w changes.
LEMMA JobChange ==
  ASSUME TypeOK, NEW w \in Workers, NEW j \in Job, job' = [job EXCEPT ![w] = j]
  PROVE  job' \in [Workers -> Job] /\ job'[w] = j /\ \A v \in Workers \ {w} : job'[v] = job[v]
BY DEF TypeOK

\* A step on import i that keeps the row and the jobs on it.
LEMMA RowStep ==
  ASSUME TypeOK, WorkInv, NEW i \in Imports, NEW r \in Row, Put(i, r), NearOK(i), HistoryOK,
         \A k \in 1..Len(chain') : chain'[k] \in Link,
         RowFine(r, stage'[i], i \in stages', files'[i]),
         job' \in [Workers -> Job],
         \A v \in Workers : \/ job'[v].at = "free"
                            \/ job'[v].imp = i /\ JobFine(job'[v], r, stage'[i], i \in stages')
                            \/ job'[v].imp # i /\ job'[v] = job[v]
  PROVE  /\ TypeOK' /\ (\A j \in Imports : RowOK(j)') /\ (\A v \in Workers : JobOK(v)')
         /\ row'[i] = r /\ \A j \in Imports \ {i} : row'[j] = row[j]
<1>1. row' \in [Imports -> Row] /\ row'[i] = r /\ \A j \in Imports \ {i} : row'[j] = row[j]
  BY RowChange
<1>2. TypeOK'
  <2>1. \A j \in Imports \ stages' : stage'[j] = {}
    BY DEF TypeOK, NearOK
  <2> QED BY <1>1, <2>1 DEF TypeOK, NearOK, HistoryOK, Link
<1>3. \A j \in Imports : RowOK(j)'
  <2>1. RowOK(i)'
    BY <1>1 DEF RowOK
  <2>2. ASSUME NEW j \in Imports \ {i}
        PROVE  RowOK(j)'
    <3>1. /\ RowOK(j) /\ row'[j] = row[j] /\ stage'[j] = stage[j]
          /\ files'[j] = files[j] /\ (j \in stages' <=> j \in stages)
      BY <1>1 DEF WorkInv, NearOK
    <3> QED BY <3>1 DEF RowOK, RowFine
  <2> QED BY <2>1, <2>2
<1>4. ASSUME NEW v \in Workers
      PROVE  JobOK(v)'
  <2>1. CASE job'[v].at = "free"
    BY <2>1 DEF JobOK, JobFine, Preparing, Executing
  <2>2. CASE job'[v].imp = i /\ JobFine(job'[v], r, stage'[i], i \in stages')
    BY <1>1, <2>2 DEF JobOK
  <2>3. CASE job'[v].imp # i /\ job'[v] = job[v]
    <3> DEFINE j == job[v].imp
    <3>1. j \in Imports \ {i} /\ JobOK(v)
      BY <2>3 DEF TypeOK, Job, WorkInv
    <3>2. row'[j] = row[j] /\ stage'[j] = stage[j] /\ (j \in stages' <=> j \in stages)
      BY <1>1, <3>1 DEF NearOK
    <3> QED BY <2>3, <3>1, <3>2 DEF JobOK, JobFine
  <2> QED BY <2>1, <2>2, <2>3
<1> QED BY <1>1, <1>2, <1>3, <1>4

\* And the links it made.
LEMMA StepOn ==
  ASSUME TypeOK, WorkInv, NEW i \in Imports, NEW r \in Row, Put(i, r), OutsideOK(i), HistoryOK,
         RowFine(r, stage'[i], i \in stages', files'[i]),
         r.recon = "already" \/ r.state = "finalized" => Applied(r.export),
         job' \in [Workers -> Job], OneJob',
         \A v \in Workers : \/ job'[v].at = "free"
                            \/ job'[v].imp = i /\ JobFine(job'[v], r, stage'[i], i \in stages')
                            \/ job'[v].imp # i /\ job'[v] = job[v],
         \A k \in Links : chain[k].by = i =>
           /\ LinkFine(chain[k], r, i \in overtaken')
           /\ \A v \in Workers : job'[v].imp = i =>
                job'[v].at \notin Preparing /\ (job'[v].at \in Executing => i \in overtaken')
  PROVE  TypeOK' /\ WorkInv'
<1>1. /\ TypeOK' /\ (\A j \in Imports : RowOK(j)') /\ (\A v \in Workers : JobOK(v)')
      /\ row'[i] = r /\ \A j \in Imports \ {i} : row'[j] = row[j]
  BY RowStep DEF OutsideOK, TypeOK, Link
<1>2. ChainOK'
  BY <1>1 DEF WorkInv, ChainOK, OutsideOK, State, InChain, Applied
<1>3. ASSUME NEW k \in Links'
      PROVE  LinkOK(k)'
  <2>1. k \in Links /\ chain' = chain /\ chain[k].by \in Imports /\ LinkOK(k)
    BY DEF Links, OutsideOK, WorkInv
  <2>2. CASE chain[k].by = i
    BY <1>1, <2>1, <2>2 DEF LinkOK
  <2>3. CASE chain[k].by # i
    <3>1. \A v \in Workers : job'[v].imp = chain[k].by => job'[v].at = "free" \/ job'[v] = job[v]
      BY <2>3
    <3> QED BY <1>1, <2>1, <2>3, <3>1 DEF LinkOK, LinkFine, HistoryOK, Preparing, Executing
  <2> QED BY <2>2, <2>3
<1> QED BY <1>1, <1>2, <1>3 DEF WorkInv

\* The step of a job that has its import for itself, and of one that begins.
LEMMA SoleStep ==
  ASSUME TypeOK, WorkInv, NEW w \in Workers, NEW i \in Imports, SoleOn(w, i),
         NEW r \in Row, Put(i, r), NEW j \in Job, job' = [job EXCEPT ![w] = j], j.at = "free" \/ j.imp = i,
         Unlinked(i) \/ Onward(i, r, j),
         job[w].at \in Sole => job[w].imp = i,
         OutsideOK(i), HistoryOK,
         RowFine(r, stage'[i], i \in stages', files'[i]),
         r.recon = "already" \/ r.state = "finalized" => Applied(r.export),
         JobFine(j, r, stage'[i], i \in stages'),
         \A v \in Workers \ {w} : job[v].imp = i => JobFine(job[v], r, stage'[i], i \in stages')
  PROVE  TypeOK' /\ WorkInv'
<1>1. job' \in [Workers -> Job] /\ job'[w] = j /\ \A v \in Workers \ {w} : job'[v] = job[v]
  BY JobChange
<1>2. OneJob'
  BY <1>1 DEF WorkInv, OneJob, SoleOn, Sole, Preparing, Executing
<1>3. \A v \in Workers : \/ job'[v].at = "free"
                         \/ job'[v].imp = i /\ JobFine(job'[v], r, stage'[i], i \in stages')
                         \/ job'[v].imp # i /\ job'[v] = job[v]
  BY <1>1
<1>4. ASSUME NEW k \in Links, chain[k].by = i
      PROVE  /\ LinkFine(chain[k], r, i \in overtaken')
             /\ \A v \in Workers : job'[v].imp = i =>
                  job'[v].at \notin Preparing /\ (job'[v].at \in Executing => i \in overtaken')
  <2>1. Onward(i, r, j) /\ i \in overtaken' /\ LinkOK(k)
    BY <1>4 DEF Unlinked, Onward, Reopened, HistoryOK, WorkInv
  <2>2. \A v \in Workers : job'[v].imp = i => job'[v].at \notin Preparing
    BY <1>1, <1>4, <2>1 DEF Onward, LinkOK
  <2> QED BY <1>4, <2>1, <2>2 DEF Onward, LinkOK, LinkFine
<1> QED BY <1>1, <1>2, <1>3, <1>4, StepOn

\* What is known of a job that works.
LEMMA Working ==
  ASSUME TypeOK, WorkInv, NEW w \in Workers, job[w].at \in Sole
  PROVE  /\ job[w].imp \in Imports /\ row[job[w].imp] \in Row /\ job[w] \in Job
         /\ SoleOn(w, job[w].imp) /\ Reopened(job[w].imp)
         /\ job[w].at \in Preparing => Unlinked(job[w].imp)
         /\ \A v \in Workers \ {w} : job[v].imp = job[w].imp => job[v].at \in Beside
         /\ RowOK(job[w].imp) /\ JobOK(w)
         /\ row[job[w].imp].recon = "already" \/ State(job[w].imp) = "finalized"
              => Applied(row[job[w].imp].export)
<1>1. job[w].imp \in Imports /\ row[job[w].imp] \in Row /\ job \in [Workers -> Job]
  BY DEF TypeOK, Job
<1>2. SoleOn(w, job[w].imp)
  BY DEF WorkInv, OneJob, SoleOn
<1>3. Reopened(job[w].imp) /\ (job[w].at \in Preparing => Unlinked(job[w].imp))
  BY DEF WorkInv, LinkOK, Unlinked, Reopened, Sole
<1>4. \A v \in Workers : job[v].at \notin Sole => job[v].at \in Beside
  BY <1>1 DEF Job, Sole, Preparing, Executing, Beside
<1> QED BY <1>1, <1>2, <1>3, <1>4 DEF WorkInv, ChainOK, SoleOn, InChain, Applied

\* A job may start where no other works.
LEMMA Starting ==
  ASSUME TypeOK, WorkInv, NEW w \in Workers, NEW i \in Imports, MayStart(w, i),
         State(i) \notin {"finalized", "discarded"}
  PROVE  /\ row[i] \in Row /\ job[w].at \notin Sole
         /\ SoleOn(w, i) /\ Reopened(i) /\ (State(i) \in Early => Unlinked(i))
         /\ \A v \in Workers \ {w} : job[v].imp = i => job[v].at \in Beside
         /\ RowOK(i)
         /\ row[i].recon = "already" => Applied(row[i].export)
<1>1. row[i] \in Row
  BY DEF TypeOK
<1>2. Reopened(i) /\ (State(i) \in Early => Unlinked(i))
  BY DEF WorkInv, LinkOK, LinkFine, State, Unlinked, Reopened
<1> QED BY <1>1, <1>2 DEF WorkInv, ChainOK, InChain, Applied, MayStart, SoleOn, Sole, Preparing,
  Executing, Beside

\* A discard or an approval that is under way asks nothing of the row.
LEMMA DiscardFine ==
  ASSUME WorkInv, NEW v \in Workers, job[v].at \in Beside
  PROVE  \A r, s, here : JobFine(job[v], r, s, here)
BY DEF WorkInv, JobOK, JobFine, Preparing, Executing, Beside

\* A step may leave everything outside of the row alone,
LEMMA Untouched ==
  ASSUME TypeOK, UNCHANGED outside, NEW i \in Imports
  PROVE  OutsideOK(i)
BY DEF TypeOK, OutsideOK, NearOK, outside

\* and what is told of the past.
LEMMA HistoryKept ==
  ASSUME TypeOK, UNCHANGED history \/ (UNCHANGED <<stopped, overtaken>> /\ (Fault \/ UNCHANGED faults))
  PROVE  HistoryOK
<1>1. Fault => faults' \in 0..MaxFaults
  BY ImportAssumption DEF Fault, TypeOK
<1> QED BY <1>1 DEF TypeOK, HistoryOK, history

\* A late commit tells that it came late.
LEMMA LateKept ==
  ASSUME TypeOK, NEW w \in Workers, Late(w), UNCHANGED <<faults, stopped>>
  PROVE  HistoryOK
BY DEF TypeOK, HistoryOK, Late, Job

\* The same, for a step inside of the row and the job.
LEMMA InnerStep ==
  ASSUME TypeOK, WorkInv, NEW w \in Workers, NEW i \in Imports, SoleOn(w, i),
         NEW r \in Row, Put(i, r), NEW j \in Job, job' = [job EXCEPT ![w] = j], j.at = "free" \/ j.imp = i,
         Unlinked(i) \/ Onward(i, r, j),
         job[w].at \in Sole => job[w].imp = i,
         UNCHANGED outside, HistoryOK,
         RowFine(r, stage[i], i \in stages, files[i]),
         r.recon = "already" \/ r.state = "finalized" => Applied(r.export),
         JobFine(j, r, stage[i], i \in stages),
         \A v \in Workers \ {w} : job[v].imp = i => job[v].at \in Beside
  PROVE  TypeOK' /\ WorkInv'
<1>1. OutsideOK(i) /\ stage' = stage /\ stages' = stages /\ files' = files
  BY Untouched DEF outside
<1>2. \A v \in Workers \ {w} : job[v].imp = i => JobFine(job[v], r, stage'[i], i \in stages')
  BY DiscardFine
<1> QED BY <1>1, <1>2, SoleStep

\* A fetch and a verification begin before anything is loaded.
LEMMA BeginStep ==
  ASSUME TypeOK, WorkInv, NEW w \in Workers, NEW i \in Imports,
         NEW from \in {"created", "quarantined"}, NEW during \in {"fetching", "verifying"},
         NEW at \in {"fetch", "verify"}, begin(w, i, from, during, at)
  PROVE  TypeOK' /\ WorkInv'
<1> DEFINE r == [row[i] EXCEPT !.state = during]
           j == [Free EXCEPT !.at = at, !.imp = i, !.seen = during]
<1>1. MayStart(w, i) /\ State(i) = from /\ Put(i, r) /\ job' = [job EXCEPT ![w] = j] /\ UNCHANGED <<outside, history>>
  BY DEF begin, To
<1>2. /\ row[i] \in Row /\ job[w].at \notin Sole /\ SoleOn(w, i) /\ Unlinked(i) /\ RowOK(i)
      /\ \A v \in Workers \ {w} : job[v].imp = i => job[v].at \in Beside
      /\ row[i].recon = "already" => Applied(row[i].export)
  BY <1>1, Starting DEF Early
<1>3. /\ r \in Row /\ r.state = during /\ r.staging = row[i].staging /\ r.done = row[i].done
      /\ r.recon = row[i].recon /\ r.export = row[i].export
  BY <1>2, StatesAre DEF Row
<1>4. j \in Job /\ j.at = at /\ j.imp = i
  BY FreeJob, StatesAre DEF Job
<1> HIDE DEF r, j
<1>5. ~r.staging
  BY <1>1, <1>2, <1>3 DEF RowOK, RowFine, Early, State
<1>6. RowFine(r, stage[i], i \in stages, files[i])
  BY <1>2, <1>3, <1>5 DEF RowOK, RowFine, Past
<1>7. JobFine(j, r, stage[i], i \in stages)
  BY <1>4, <1>5 DEF JobFine, Preparing, Executing
<1>8. HistoryOK
  BY <1>1, HistoryKept
<1> QED BY <1>1, <1>2, <1>3, <1>4, <1>6, <1>7, <1>8, InnerStep, ZenonT(60)

\* The archive is there, or it is verified: of an import that nothing was loaded from.
LEMMA FetchedStep ==
  ASSUME TypeOK, WorkInv, NEW w \in Workers, fetched(w)
  PROVE  TypeOK' /\ WorkInv'
<1> DEFINE i == job[w].imp
           r == [row[i] EXCEPT !.state = "quarantined"]
<1>1. job[w].at = "fetch" /\ Put(i, r) /\ job' = [job EXCEPT ![w] = Free]
  BY DEF fetched, To, Ends
<1>2. job[w].at \in Sole
  BY <1>1 DEF Sole, Preparing
<1>3. /\ i \in Imports /\ row[i] \in Row /\ SoleOn(w, i) /\ Unlinked(i) /\ RowOK(i) /\ JobOK(w)
      /\ \A v \in Workers \ {w} : job[v].imp = i => job[v].at \in Beside
      /\ row[i].recon = "already" => Applied(row[i].export)
  BY <1>1, <1>2, Working DEF Preparing
<1>4. /\ r \in Row /\ r.state = "quarantined" /\ r.staging = row[i].staging /\ r.done = row[i].done
      /\ r.recon = row[i].recon /\ r.export = row[i].export
  BY <1>3, StatesAre DEF Row
<1> HIDE DEF r, i
<1>5. ~r.staging
  BY <1>1, <1>3, <1>4 DEF JobOK, JobFine, Preparing, i
<1>6. OutsideOK(i) /\ stage' = stage /\ stages' = stages
  BY <1>3 DEF fetched, TypeOK, OutsideOK, NearOK, i
<1>7. HistoryOK
  BY LateKept DEF fetched
<1>8. RowFine(r, stage'[i], i \in stages', files'[i])
  BY <1>3, <1>4, <1>5, <1>6 DEF RowOK, RowFine, Past
<1>9. \A v \in Workers \ {w} : job[v].imp = i => JobFine(job[v], r, stage'[i], i \in stages')
  BY <1>3, DiscardFine
<1>10. JobFine(Free, r, stage'[i], i \in stages')
  BY FreeJob DEF JobFine, Preparing, Executing
<1>11. job[w].imp = i
  BY DEF i
<1> QED BY <1>1, <1>3, <1>4, <1>6, <1>7, <1>8, <1>9, <1>10, <1>11, FreeJob, SoleStep

\* A verification ends where it began: nothing was loaded since.
LEMMA VerifiedStep ==
  ASSUME TypeOK, WorkInv, NEW w \in Workers, verified(w)
  PROVE  TypeOK' /\ WorkInv'
<1> DEFINE i == job[w].imp
           r == [row[i] EXCEPT !.state = "dry_run_ready"]
<1>1. job[w].at = "verify" /\ Put(i, r) /\ job' = [job EXCEPT ![w] = Free] /\ UNCHANGED outside
  BY DEF verified, To, Ends
<1>2. job[w].at \in Sole
  BY <1>1 DEF Sole, Preparing
<1>3. /\ i \in Imports /\ row[i] \in Row /\ SoleOn(w, i) /\ Unlinked(i) /\ RowOK(i) /\ JobOK(w)
      /\ \A v \in Workers \ {w} : job[v].imp = i => job[v].at \in Beside
      /\ row[i].recon = "already" => Applied(row[i].export)
  BY <1>1, <1>2, Working DEF Preparing
<1>4. /\ r \in Row /\ r.state = "dry_run_ready" /\ r.staging = row[i].staging /\ r.done = row[i].done
      /\ r.recon = row[i].recon /\ r.export = row[i].export
  BY <1>3, StatesAre DEF Row
<1> HIDE DEF r
<1>5. ~r.staging
  BY <1>1, <1>3, <1>4 DEF JobOK, JobFine, Preparing
<1>6. HistoryOK
  BY LateKept DEF verified
<1>7. RowFine(r, stage[i], i \in stages, files[i])
  BY <1>3, <1>4, <1>5 DEF RowOK, RowFine, Past
<1>8. JobFine(Free, r, stage[i], i \in stages)
  BY FreeJob DEF JobFine, Preparing, Executing
<1> QED BY <1>1, <1>3, <1>4, <1>6, <1>7, <1>8, FreeJob, InnerStep, ZenonT(60)

\* A dry run keeps in mind the state it began in.
LEMMA DryRunStep ==
  ASSUME TypeOK, WorkInv, NEW w \in Workers, NEW i \in Imports, NEW d \in Decisions, dryRun(w, i, d)
  PROVE  TypeOK' /\ WorkInv'
<1> DEFINE r == row[i]
           j == [Free EXCEPT !.at = "dry", !.imp = i, !.seen = State(i), !.decisions = d]
<1>1. /\ MayStart(w, i) /\ State(i) \in {"dry_run_ready", "awaiting_approval"}
      /\ job' = [job EXCEPT ![w] = j] /\ row' = row /\ UNCHANGED outside /\ UNCHANGED history
  BY DEF dryRun, MayDryRun
<1>2. /\ row[i] \in Row /\ job[w].at \notin Sole /\ SoleOn(w, i) /\ Unlinked(i) /\ RowOK(i)
      /\ \A v \in Workers \ {w} : job[v].imp = i => job[v].at \in Beside
      /\ row[i].recon = "already" => Applied(row[i].export)
  BY <1>1, Starting DEF Early
<1>3. Put(i, r)
  BY <1>1 DEF Put, TypeOK
<1>4. j \in Job /\ j.at = "dry" /\ j.imp = i /\ j.seen = State(i)
  BY <1>1, FreeJob, StatesAre DEF Job
<1> HIDE DEF j
<1>5. RowFine(r, stage[i], i \in stages, files[i])
  BY <1>2 DEF RowOK
<1>6. JobFine(j, r, stage[i], i \in stages)
  BY <1>1, <1>2, <1>4 DEF RowOK, RowFine, JobFine, Preparing, Executing, Early, State
<1>7. HistoryOK
  BY <1>1, HistoryKept
<1>8. r \in Row /\ (r.recon = "already" \/ r.state = "finalized" => Applied(r.export))
  BY <1>1, <1>2 DEF State
<1> HIDE DEF r
<1>9. /\ job' = [job EXCEPT ![w] = j] /\ UNCHANGED outside /\ job[w].at \notin Sole /\ SoleOn(w, i) /\ Unlinked(i)
      /\ \A v \in Workers \ {w} : job[v].imp = i => job[v].at \in Beside
  BY <1>1, <1>2
<1> QED BY <1>3, <1>4, <1>5, <1>6, <1>7, <1>8, <1>9, InnerStep, ZenonT(60)

\* At its end the row waits for an approval again, or is where it was before anybody approved.
LEMMA DryRunEndStep ==
  ASSUME TypeOK, WorkInv, NEW w \in Workers, dryRunEnd(w)
  PROVE  TypeOK' /\ WorkInv'
<1> DEFINE i == job[w].imp
<1>1. job[w].at = "dry" /\ job' = [job EXCEPT ![w] = Free] /\ UNCHANGED outside
  BY DEF dryRunEnd, Ends
<1>2. job[w].at \in Sole
  BY <1>1 DEF Sole, Preparing
<1>3. /\ i \in Imports /\ row[i] \in Row /\ SoleOn(w, i) /\ Unlinked(i) /\ RowOK(i) /\ JobOK(w) /\ job[w] \in Job
      /\ \A v \in Workers \ {w} : job[v].imp = i => job[v].at \in Beside
      /\ row[i].recon = "already" => Applied(row[i].export)
  BY <1>1, <1>2, Working DEF Preparing
<1>4. PICK s \in {"awaiting_approval", "dry_run_ready", "discarded", "approved"} :
        /\ Put(i, [row[i] EXCEPT !.decisions = job[w].decisions, !.state = s])
        /\ s = "approved" => row[i].approved = "unread"
  <2> DEFINE r == [row[i] EXCEPT !.decisions = job[w].decisions]
  <2>1. r = [row[i] EXCEPT !.decisions = job[w].decisions, !.state = row[i].state]
    BY <1>3 DEF Row
  <2>2. \A s : [r EXCEPT !.state = s] = [row[i] EXCEPT !.decisions = job[w].decisions, !.state = s]
    BY <1>3 DEF Row
  <2>3. \/ Put(i, [r EXCEPT !.state = "awaiting_approval"])
        \/ Put(i, [r EXCEPT !.state = "dry_run_ready"])
        \/ job[w].seen # "awaiting_approval" /\ Put(i, r)
    BY DEF dryRunEnd
  <2>4. job[w].seen # "awaiting_approval" => \/ row[i].state \in {"dry_run_ready", "discarded"}
                                             \/ row[i].state = "approved" /\ row[i].approved = "unread"
    BY <1>1, <1>3 DEF JobOK, JobFine, Preparing
  <2> HIDE DEF r
  <2> QED BY <2>1, <2>2, <2>3, <2>4
<1> DEFINE r == [row[i] EXCEPT !.decisions = job[w].decisions, !.state = s]
<1>5. /\ r \in Row /\ r.state = s /\ r.staging = row[i].staging /\ r.done = row[i].done
      /\ r.recon = row[i].recon /\ r.export = row[i].export /\ r.approved = row[i].approved
  <2>1. job[w].decisions \in Decisions \cup {"none"} /\ s \in States
    BY <1>3, StatesAre DEF Job
  <2>2. r \in Row
    BY <1>3, <2>1 DEF Row
  <2>3. /\ r.state = s /\ r.staging = row[i].staging /\ r.done = row[i].done
        /\ r.recon = row[i].recon /\ r.export = row[i].export /\ r.approved = row[i].approved
    BY <1>3 DEF Row
  <2> QED BY <2>2, <2>3
<1>6. Put(i, r)
  BY <1>4
<1> HIDE DEF r
<1>7. ~r.staging
  BY <1>1, <1>3, <1>5 DEF JobOK, JobFine, Preparing
<1>8. HistoryOK
  BY LateKept DEF dryRunEnd
<1>9. RowFine(r, stage[i], i \in stages, files[i])
  BY <1>3, <1>4, <1>5, <1>7 DEF RowOK, RowFine, Past
<1>10. JobFine(Free, r, stage[i], i \in stages)
  BY FreeJob DEF JobFine, Preparing, Executing
<1>11. r.state # "finalized"
  BY <1>5
<1> QED BY <1>1, <1>3, <1>5, <1>6, <1>8, <1>9, <1>10, <1>11, FreeJob, InnerStep, ZenonT(60)

\* From here on the import is past its approval.
LEMMA ExecuteStep ==
  ASSUME TypeOK, WorkInv, NEW w \in Workers, NEW i \in Imports, execute(w, i)
  PROVE  TypeOK' /\ WorkInv'
<1> DEFINE r == [row[i] EXCEPT !.state = "importing"]
           j == [Free EXCEPT !.at = "check", !.imp = i, !.seen = State(i)]
<1>1. /\ MayStart(w, i) /\ State(i) \in {"approved", "importing", "failed"}
      /\ Put(i, r) /\ job' = [job EXCEPT ![w] = j] /\ UNCHANGED <<outside, history>>
  BY DEF execute, MayExecute, To, Goes
<1>2. /\ row[i] \in Row /\ job[w].at \notin Sole /\ SoleOn(w, i) /\ Reopened(i) /\ RowOK(i)
      /\ \A v \in Workers \ {w} : job[v].imp = i => job[v].at \in Beside
      /\ row[i].recon = "already" => Applied(row[i].export)
  BY <1>1, Starting
<1>3. /\ r \in Row /\ r.state = "importing" /\ r.staging = row[i].staging /\ r.done = row[i].done
      /\ r.recon = row[i].recon /\ r.export = row[i].export
      /\ r.decisions = row[i].decisions /\ r.approved = row[i].approved
  BY <1>2, StatesAre DEF Row
<1>4. j \in Job /\ j.at = "check" /\ j.imp = i
  BY <1>1, FreeJob, StatesAre DEF Job
<1> HIDE DEF r, j
<1>5. r.approved \in {r.decisions, "unread"}
  BY <1>1, <1>2, <1>3 DEF RowOK, RowFine, Past, State
<1>6. RowFine(r, stage[i], i \in stages, files[i])
  BY <1>2, <1>3, <1>5 DEF RowOK, RowFine, Early
<1>7. JobFine(j, r, stage[i], i \in stages)
  BY <1>3, <1>4, <1>5 DEF JobFine, Preparing, Early
<1>8. HistoryOK
  BY <1>1, HistoryKept
<1>9. Onward(i, r, j)
  BY <1>2, <1>3, <1>4 DEF Onward, Early, Preparing
<1> QED BY <1>1, <1>2, <1>3, <1>4, <1>6, <1>7, <1>8, <1>9, InnerStep, ZenonT(60)

\* A job that executes keeps what was approved, and that it loads into a staging database.
LEMMA ExecutingStep ==
  ASSUME TypeOK, WorkInv, NEW w \in Workers, job[w].at \in Executing, UNCHANGED outside, HistoryOK,
         NEW r \in Row, Put(job[w].imp, r), NEW j \in Job, job' = [job EXCEPT ![w] = j],
         j.at = "free" \/ (j.at \in Executing \ {"save"} /\ j.imp = job[w].imp),
         j.at \in {"load", "rebuild", "reconcile"} => r.staging,
         r.state \notin Early,
         r.decisions = row[job[w].imp].decisions, r.approved = row[job[w].imp].approved,
         r.staging = row[job[w].imp].staging,
         \/ r.done = row[job[w].imp].done
         \/ job[w].at = "save" /\ r.done = row[job[w].imp].done \cup {NextOf(row[job[w].imp].done)},
         r.recon = "already" \/ r.state = "finalized" => Applied(r.export)
  PROVE  TypeOK' /\ WorkInv'
<1> DEFINE i == job[w].imp
<1>1. job[w].at \in Sole
  BY DEF Sole
<1>2. /\ i \in Imports /\ SoleOn(w, i) /\ Reopened(i) /\ RowOK(i) /\ JobOK(w)
      /\ \A v \in Workers \ {w} : job[v].imp = i => job[v].at \in Beside
  BY <1>1, Working
<1>3. r.approved \in {r.decisions, "unread"}
  BY <1>2 DEF JobOK, JobFine
<1>4. RowFine(r, stage[i], i \in stages, files[i])
  BY <1>2, <1>3 DEF RowOK, RowFine, JobOK, JobFine
<1>5. JobFine(j, r, stage[i], i \in stages)
  BY <1>3 DEF JobFine, Preparing, Executing
<1>6. job[w].imp = i
  OBVIOUS
<1>7. Put(i, r) /\ (j.at = "free" \/ j.imp = i)
  OBVIOUS
<1>8. Onward(i, r, j)
  BY <1>2 DEF Onward, Preparing, Executing
<1> HIDE DEF i
<1> QED BY <1>2, <1>4, <1>5, <1>6, <1>7, <1>8, InnerStep, ZenonT(60)

\* What a job at a place says of its import.
LEMMA AtWork ==
  ASSUME TypeOK, WorkInv, NEW w \in Workers, job[w].at \in Executing
  PROVE  /\ job[w].imp \in Imports /\ row[job[w].imp] \in Row /\ job[w] \in Job
         /\ row[job[w].imp].state \notin Early
         /\ job[w].at \in {"load", "save", "rebuild", "reconcile"} => row[job[w].imp].staging
         /\ row[job[w].imp].recon = "already" \/ row[job[w].imp].state = "finalized"
              => Applied(row[job[w].imp].export)
<1>1. job[w].at \in Sole
  BY DEF Sole
<1> QED BY <1>1, Working DEF JobOK, JobFine, State

\* The next place of a job.
LEMMA FreeIsJob ==
  ASSUME NEW w, Ends(w)
  PROVE  job' = [job EXCEPT ![w] = Free] /\ Free \in Job /\ Free.at = "free"
BY FreeJob DEF Ends

\* A job that goes on keeps its import.
LEMMA AtIsJob ==
  ASSUME TypeOK, NEW w \in Workers,
         NEW at \in {"stage", "load", "save", "rebuild", "reconcile"}, At(w, at)
  PROVE  \E j \in Job : job' = [job EXCEPT ![w] = j] /\ j.at = at /\ j.imp = job[w].imp
<1> DEFINE j == [job[w] EXCEPT !.at = at]
<1>1. job[w] \in Job
  BY DEF TypeOK
<1>2. j \in Job /\ j.at = at /\ j.imp = job[w].imp
  BY <1>1 DEF Job
<1>3. job' = [job EXCEPT ![w] = j]
  BY DEF At
<1> QED BY <1>2, <1>3

\* An export that is applied already makes the import ready at once.
LEMMA CheckStep ==
  ASSUME TypeOK, WorkInv, NEW w \in Workers, check(w)
  PROVE  TypeOK' /\ WorkInv'
<1> DEFINE i == job[w].imp
<1>1. job[w].at = "check" /\ job[w].at \in Executing /\ UNCHANGED outside /\ HistoryOK
  BY HistoryKept DEF check, Executing
<1>2. /\ i \in Imports /\ row[i] \in Row /\ row[i].state \notin Early
      /\ row[i].recon = "already" \/ row[i].state = "finalized" => Applied(row[i].export)
  BY <1>1, AtWork
<1>3. CASE UNCHANGED row
  <2>1. Put(i, row[i])
    BY <1>3 DEF Put, TypeOK
  <2>2. PICK j \in Job : job' = [job EXCEPT ![w] = j] /\ (j.at = "free" \/ (j.at = "stage" /\ j.imp = i))
    BY AtIsJob, FreeIsJob DEF check
  <2> QED BY <1>1, <1>2, <2>1, <2>2, ExecutingStep DEF Executing
<1>4. CASE Applied(row[i].export) /\ Ends(w) /\ Put(i, [row[i] EXCEPT !.state = "ready_to_finalize", !.recon = "already"])
  <2> DEFINE r == [row[i] EXCEPT !.state = "ready_to_finalize", !.recon = "already"]
  <2>1. /\ r \in Row /\ r.state = "ready_to_finalize" /\ r.export = row[i].export /\ r.done = row[i].done
        /\ r.decisions = row[i].decisions /\ r.approved = row[i].approved /\ r.staging = row[i].staging
    BY <1>2, StatesAre DEF Row
  <2>2. Put(i, r)
    BY <1>4
  <2> HIDE DEF r
  <2>3. r.state \notin Early
    BY <2>1 DEF Early
  <2> QED BY <1>1, <1>4, <2>1, <2>2, <2>3, FreeIsJob, ExecutingStep DEF Executing
<1> QED BY <1>3, <1>4 DEF check

\* The staging database is made once, before anything is loaded.
LEMMA MakeStagingStep ==
  ASSUME TypeOK, WorkInv, NEW w \in Workers, makeStaging(w)
  PROVE  TypeOK' /\ WorkInv'
<1> DEFINE i == job[w].imp
           r == [row[i] EXCEPT !.staging = TRUE]
<1>1. /\ job[w].at = "stage" /\ job[w].at \in Sole /\ Put(i, r) /\ At(w, "load")
      /\ stages' = IF row[i].staging THEN stages ELSE stages \cup {i}
      /\ UNCHANGED <<files, stage, chain, history>>
  BY DEF makeStaging, Sole, Executing
<1>2. /\ i \in Imports /\ row[i] \in Row /\ SoleOn(w, i) /\ Reopened(i) /\ RowOK(i) /\ JobOK(w)
      /\ \A v \in Workers \ {w} : job[v].imp = i => job[v].at \in Beside
      /\ row[i].recon = "already" \/ row[i].state = "finalized" => Applied(row[i].export)
  BY <1>1, Working DEF State
<1>3. /\ r \in Row /\ r.staging /\ r.state = row[i].state /\ r.done = row[i].done /\ r.recon = row[i].recon
      /\ r.export = row[i].export /\ r.decisions = row[i].decisions /\ r.approved = row[i].approved
  BY <1>2 DEF Row
<1>4. PICK j \in Job : job' = [job EXCEPT ![w] = j] /\ j.at = "load" /\ j.imp = i
  BY <1>1, AtIsJob
<1>5. job[w].imp = i
  OBVIOUS
<1>6. Put(i, r)
  BY <1>1
<1>7. r.state \notin Early /\ r.approved \in {r.decisions, "unread"}
  BY <1>1, <1>2, <1>3 DEF JobOK, JobFine, Executing
<1>8. OutsideOK(i)
  BY <1>1, <1>2 DEF OutsideOK, NearOK, TypeOK
<1>9. RowFine(r, stage'[i], i \in stages', files'[i])
  BY <1>1, <1>2, <1>3, <1>7 DEF RowOK, RowFine
<1> HIDE DEF r, i
<1>10. JobFine(j, r, stage'[i], i \in stages')
  BY <1>3, <1>4, <1>7 DEF JobFine, Preparing, Executing
<1>11. \A v \in Workers \ {w} : job[v].imp = i => JobFine(job[v], r, stage'[i], i \in stages')
  BY <1>2, DiscardFine
<1>12. HistoryOK
  BY <1>1, HistoryKept
<1>13. Onward(i, r, j)
  BY <1>2, <1>3, <1>4, <1>7 DEF Onward, Preparing
<1> QED BY <1>2, <1>3, <1>4, <1>5, <1>6, <1>8, <1>13, <1>9, <1>10, <1>11, <1>12, SoleStep

\* A step is committed in the staging database before it is a checkpoint.
LEMMA LoadStep ==
  ASSUME TypeOK, WorkInv, NEW w \in Workers, load(w)
  PROVE  TypeOK' /\ WorkInv'
<1> DEFINE i == job[w].imp
           s == NextOf(row[i].done)
           j == [job[w] EXCEPT !.at = "save", !.loose = @ \cup ({s} \cap Loose)]
<1>1. /\ job[w].at = "load" /\ job[w].at \in Sole /\ row[i].done # Steps /\ i \in stages
      /\ stage' = [stage EXCEPT ![i] = @ \cup {s}]
      /\ UNCHANGED <<row, files, stages, chain, history>>
  BY DEF load, Loadable, Sole, Executing
<1>2. /\ i \in Imports /\ row[i] \in Row /\ SoleOn(w, i) /\ Reopened(i) /\ RowOK(i) /\ JobOK(w) /\ job[w] \in Job
      /\ \A v \in Workers \ {w} : job[v].imp = i => job[v].at \in Beside
      /\ row[i].recon = "already" \/ row[i].state = "finalized" => Applied(row[i].export)
  BY <1>1, Working DEF State
<1>3. row[i].done \in SUBSET Steps
  BY <1>2 DEF Row
<1>4. s \in Steps
  BY <1>1, <1>3, NextIsStep
<1>5. j \in Job /\ j.at = "save" /\ j.imp = i
  BY <1>2 DEF Job
<1>6. job' = [job EXCEPT ![w] = j]
  BY <1>2 DEF load, TypeOK, Job
<1>7. Put(i, row[i])
  BY <1>1 DEF Put, TypeOK
<1>8. job[w].imp = i
  OBVIOUS
<1> HIDE DEF j
<1>9. OutsideOK(i) /\ s \in stage'[i] /\ stage[i] \subseteq stage'[i] /\ stages' = stages /\ files' = files
  BY <1>1, <1>2, <1>4 DEF OutsideOK, NearOK, TypeOK
<1>10. RowFine(row[i], stage'[i], i \in stages', files'[i])
  BY <1>2, <1>9 DEF RowOK, RowFine
<1>11. JobFine(j, row[i], stage'[i], i \in stages')
  BY <1>1, <1>2, <1>4, <1>5, <1>9 DEF JobOK, JobFine, Preparing, Executing
<1>12. \A v \in Workers \ {w} : job[v].imp = i => JobFine(job[v], row[i], stage'[i], i \in stages')
  BY <1>2, DiscardFine
<1>13. HistoryOK
  BY <1>1, HistoryKept
<1>14. Onward(i, row[i], j)
  BY <1>1, <1>2, <1>5 DEF Onward, JobOK, JobFine, Preparing, Executing
<1> HIDE DEF i
<1> QED BY <1>14, <1>2, <1>5, <1>6, <1>7, <1>8, <1>9, <1>10, <1>11, <1>12, <1>13, SoleStep

\* The checkpoint is of a step that is staged, unless its staging database is gone.
LEMMA SaveStep ==
  ASSUME TypeOK, WorkInv, NEW w \in Workers, save(w)
  PROVE  TypeOK' /\ WorkInv'
<1> DEFINE i == job[w].imp
           r == [row[i] EXCEPT !.done = @ \cup {NextOf(@)}]
<1>1. job[w].at = "save" /\ job[w].at \in Executing /\ Put(i, r) /\ UNCHANGED outside /\ HistoryOK
  BY HistoryKept DEF save, Executing
<1>2. /\ i \in Imports /\ row[i] \in Row /\ row[i].state \notin Early /\ row[i].staging
      /\ row[i].recon = "already" \/ row[i].state = "finalized" => Applied(row[i].export)
  BY <1>1, AtWork
<1>3. NextOf(row[i].done) \in Steps
  BY <1>1 DEF WorkInv, JobOK, JobFine
<1>4. /\ r \in Row /\ r.state = row[i].state /\ r.export = row[i].export /\ r.recon = row[i].recon
      /\ r.decisions = row[i].decisions /\ r.approved = row[i].approved /\ r.staging = row[i].staging
      /\ r.done = row[i].done \cup {NextOf(row[i].done)}
  BY <1>2, <1>3 DEF Row
<1>5. PICK j \in Job : job' = [job EXCEPT ![w] = j] /\ j.at = "load" /\ j.imp = i
  BY AtIsJob DEF save
<1> HIDE DEF r
<1> QED BY <1>1, <1>2, <1>4, <1>5, ExecutingStep DEF Executing

\* What was deferred is written down as the rebuild begins.
LEMMA LoadedStep ==
  ASSUME TypeOK, WorkInv, NEW w \in Workers, loaded(w)
  PROVE  TypeOK' /\ WorkInv'
<1> DEFINE i == job[w].imp
<1>1. job[w].at = "load" /\ job[w].at \in Executing /\ UNCHANGED outside /\ HistoryOK
  BY HistoryKept DEF loaded, Executing
<1>2. /\ i \in Imports /\ row[i] \in Row /\ row[i].state \notin Early /\ row[i].staging /\ job[w] \in Job
      /\ row[i].recon = "already" \/ row[i].state = "finalized" => Applied(row[i].export)
  BY <1>1, AtWork
<1>3. PICK s \in {row[i].state, "rebuilding", "failed"} :
        Put(i, [row[i] EXCEPT !.explained = @ \cup job[w].loose, !.state = s])
  <2> DEFINE r == [row[i] EXCEPT !.explained = @ \cup job[w].loose]
  <2>1. r.state = row[i].state
    BY <1>2 DEF Row
  <2>2. \A s : [r EXCEPT !.state = s] = [row[i] EXCEPT !.explained = @ \cup job[w].loose, !.state = s]
    BY <1>2 DEF Row
  <2>3. \/ Put(i, [r EXCEPT !.state = "rebuilding"])
        \/ Put(i, [r EXCEPT !.state = FailTo(r.state, "failed")])
    BY DEF loaded
  <2> HIDE DEF r
  <2> QED BY <2>1, <2>2, <2>3 DEF FailTo
<1> DEFINE r == [row[i] EXCEPT !.explained = @ \cup job[w].loose, !.state = s]
<1>4. /\ r \in Row /\ r.state = s /\ r.export = row[i].export /\ r.recon = row[i].recon
      /\ r.decisions = row[i].decisions /\ r.approved = row[i].approved /\ r.staging = row[i].staging
      /\ r.done = row[i].done
  BY <1>2, StatesAre DEF Row, Job
<1>5. Put(i, r)
  BY <1>3
<1>6. PICK j \in Job : job' = [job EXCEPT ![w] = j] /\ (j.at = "free" \/ (j.at = "rebuild" /\ j.imp = i))
  BY AtIsJob, FreeIsJob DEF loaded
<1> HIDE DEF r
<1>7. r.state \notin Early /\ (r.recon = "already" \/ r.state = "finalized" => Applied(r.export))
  BY <1>2, <1>4 DEF Early
<1> QED BY <1>1, <1>2, <1>4, <1>5, <1>6, <1>7, ExecutingStep DEF Executing

\* The rebuild of what is loaded.
LEMMA RebuiltStep ==
  ASSUME TypeOK, WorkInv, NEW w \in Workers, rebuilt(w)
  PROVE  TypeOK' /\ WorkInv'
<1> DEFINE i == job[w].imp
<1>1. job[w].at = "rebuild" /\ job[w].at \in Executing /\ UNCHANGED outside /\ HistoryOK
  BY HistoryKept DEF rebuilt, Executing
<1>2. /\ i \in Imports /\ row[i] \in Row /\ row[i].state \notin Early /\ row[i].staging /\ job[w] \in Job
      /\ row[i].recon = "already" \/ row[i].state = "finalized" => Applied(row[i].export)
  BY <1>1, AtWork
<1>3. PICK s \in {row[i].state, "reconciling", "failed"} : Put(i, [row[i] EXCEPT !.state = s])
  BY DEF rebuilt, To, State, FailTo
<1> DEFINE r == [row[i] EXCEPT !.state = s]
<1>4. /\ r \in Row /\ r.state = s /\ r.export = row[i].export /\ r.recon = row[i].recon
      /\ r.decisions = row[i].decisions /\ r.approved = row[i].approved /\ r.staging = row[i].staging
      /\ r.done = row[i].done
  BY <1>2, StatesAre DEF Row
<1>5. Put(i, r)
  BY <1>3
<1>6. PICK j \in Job : job' = [job EXCEPT ![w] = j] /\ (j.at = "free" \/ (j.at = "reconcile" /\ j.imp = i))
  <2> DEFINE j == [job[w] EXCEPT !.at = "reconcile", !.seen = "reconciling"]
  <2>1. j \in Job /\ j.at = "reconcile" /\ j.imp = i
    BY <1>2, StatesAre DEF Job
  <2>2. CASE job' = [job EXCEPT ![w].at = "reconcile", ![w].seen = "reconciling"]
    <3>1. job' = [job EXCEPT ![w] = j]
      BY <1>2, <2>2 DEF Job, TypeOK
    <3> HIDE DEF j
    <3> QED BY <2>1, <3>1
  <2>3. CASE Ends(w)
    BY <2>3, FreeIsJob
  <2> QED BY <2>2, <2>3 DEF rebuilt
<1> HIDE DEF r
<1>7. r.state \notin Early /\ (r.recon = "already" \/ r.state = "finalized" => Applied(r.export))
  BY <1>2, <1>4 DEF Early
<1> QED BY <1>1, <1>2, <1>4, <1>5, <1>6, <1>7, ExecutingStep DEF Executing

\* The result of the reconciliation is never "already".
LEMMA ReconciledStep ==
  ASSUME TypeOK, WorkInv, NEW w \in Workers, reconciled(w)
  PROVE  TypeOK' /\ WorkInv'
<1> DEFINE i == job[w].imp
<1>1. job[w].at = "reconcile" /\ job[w].at \in Executing /\ UNCHANGED outside /\ HistoryOK
  BY LateKept DEF reconciled, Executing
<1>2. /\ i \in Imports /\ row[i] \in Row
      /\ row[i].recon = "already" \/ row[i].state = "finalized" => Applied(row[i].export)
  BY <1>1, AtWork
<1>3. PICK s \in {"ready_to_finalize", "failed"}, c \in {"passed", "failed"} :
        Put(i, [row[i] EXCEPT !.state = s, !.recon = c])
  BY DEF reconciled
<1> DEFINE r == [row[i] EXCEPT !.state = s, !.recon = c]
<1>4. /\ r \in Row /\ r.state = s /\ r.export = row[i].export /\ r.recon = c
      /\ r.decisions = row[i].decisions /\ r.approved = row[i].approved /\ r.staging = row[i].staging
      /\ r.done = row[i].done
  BY <1>2, StatesAre DEF Row
<1>5. Put(i, r)
  BY <1>3
<1>6. job' = [job EXCEPT ![w] = Free] /\ Free \in Job /\ Free.at = "free"
  BY FreeIsJob DEF reconciled
<1> HIDE DEF r
<1>7. r.state \notin Early /\ r.recon # "already" /\ r.state # "finalized"
  BY <1>4 DEF Early
<1> QED BY <1>1, <1>2, <1>4, <1>5, <1>6, <1>7, ExecutingStep

\* A promotion begins with what was approved.
LEMMA FinalizeStep ==
  ASSUME TypeOK, WorkInv, NEW w \in Workers, NEW i \in Imports, finalize(w, i)
  PROVE  TypeOK' /\ WorkInv'
<1> DEFINE r == row[i]
           j == [Free EXCEPT !.at = "promote", !.imp = i, !.seen = State(i),
                             !.had = files[i] \/ row[i].recon = "already"]
<1>1. /\ MayStart(w, i) /\ State(i) = "ready_to_finalize"
      /\ job' = [job EXCEPT ![w] = j] /\ row' = row /\ UNCHANGED outside /\ HistoryOK
  BY HistoryKept DEF finalize
<1>2. /\ row[i] \in Row /\ job[w].at \notin Sole /\ SoleOn(w, i) /\ Reopened(i) /\ RowOK(i)
      /\ \A v \in Workers \ {w} : job[v].imp = i => job[v].at \in Beside
      /\ row[i].recon = "already" => Applied(row[i].export)
  BY <1>1, Starting
<1>3. Put(i, r)
  BY <1>1 DEF Put, TypeOK
<1>4. j \in Job /\ j.at = "promote" /\ j.imp = i
  <2>1. State(i) \in States /\ (files[i] \/ row[i].recon = "already") \in BOOLEAN
    BY <1>1, StatesAre
  <2> QED BY <2>1, FreeJob DEF Job
<1> HIDE DEF j
<1>5. RowFine(r, stage[i], i \in stages, files[i])
  BY <1>2 DEF RowOK
<1>6. JobFine(j, r, stage[i], i \in stages)
  BY <1>1, <1>2, <1>4 DEF RowOK, RowFine, JobFine, Preparing, Past, Early, State
<1>7. r \in Row /\ (r.recon = "already" \/ r.state = "finalized" => Applied(r.export))
  BY <1>1, <1>2 DEF State
<1>9. Onward(i, r, j)
  BY <1>1, <1>2, <1>4 DEF Onward, Early, Preparing, State
<1> HIDE DEF r
<1>8. /\ job' = [job EXCEPT ![w] = j] /\ UNCHANGED outside /\ HistoryOK
      /\ job[w].at \notin Sole /\ SoleOn(w, i) /\ Onward(i, r, j)
      /\ \A v \in Workers \ {w} : job[v].imp = i => job[v].at \in Beside
  BY <1>1, <1>2, <1>9
<1> QED BY <1>3, <1>4, <1>5, <1>6, <1>7, <1>8, InnerStep, ZenonT(60)

\* _cleanup takes the staging database and the archive.
LEMMA CleanedNear ==
  ASSUME TypeOK, WorkInv, NEW i \in Imports, Cleaned(i)
  PROVE  NearOK(i) /\ i \notin stages' /\ ~files'[i]
<1>1. i \in stages => row[i].staging
  BY DEF WorkInv, RowOK, RowFine
<1>2. /\ files' \in [Imports -> BOOLEAN] /\ ~files'[i] /\ \A j \in Imports \ {i} : files'[j] = files[j]
  BY DEF Cleaned, TypeOK
<1>3. CASE row[i].staging
  <2>1. stages' = stages \ {i} /\ stage' = [stage EXCEPT ![i] = {}]
    BY <1>3 DEF Cleaned
  <2> QED BY <1>2, <2>1 DEF NearOK, TypeOK
<1>4. CASE ~row[i].staging
  <2>1. stages' = stages /\ stage' = stage /\ i \notin stages
    BY <1>1, <1>4 DEF Cleaned
  <2> QED BY <1>2, <2>1 DEF NearOK, TypeOK
<1> QED BY <1>3, <1>4

\* The promotion: the chain has the export now, and the import is over.
LEMMA PromotedStep ==
  ASSUME TypeOK, WorkInv, NEW w \in Workers, promoted(w)
  PROVE  TypeOK' /\ WorkInv'
<1> DEFINE i == job[w].imp
           e == row[i].export
           r == [row[i] EXCEPT !.state = "finalized"]
           l == [export |-> e, by |-> i, with |-> row[i].decisions]
<1>1. /\ job[w].at = "promote" /\ job[w].at \in Sole /\ Put(i, r) /\ Cleaned(i) /\ HistoryOK
      /\ row[i].recon = "already" \/ ~Applied(e)
      /\ chain' = IF row[i].recon = "already" THEN chain ELSE Append(chain, l)
  BY LateKept DEF promoted, To, Sole, Executing
<1>2. /\ i \in Imports /\ row[i] \in Row /\ SoleOn(w, i) /\ Reopened(i) /\ RowOK(i) /\ JobOK(w)
      /\ \A v \in Workers \ {w} : job[v].imp = i => job[v].at \in Beside
      /\ row[i].recon = "already" => Applied(e)
  BY <1>1, Working
<1>3. /\ r \in Row /\ r.state = "finalized" /\ r.staging = row[i].staging /\ r.done = row[i].done
      /\ r.export = e /\ r.decisions = row[i].decisions /\ r.approved = row[i].approved
  BY <1>2, StatesAre DEF Row
<1>4. r.approved \in {r.decisions, "unread"}
  BY <1>1, <1>2, <1>3 DEF JobOK, JobFine, Executing
<1>5. l \in Link /\ l.export = e /\ l.by = i /\ r.approved \in {l.with, "unread"}
  BY <1>2, <1>3, <1>4 DEF Link, Row
<1>6. chain \in Seq(Link)
  BY DEF WorkInv, ChainOK
<1>7. /\ chain' \in Seq(Link) /\ Len(chain') \in {Len(chain), Len(chain) + 1} /\ Len(chain) \in Nat
      /\ \A k \in 1..Len(chain) : chain'[k] = chain[k]
      /\ Len(chain') = Len(chain) + 1 => chain'[Len(chain) + 1] = l /\ ~Applied(e)
      /\ Len(chain') = Len(chain) => chain' = chain /\ Applied(e)
  <2> HIDE DEF l
  <2>1. CASE row[i].recon = "already"
    BY <1>1, <1>2, <1>6, <2>1
  <2>2. CASE row[i].recon # "already"
    BY <1>1, <1>5, <1>6, <2>2
  <2> QED BY <2>1, <2>2
<1>8. job' = [job EXCEPT ![w] = Free] /\ Free \in Job /\ Free.at = "free"
  BY FreeIsJob DEF promoted
<1>9. job' \in [Workers -> Job] /\ job'[w] = Free /\ \A v \in Workers \ {w} : job'[v] = job[v]
  BY <1>8, JobChange
<1>10. NearOK(i) /\ i \notin stages' /\ ~files'[i]
  BY <1>1, <1>2, CleanedNear
<1>11. Put(i, r) /\ (r.state \notin Early)
  BY <1>1, <1>3 DEF Early
<1> HIDE DEF r, l, i, e
<1>12. RowFine(r, stage'[i], i \in stages', files'[i])
  BY <1>2, <1>3, <1>4, <1>10, <1>11 DEF RowOK, RowFine
<1>13. \A v \in Workers : \/ job'[v].at = "free"
                          \/ job'[v].imp = i /\ JobFine(job'[v], r, stage'[i], i \in stages')
                          \/ job'[v].imp # i /\ job'[v] = job[v]
  BY <1>2, <1>8, <1>9, DiscardFine
<1>14. /\ TypeOK' /\ (\A j \in Imports : RowOK(j)') /\ (\A v \in Workers : JobOK(v)')
       /\ row'[i] = r /\ \A j \in Imports \ {i} : row'[j] = row[j]
  BY <1>1, <1>2, <1>3, <1>7, <1>9, <1>10, <1>11, <1>12, <1>13, RowStep
<1>15. OneJob'
  BY <1>8, <1>9 DEF WorkInv, OneJob, Sole, Preparing, Executing
<1>16. ChainOK'
  <2>1. \A x : InChain(chain, x) => InChain(chain', x)
    BY <1>7 DEF InChain
  <2>2. InChain(chain', e)
    BY <1>5, <1>7 DEF Applied, InChain
  <2>3. \A j, k \in 1..Len(chain') : chain'[j].export = chain'[k].export => j = k
    <3>1. \A j, k \in 1..Len(chain) : chain[j].export = chain[k].export => j = k
      BY DEF WorkInv, ChainOK
    <3>2. CASE Len(chain') = Len(chain)
      BY <1>7, <3>1, <3>2
    <3>3. CASE Len(chain') = Len(chain) + 1
      <4>1. \A k \in 1..Len(chain) : chain[k].export # e
        BY <1>7, <3>3 DEF Applied
      <4> QED BY <1>5, <1>7, <3>1, <3>3, <4>1
    <3> QED BY <1>7, <3>2, <3>3
  <2>4. ASSUME NEW j \in Imports, row'[j].recon = "already" \/ row'[j].state = "finalized"
        PROVE  InChain(chain', row'[j].export)
    BY <1>3, <1>14, <2>1, <2>2, <2>4 DEF WorkInv, ChainOK, State
  <2> QED BY <1>7, <2>3, <2>4 DEF ChainOK, State
<1>17. ASSUME NEW k \in Links'
       PROVE  LinkOK(k)'
  <2>1. k \in 1..Len(chain') /\ chain'[k].by \in Imports
    BY DEF Links
  <2>2. \A v \in Workers : job'[v].imp = i => job'[v].at \notin Sole
    BY <1>2, <1>8, <1>9 DEF SoleOn, Sole, Preparing, Executing
  <2>3. CASE k = Len(chain) + 1
    <3>1. chain'[k] = l
      BY <1>7, <2>1, <2>3
    <3> QED BY <1>3, <1>5, <1>11, <1>14, <2>2, <3>1 DEF LinkOK, LinkFine, Sole
  <2>4. CASE k # Len(chain) + 1
    <3>1. k \in Links /\ chain'[k] = chain[k] /\ LinkOK(k)
      BY <1>7, <2>1, <2>4 DEF Links, WorkInv
    <3>2. CASE chain[k].by = i
      BY <1>3, <1>11, <1>14, <2>2, <3>1, <3>2 DEF LinkOK, LinkFine, Sole
    <3>3. CASE chain[k].by # i
      <4>1. row'[chain[k].by] = row[chain[k].by]
        BY <1>14, <2>1, <3>1, <3>3
      <4>2. \A v \in Workers : job'[v].imp = chain[k].by => job'[v].at = "free" \/ job'[v] = job[v]
        BY <1>8, <1>9
      <4> QED BY <1>1, <3>1, <4>1, <4>2 DEF LinkOK, LinkFine, HistoryOK, Preparing, Executing
    <3> QED BY <3>2, <3>3
  <2> QED BY <2>3, <2>4
<1> QED BY <1>14, <1>15, <1>16, <1>17 DEF WorkInv

\* Another import of the origin extends the chain.
LEMMA AnotherStep ==
  ASSUME TypeOK, WorkInv, NEW e \in Exports, another(e)
  PROVE  TypeOK' /\ WorkInv'
<1> DEFINE l == [export |-> e, by |-> "none", with |-> "none"]
<1>1. /\ ~Applied(e) /\ chain' = Append(chain, l) /\ UNCHANGED <<row, files, stage, stages, job, history>>
  BY DEF another
<1>2. l \in Link /\ l.export = e /\ l.by = "none" /\ chain \in Seq(Link)
  BY DEF Link, WorkInv, ChainOK
<1> HIDE DEF l
<1>3. /\ chain' \in Seq(Link) /\ Len(chain') = Len(chain) + 1 /\ Len(chain) \in Nat
      /\ chain'[Len(chain) + 1] = l /\ \A k \in 1..Len(chain) : chain'[k] = chain[k]
  BY <1>1, <1>2
<1>4. TypeOK'
  <2>1. \A k \in 1..Len(chain') : chain'[k] \in Link
    BY <1>3
  <2> QED BY <1>1, <2>1 DEF TypeOK, Link, history
<1>5. (\A j \in Imports : RowOK(j)') /\ (\A v \in Workers : JobOK(v)') /\ OneJob'
  BY <1>1 DEF WorkInv, RowOK, JobOK, OneJob
<1>6. ChainOK'
  <2>1. \A x : InChain(chain, x) => InChain(chain', x)
    BY <1>3 DEF InChain
  <2>2. \A j, k \in 1..Len(chain') : chain'[j].export = chain'[k].export => j = k
    <3>1. \A j, k \in 1..Len(chain) : chain[j].export = chain[k].export => j = k
      BY DEF WorkInv, ChainOK
    <3>2. \A k \in 1..Len(chain) : chain[k].export # e
      BY <1>1 DEF Applied
    <3> QED BY <1>2, <1>3, <3>1, <3>2
  <2>3. ASSUME NEW j \in Imports, row'[j].recon = "already" \/ row'[j].state = "finalized"
        PROVE  InChain(chain', row'[j].export)
    BY <1>1, <2>1, <2>3 DEF WorkInv, ChainOK, State
  <2> QED BY <1>3, <2>2, <2>3 DEF ChainOK, State
<1>7. ASSUME NEW k \in Links'
      PROVE  LinkOK(k)'
  <2>1. k \in 1..Len(chain') /\ chain'[k].by \in Imports
    BY DEF Links
  <2>2. k \in Links /\ chain'[k] = chain[k] /\ LinkOK(k)
    BY <1>2, <1>3, <2>1, ImportAssumption DEF Links, WorkInv
  <2> QED BY <1>1, <2>2 DEF LinkOK, LinkFine, history
<1> QED BY <1>4, <1>5, <1>6, <1>7 DEF WorkInv

----------------------------------------------------------------------------
(* People, and what goes wrong *)

\* An upload is of an import that nothing was loaded from.
LEMMA UploadStep ==
  ASSUME TypeOK, WorkInv, NEW i \in Imports, upload(i)
  PROVE  TypeOK' /\ WorkInv'
<1> DEFINE r == [row[i] EXCEPT !.state = "quarantined"]
<1>1. /\ State(i) = "created" /\ Put(i, r) /\ files' = [files EXCEPT ![i] = TRUE]
      /\ UNCHANGED <<stage, stages, chain, job>> /\ HistoryOK
  BY HistoryKept DEF upload, To
<1>2. row[i] \in Row /\ RowOK(i) /\ (row[i].recon = "already" => Applied(row[i].export))
  BY DEF TypeOK, WorkInv, ChainOK, InChain, Applied
<1>3. /\ r \in Row /\ r.state = "quarantined" /\ r.staging = row[i].staging /\ r.done = row[i].done
      /\ r.recon = row[i].recon /\ r.export = row[i].export
  BY <1>2, StatesAre DEF Row
<1> HIDE DEF r
<1>4. ~r.staging
  BY <1>1, <1>2, <1>3 DEF RowOK, RowFine, Early, State
<1>5. OutsideOK(i)
  BY <1>1 DEF OutsideOK, NearOK, TypeOK
<1>6. RowFine(r, stage'[i], i \in stages', files'[i])
  BY <1>1, <1>2, <1>3, <1>4 DEF RowOK, RowFine, Past
<1>7. ASSUME NEW v \in Workers, job[v].imp = i
      PROVE  JobFine(job[v], r, stage'[i], i \in stages')
  BY <1>1, <1>4, <1>7 DEF WorkInv, JobOK, JobFine, Early, State, Preparing, Executing
<1>8. \A k \in Links : chain[k].by # i
  BY <1>1 DEF WorkInv, LinkOK, LinkFine, Early, State
<1>9. job' \in [Workers -> Job] /\ OneJob' /\ job' = job
  BY <1>1 DEF TypeOK, WorkInv, OneJob
<1> QED BY <1>1, <1>2, <1>3, <1>5, <1>6, <1>7, <1>8, <1>9, StepOn

\* The approver reads the row, whoever works on it.
LEMMA ApproveStep ==
  ASSUME TypeOK, WorkInv, NEW w \in Workers, NEW i \in Imports, approve(w, i)
  PROVE  TypeOK' /\ WorkInv'
<1> DEFINE j == [Free EXCEPT !.at = "approve", !.imp = i, !.seen = State(i), !.decisions = row[i].decisions]
<1>1. /\ State(i) = "awaiting_approval" /\ job' = [job EXCEPT ![w] = j]
      /\ UNCHANGED <<row, outside>> /\ HistoryOK
  BY HistoryKept DEF approve
<1>2. row[i] \in Row /\ RowOK(i) /\ (row[i].recon = "already" => Applied(row[i].export)) /\ Put(i, row[i])
  BY <1>1 DEF TypeOK, WorkInv, ChainOK, InChain, Applied, Put
<1>3. j \in Job /\ j.at = "approve" /\ j.imp = i /\ j.seen = "awaiting_approval"
  BY <1>1, <1>2, FreeJob, StatesAre DEF Job, Row
<1> HIDE DEF j
<1>4. job' \in [Workers -> Job] /\ job'[w] = j /\ \A v \in Workers \ {w} : job'[v] = job[v]
  BY <1>1, <1>3, JobChange
<1>5. OutsideOK(i) /\ stage' = stage /\ stages' = stages /\ files' = files
  BY <1>1, Untouched DEF outside
<1>6. RowFine(row[i], stage'[i], i \in stages', files'[i])
  BY <1>2, <1>5 DEF RowOK
<1>7. ASSUME NEW v \in Workers, job'[v].imp = i
      PROVE  JobFine(job'[v], row[i], stage'[i], i \in stages')
  <2>1. CASE v = w
    BY <1>3, <1>4, <2>1 DEF JobFine, Preparing, Executing
  <2>2. CASE v # w
    <3>1. job'[v] = job[v] /\ JobOK(v)
      BY <1>4, <2>2 DEF WorkInv
    <3> QED BY <1>5, <1>7, <3>1 DEF JobOK
  <2> QED BY <2>1, <2>2
<1>8. \A k \in Links : chain[k].by # i
  BY <1>1 DEF WorkInv, LinkOK, LinkFine, Early, State
<1>9. OneJob'
  BY <1>3, <1>4 DEF WorkInv, OneJob, Sole, Preparing, Executing
<1>10. \A v \in Workers : \/ job'[v].at = "free"
                          \/ job'[v].imp = i /\ JobFine(job'[v], row[i], stage'[i], i \in stages')
                          \/ job'[v].imp # i /\ job'[v] = job[v]
  BY <1>3, <1>4, <1>7
<1>11. row[i].state # "finalized"
  BY <1>1 DEF State
<1> QED BY <1>1, <1>2, <1>4, <1>5, <1>6, <1>8, <1>9, <1>10, <1>11, StepOn

\* The approval is of the decisions the row has then, or says that they were not read; the jobs that run go on.
LEMMA ApprovedStep ==
  ASSUME TypeOK, WorkInv, NEW w \in Workers, approved(w)
  PROVE  TypeOK' /\ WorkInv'
<1> DEFINE i == job[w].imp
           asRead == State(i) = job[w].seen /\ row[i].decisions = job[w].decisions
           r == [row[i] EXCEPT !.state = "approved", !.approved = IF asRead THEN row[i].decisions ELSE "unread"]
<1>1. /\ job[w].at = "approve" /\ Put(i, r) /\ UNCHANGED outside /\ HistoryOK
      /\ State(i) # job[w].seen => i \in overtaken'
  BY LateKept DEF approved, Late
<1>2. i \in Imports /\ row[i] \in Row /\ RowOK(i) /\ (row[i].recon = "already" => Applied(row[i].export)) /\ JobOK(w)
  BY DEF TypeOK, Job, WorkInv, ChainOK, InChain, Applied
<1>3. /\ r \in Row /\ r.state = "approved" /\ r.staging = row[i].staging /\ r.done = row[i].done
      /\ r.recon = row[i].recon /\ r.export = row[i].export /\ r.decisions = row[i].decisions
      /\ r.approved = IF asRead THEN row[i].decisions ELSE "unread"
  <2> DEFINE a == IF asRead THEN row[i].decisions ELSE "unread"
  <2>1. a \in Decisions \cup {"none", "unread"}
    BY <1>2 DEF Row
  <2> HIDE DEF a
  <2>2. r = [row[i] EXCEPT !.state = "approved", !.approved = a]
    BY DEF a
  <2> HIDE DEF r
  <2>3. r \in Row /\ r.approved = a
    BY <1>2, <2>1, <2>2, StatesAre DEF Row
  <2>4. /\ r.state = "approved" /\ r.staging = row[i].staging /\ r.done = row[i].done
        /\ r.recon = row[i].recon /\ r.export = row[i].export /\ r.decisions = row[i].decisions
    BY <1>2, <2>2 DEF Row
  <2> QED BY <2>3, <2>4 DEF a
<1>4. job' \in [Workers -> Job] /\ job'[w] = Free /\ (\A v \in Workers \ {w} : job'[v] = job[v]) /\ Free.at = "free"
  BY FreeIsJob, JobChange DEF approved
<1>5. State(i) # "awaiting_approval" => r.approved = "unread" /\ i \in overtaken'
  BY <1>1, <1>2, <1>3 DEF JobOK, JobFine
<1>6. r.approved \in {r.decisions, "unread"}
  BY <1>3
<1> HIDE DEF r, asRead
<1>7. OutsideOK(i) /\ stage' = stage /\ stages' = stages /\ files' = files
  BY <1>1, <1>2, Untouched DEF outside
<1>8. RowFine(r, stage'[i], i \in stages', files'[i])
  BY <1>2, <1>3, <1>6, <1>7 DEF RowOK, RowFine, Early
<1>9. ASSUME NEW v \in Workers, job[v].imp = i
      PROVE  JobFine(job[v], r, stage'[i], i \in stages')
  <2>1. JobOK(v)
    BY DEF WorkInv
  <2> QED BY <1>3, <1>5, <1>6, <1>7, <1>9, <2>1 DEF JobOK, JobFine, Early, State
<1>10. OneJob'
  BY <1>4 DEF WorkInv, OneJob, Sole, Preparing, Executing
<1>11. ASSUME NEW k \in Links, chain[k].by = i
       PROVE  /\ LinkFine(chain[k], r, i \in overtaken')
              /\ \A v \in Workers : job'[v].imp = i =>
                   job'[v].at \notin Preparing /\ (job'[v].at \in Executing => i \in overtaken')
  <2>1. LinkOK(k)
    BY DEF WorkInv
  <2>2. State(i) # "awaiting_approval"
    BY <1>11, <2>1 DEF LinkOK, LinkFine, Early, State
  <2>3. r.approved = "unread" /\ i \in overtaken'
    BY <1>5, <2>2
  <2> QED BY <1>3, <1>4, <1>11, <2>1, <2>3 DEF LinkOK, LinkFine, Early, Preparing
<1>12. r.recon = "already" \/ r.state = "finalized" => Applied(r.export)
  BY <1>2, <1>3
<1> HIDE DEF i
<1>13. \A v \in Workers : \/ job'[v].at = "free"
                          \/ job'[v].imp = i /\ JobFine(job'[v], r, stage'[i], i \in stages')
                          \/ job'[v].imp # i /\ job'[v] = job[v]
  BY <1>4, <1>9
<1> QED BY <1>1, <1>2, <1>3, <1>4, <1>7, <1>8, <1>10, <1>11, <1>12, <1>13, StepOn

\* The files of an import go, whoever works on it, and a discard may be under way now.
LEMMA RemovedStep ==
  ASSUME TypeOK, WorkInv, NEW i \in Imports, State(i) \notin {"finalized", "discarded"},
         Cleaned(i), UNCHANGED <<row, chain>>, HistoryOK,
         job' \in [Workers -> Job],
         \A v \in Workers : \/ job'[v] = job[v]
                            \/ job'[v].at = "discard" /\ job'[v].imp = i /\ job'[v].seen = State(i)
  PROVE  TypeOK' /\ WorkInv'
<1> DEFINE r == row[i]
<1>1. r \in Row /\ RowOK(i) /\ Put(i, r) /\ (r.recon = "already" \/ r.state = "finalized" => Applied(r.export))
  BY DEF TypeOK, Put, WorkInv, ChainOK, InChain, Applied, State
<1>2. NearOK(i) /\ i \notin stages' /\ ~files'[i]
  BY CleanedNear
<1>3. OutsideOK(i)
  BY <1>2 DEF OutsideOK
<1>4. RowFine(r, stage'[i], i \in stages', files'[i])
  BY <1>1, <1>2 DEF RowOK, RowFine
<1>5. ASSUME NEW v \in Workers
      PROVE  \/ job'[v].imp = i /\ JobFine(job'[v], r, stage'[i], i \in stages')
             \/ job'[v].imp # i /\ job'[v] = job[v]
  <2>1. CASE job'[v] = job[v] /\ job[v].imp = i
    BY <1>2, <2>1 DEF WorkInv, JobOK, JobFine
  <2>2. CASE job'[v].at = "discard" /\ job'[v].imp = i /\ job'[v].seen = State(i)
    BY <2>2 DEF JobFine, Preparing, Executing
  <2> QED BY <2>1, <2>2
<1>6. OneJob'
  BY DEF WorkInv, OneJob, Sole, Preparing, Executing
<1>7. ASSUME NEW k \in Links, chain[k].by = i
      PROVE  /\ LinkFine(chain[k], r, i \in overtaken')
             /\ \A v \in Workers : job'[v].imp = i =>
                  job'[v].at \notin Preparing /\ (job'[v].at \in Executing => i \in overtaken')
  <2>1. LinkOK(k) /\ i \in overtaken'
    BY <1>7 DEF WorkInv, LinkOK, LinkFine, State, HistoryOK
  <2> QED BY <1>7, <2>1 DEF LinkOK, LinkFine, Preparing, Executing
<1> HIDE DEF r
<1> QED BY <1>1, <1>3, <1>4, <1>5, <1>6, <1>7, StepOn

\* The cleanup of a failed import, and the beginning of a discard.
LEMMA CleanupStep ==
  ASSUME TypeOK, WorkInv, NEW i \in Imports, cleanup(i)
  PROVE  TypeOK' /\ WorkInv'
<1>1. State(i) = "failed" /\ Cleaned(i) /\ UNCHANGED <<row, chain, job>> /\ HistoryOK
  BY HistoryKept DEF cleanup
<1>2. job' \in [Workers -> Job]
  BY <1>1 DEF TypeOK
<1> QED BY <1>1, <1>2, RemovedStep

\* A discard takes what a running job works on.
LEMMA DiscardStep ==
  ASSUME TypeOK, WorkInv, NEW w \in Workers, NEW i \in Imports, discard(w, i)
  PROVE  TypeOK' /\ WorkInv'
<1> DEFINE j == [Free EXCEPT !.at = "discard", !.imp = i, !.seen = State(i)]
<1>1. /\ State(i) \notin {"finalized", "discarded"} /\ Cleaned(i) /\ UNCHANGED <<row, chain>> /\ HistoryOK
      /\ job' = [job EXCEPT ![w] = j]
  BY HistoryKept DEF discard, MayDiscard, Goes
<1>2. j \in Job /\ j.at = "discard" /\ j.imp = i /\ j.seen = State(i)
  BY FreeJob DEF Job, TypeOK, Row, State
<1> HIDE DEF j
<1>3. job' \in [Workers -> Job] /\ job'[w] = j /\ \A v \in Workers \ {w} : job'[v] = job[v]
  BY <1>1, <1>2, JobChange
<1> QED BY <1>1, <1>2, <1>3, RemovedStep

\* The end of a discard: over a promotion it is told as overtaken.
LEMMA DiscardedStep ==
  ASSUME TypeOK, WorkInv, NEW w \in Workers, discarded(w)
  PROVE  TypeOK' /\ WorkInv'
<1> DEFINE i == job[w].imp
           r == [row[i] EXCEPT !.state = "discarded"]
<1>1. /\ job[w].at = "discard" /\ Put(i, r) /\ UNCHANGED outside /\ HistoryOK
      /\ State(i) # job[w].seen => i \in overtaken'
  BY LateKept DEF discarded, To, Late
<1>2. i \in Imports /\ row[i] \in Row /\ RowOK(i) /\ (row[i].recon = "already" => Applied(row[i].export)) /\ JobOK(w)
  BY DEF TypeOK, Job, WorkInv, ChainOK, InChain, Applied
<1>3. /\ r \in Row /\ r.state = "discarded" /\ r.staging = row[i].staging /\ r.done = row[i].done
      /\ r.recon = row[i].recon /\ r.export = row[i].export
      /\ r.decisions = row[i].decisions /\ r.approved = row[i].approved
  BY <1>2, StatesAre DEF Row
<1>4. job' \in [Workers -> Job] /\ job'[w] = Free /\ (\A v \in Workers \ {w} : job'[v] = job[v]) /\ Free.at = "free"
  BY FreeIsJob, JobChange DEF discarded
<1> HIDE DEF r
<1>5. OutsideOK(i) /\ stage' = stage /\ stages' = stages /\ files' = files
  BY <1>1, <1>2, Untouched DEF outside
<1>6. RowFine(r, stage'[i], i \in stages', files'[i])
  BY <1>2, <1>3, <1>5 DEF RowOK, RowFine, Early, Past
<1>7. ASSUME NEW v \in Workers, job[v].imp = i
      PROVE  JobFine(job[v], r, stage'[i], i \in stages')
  <2>1. JobOK(v)
    BY DEF WorkInv
  <2> QED BY <1>3, <1>5, <1>7, <2>1 DEF JobOK, JobFine, Early
<1>8. OneJob'
  BY <1>4 DEF WorkInv, OneJob, Sole, Preparing, Executing
<1>9. job[w].seen \notin {"finalized", "discarded"}
  BY <1>1, <1>2 DEF JobOK, JobFine
<1>10. ASSUME NEW k \in Links, chain[k].by = i
       PROVE  /\ LinkFine(chain[k], r, i \in overtaken')
              /\ \A v \in Workers : job'[v].imp = i =>
                   job'[v].at \notin Preparing /\ (job'[v].at \in Executing => i \in overtaken')
  <2>1. LinkOK(k)
    BY DEF WorkInv
  <2>2. i \in overtaken'
    BY <1>1, <1>9, <1>10, <2>1 DEF LinkOK, LinkFine, HistoryOK, State
  <2> QED BY <1>3, <1>4, <1>10, <2>1, <2>2 DEF LinkOK, LinkFine, Early, Preparing
<1>11. r.recon = "already" \/ r.state = "finalized" => Applied(r.export)
  BY <1>2, <1>3
<1> HIDE DEF i
<1>12. \A v \in Workers : \/ job'[v].at = "free"
                          \/ job'[v].imp = i /\ JobFine(job'[v], r, stage'[i], i \in stages')
                          \/ job'[v].imp # i /\ job'[v] = job[v]
  BY <1>4, <1>7
<1> QED BY <1>1, <1>2, <1>3, <1>4, <1>5, <1>6, <1>8, <1>10, <1>11, <1>12, StepOn

\* A failure leads to "invalid" before anything is loaded, and to "failed" afterwards.
LEMMA FailStep ==
  ASSUME TypeOK, WorkInv, NEW w \in Workers, fail(w)
  PROVE  TypeOK' /\ WorkInv'
<1> DEFINE i == job[w].imp
<1>1. /\ job[w].at \in Sole /\ job[w].at # "check" /\ Fails(w) /\ Ends(w) /\ UNCHANGED outside /\ HistoryOK
  <2>1. job[w] \in Job
    BY DEF TypeOK
  <2>2. job[w].at \in Sole
    BY <2>1 DEF fail, Job, Sole, Preparing, Executing
  <2> QED BY <2>2, HistoryKept DEF fail
<1>2. /\ i \in Imports /\ row[i] \in Row /\ SoleOn(w, i) /\ Reopened(i) /\ (job[w].at \in Preparing => Unlinked(i)) /\ RowOK(i) /\ JobOK(w)
      /\ \A v \in Workers \ {w} : job[v].imp = i => job[v].at \in Beside
      /\ row[i].recon = "already" \/ row[i].state = "finalized" => Applied(row[i].export)
  BY <1>1, Working DEF State
<1>3. job' = [job EXCEPT ![w] = Free] /\ Free \in Job /\ Free.at = "free"
  BY <1>1, FreeIsJob
<1>4. \A s : JobFine(Free, s, stage[i], i \in stages)
  BY <1>3 DEF JobFine, Preparing, Executing
<1>5. CASE UNCHANGED row
  <2>1. Put(i, row[i])
    BY <1>5 DEF Put, TypeOK
  <2>2. RowFine(row[i], stage[i], i \in stages, files[i])
    BY <1>2 DEF RowOK
  <2>3. job[w].imp = i
    OBVIOUS
  <2>4. Unlinked(i) \/ Onward(i, row[i], Free)
    BY <1>1, <1>2, <1>3 DEF Onward, Sole, Preparing, JobOK, JobFine
  <2> HIDE DEF i
  <2> QED BY <1>1, <1>2, <1>3, <1>4, <2>1, <2>2, <2>3, <2>4, InnerStep, ZenonT(60)
<1>6. ASSUME NEW s \in {row[i].state, "invalid"}, job[w].at \in {"fetch", "verify"}, To(i, s)
      PROVE  TypeOK' /\ WorkInv'
  <2> DEFINE r == [row[i] EXCEPT !.state = s]
  <2>1. /\ r \in Row /\ r.state = s /\ r.export = row[i].export /\ r.recon = row[i].recon
        /\ r.decisions = row[i].decisions /\ r.approved = row[i].approved /\ r.staging = row[i].staging
        /\ r.done = row[i].done
    BY <1>2, StatesAre DEF Row
  <2>2. Put(i, r)
    BY <1>6 DEF To
  <2> HIDE DEF r
  <2>3. ~r.staging
    BY <1>2, <1>6, <2>1 DEF JobOK, JobFine, Preparing
  <2>4. RowFine(r, stage[i], i \in stages, files[i])
    BY <1>2, <2>1, <2>3 DEF RowOK, RowFine, Past
  <2>5. r.recon = "already" \/ r.state = "finalized" => Applied(r.export)
    BY <1>2, <2>1
  <2>6. job[w].imp = i /\ Unlinked(i)
    BY <1>2, <1>6 DEF Preparing
  <2> HIDE DEF i
  <2> QED BY <1>1, <1>2, <1>3, <1>4, <2>1, <2>2, <2>4, <2>5, <2>6, InnerStep, ZenonT(60)
<1>7. ASSUME NEW s \in {row[i].state, "failed"}, job[w].at \in Executing, To(i, s)
      PROVE  TypeOK' /\ WorkInv'
  <2> DEFINE r == [row[i] EXCEPT !.state = s]
  <2>1. /\ r \in Row /\ r.state = s /\ r.export = row[i].export /\ r.recon = row[i].recon
        /\ r.decisions = row[i].decisions /\ r.approved = row[i].approved /\ r.staging = row[i].staging
        /\ r.done = row[i].done
    BY <1>2, StatesAre DEF Row
  <2>2. Put(i, r)
    BY <1>7 DEF To
  <2> HIDE DEF r
  <2>3. r.state \notin Early
    BY <1>7, <2>1, AtWork DEF Early
  <2>4. r.recon = "already" \/ r.state = "finalized" => Applied(r.export)
    BY <1>2, <2>1
  <2> QED BY <1>1, <1>3, <1>7, <2>1, <2>2, <2>3, <2>4, ExecutingStep
<1> QED BY <1>1, <1>5, <1>6, <1>7 DEF Fails, FailTo, State, Executing

\* The process ends, and with it every job.
LEMMA CrashStep ==
  ASSUME TypeOK, WorkInv, crash
  PROVE  TypeOK' /\ WorkInv'
<1>1. /\ UNCHANGED <<row, files, stage, stages, chain, overtaken>> /\ job' = [w \in Workers |-> Free]
      /\ stopped' = stopped \cup {job[w].imp : w \in {v \in Workers : job[v].at # "free"}}
      /\ faults' \in 0..MaxFaults
  BY ImportAssumption DEF crash, outside, Fault, TypeOK
<1>2. job' \in [Workers -> Job] /\ \A w \in Workers : job'[w] = Free /\ job'[w].at = "free"
  BY <1>1, FreeJob
<1>3. stopped' \subseteq Imports
  BY <1>1 DEF TypeOK, Job
<1>4. TypeOK'
  BY <1>1, <1>2, <1>3 DEF TypeOK
<1>5. (\A i \in Imports : RowOK(i)') /\ ChainOK'
  BY <1>1 DEF WorkInv, RowOK, ChainOK, State
<1>6. OneJob' /\ \A w \in Workers : JobOK(w)'
  BY <1>2 DEF OneJob, JobOK, JobFine, Sole, Preparing, Executing
<1>7. \A k \in Links' : LinkOK(k)'
  BY <1>1, <1>2 DEF WorkInv, Links, LinkOK, LinkFine, Preparing, Executing
<1> QED BY <1>4, <1>5, <1>6, <1>7 DEF WorkInv

----------------------------------------------------------------------------
(* The theorems *)

\* Nothing is loaded at first, and the chain has one link.
LEMMA InitHolds == Init => TypeOK /\ WorkInv
<1> SUFFICES ASSUME Init PROVE TypeOK /\ WorkInv
  OBVIOUS
<1>1. PICK e \in [Imports -> Exports] : row = [i \in Imports |-> [Blank EXCEPT !.export = e[i]]]
  BY DEF Init
<1>2. ASSUME NEW i \in Imports
      PROVE  /\ row[i] \in Row /\ row[i].state = "created" /\ ~row[i].staging /\ row[i].done = {}
             /\ row[i].recon = "none"
  BY <1>1, StatesAre DEF Row, Blank
<1>3. row \in [Imports -> Row]
  BY <1>1, <1>2
<1> DEFINE l == [export |-> First, by |-> "none", with |-> "none"]
<1>4. chain = <<l>> /\ l \in Link /\ l.by = "none"
  BY ImportAssumption DEF Init, Link
<1> HIDE DEF l
<1>5. chain \in Seq(Link) /\ Len(chain) = 1 /\ chain[1] = l
  BY <1>4
<1>6. job \in [Workers -> Job] /\ \A w \in Workers : job[w].at = "free"
  BY FreeJob DEF Init
<1>7. TypeOK
  <2>1. \A k \in 1..Len(chain) : chain[k] \in Link
    BY <1>4, <1>5
  <2>2. 0 \in 0..MaxFaults
    BY ImportAssumption
  <2> QED BY <1>3, <1>6, <2>1, <2>2 DEF Init, TypeOK, Link
<1>8. \A i \in Imports : RowOK(i)
  BY <1>2 DEF RowOK, RowFine, Early, Past, Init
<1>9. OneJob /\ \A w \in Workers : JobOK(w)
  BY <1>6 DEF OneJob, JobOK, JobFine, Sole, Preparing, Executing
<1>10. ChainOK
  BY <1>2, <1>5 DEF ChainOK, State
<1>11. Links = {}
  BY <1>4, <1>5, ImportAssumption DEF Links
<1> QED BY <1>7, <1>8, <1>9, <1>10, <1>11 DEF WorkInv

\* Every step keeps the invariant.
LEMMA NextHolds == TypeOK /\ WorkInv /\ [Next]_vars => TypeOK' /\ WorkInv'
<1> SUFFICES ASSUME TypeOK, WorkInv, [Next]_vars PROVE TypeOK' /\ WorkInv'
  OBVIOUS
<1>1. ASSUME NEW i \in Imports, upload(i) \/ cleanup(i)
      PROVE  TypeOK' /\ WorkInv'
  BY <1>1, UploadStep, CleanupStep
<1>2. ASSUME NEW w \in Workers, NEW i \in Imports,
             begin(w, i, "created", "fetching", "fetch") \/ begin(w, i, "quarantined", "verifying", "verify")
      PROVE  TypeOK' /\ WorkInv'
  BY <1>2, BeginStep
<1>3. ASSUME NEW w \in Workers, NEW i \in Imports,
             \/ execute(w, i) \/ finalize(w, i) \/ discard(w, i) \/ approve(w, i)
             \/ \E d \in Decisions : dryRun(w, i, d)
      PROVE  TypeOK' /\ WorkInv'
  BY <1>3, ExecuteStep, FinalizeStep, DiscardStep, ApproveStep, DryRunStep
<1>4. ASSUME NEW w \in Workers, Work(w) \/ fail(w)
      PROVE  TypeOK' /\ WorkInv'
  BY <1>4, FetchedStep, VerifiedStep, DryRunEndStep, CheckStep, MakeStagingStep, LoadStep, SaveStep, LoadedStep,
     RebuiltStep, ReconciledStep, PromotedStep, DiscardedStep, ApprovedStep, FailStep DEF Work
<1>5. ASSUME NEW e \in Exports, another(e)
      PROVE  TypeOK' /\ WorkInv'
  BY <1>5, AnotherStep
<1>6. CASE crash
  BY <1>6, CrashStep
<1>7. CASE UNCHANGED vars
  <2>1. TypeOK'
    BY <1>7 DEF TypeOK, vars
  <2>2. WorkInv'
    BY <1>7 DEF WorkInv, RowOK, JobOK, OneJob, ChainOK, Links, LinkOK, LinkFine, State, vars
  <2> QED BY <2>1, <2>2
<1> QED BY <1>1, <1>2, <1>3, <1>4, <1>5, <1>6, <1>7 DEF Next

\* The inductive invariant.
LEMMA Holds == Spec => [](TypeOK /\ WorkInv)
BY InitHolds, NextHolds, PTL DEF Spec

\* service.py and importer.py: whatever jobs, people and ends of the process do, the rows, the quarantine, the
\* staging databases, the links and the jobs keep their types; no step is loaded that the archive has not.
THEOREM TypeCorrect == Spec => []TypeOK
BY Holds, PTL

\* execute, _save and _cleanup: for any number of imports and workers and an archive of any length, what is
\* recorded as done is in the staging database, whenever the process ends or a discard cuts in.
THEOREM CheckpointsHold == Spec => []DoneIsStaged
<1>1. WorkInv => DoneIsStaged
  BY DEF WorkInv, RowOK, RowFine, DoneIsStaged
<1> QED BY <1>1, Holds, PTL

\* dry_run, approve_import, finalize, discard and jobs.start: for any imports of an origin, an export is applied
\* once, and only with the decisions that were approved, and what the import says of it is so.
THEOREM ChainTold == Spec => []ChainAsTold
<1>1. TypeOK /\ WorkInv => ChainAsTold
  BY DEF WorkInv, ChainOK, InChain, Applied, LinkOK, LinkFine, State, ChainAsTold, Links
<1> QED BY <1>1, Holds, PTL

----------------------------------------------------------------------------
(* The table *)

\* The states an approval may find that was read at awaiting_approval.
Since == {"dry_run_ready", "awaiting_approval"} \cup Past \cup {"discarded"}

\* What a job or a request has read of the state of its import, and what that may have become under it: a discard
\* and an approval are no jobs of jobs.start.
SeenFine(j, s) ==
  /\ j.at = "fetch" => j.seen = "fetching" /\ s \in {"fetching", "discarded"}
  /\ j.at = "verify" => j.seen = "verifying" /\ s \in {"verifying", "discarded"}
  /\ j.at = "dry" => \/ j.seen = "dry_run_ready" /\ s \in {"dry_run_ready", "approved", "discarded"}
                     \/ j.seen = "awaiting_approval" /\ s \in {"awaiting_approval", "approved", "discarded"}
  /\ j.at = "reconcile" => j.seen = "reconciling" /\ s \in {"reconciling", "approved", "discarded"}
  /\ j.at = "promote" => j.seen = "ready_to_finalize" /\ s \in {"ready_to_finalize", "approved", "discarded"}
  /\ j.at = "approve" => s \in Since

\* No approval is under way while the archive is fetched or verified.
Apart ==
  \A v, w \in Workers : job[v].at \in {"fetch", "verify"} /\ job[w].at = "approve" => job[v].imp # job[w].imp

SeenOK == \A w \in Workers : SeenFine(job[w], State(job[w].imp))

\* Where the last commit of a job or a request puts its import.
Ending == [fetch |-> {"quarantined"}, verify |-> {"dry_run_ready"}, dry |-> {"dry_run_ready", "awaiting_approval"},
           reconcile |-> {"ready_to_finalize", "failed"}, promote |-> {"finalized"},
           approve |-> {"approved"}, discard |-> {"discarded"}]

\* It goes over a state that was not there when it was read.
Overtaken(at, s) ==
  \/ s = "discarded" /\ at \in {"fetch", "verify", "dry", "reconcile", "promote"}
  \/ s = "approved" /\ at \in {"dry", "reconcile", "promote"}
  \/ s = "finalized" /\ at = "discard"
  \/ s \in Since \ {"awaiting_approval"} /\ at = "approve"

Overtakes(w, i) ==
  /\ job[w].imp = i /\ job'[w].at = "free"
  /\ Overtaken(job[w].at, State(i)) /\ State(i)' \in Ending[job[w].at]

\* A step of import i that the table has, with the discard; the import of an export that is applied already goes
\* through rebuilding and reconciling in one commit.
ByTable(i) ==
  \/ State(i)' \in Table[State(i)] \cup {State(i)}
  \/ State(i)' = "discarded" /\ MayDiscard(State(i))
  \/ State(i) = "importing" /\ State(i)' = "ready_to_finalize" /\ row'[i].recon = "already"
  \/ \E w \in Workers : Overtakes(w, i)

\* A step on import i, by worker w or by a person.
LEMMA SeenKept ==
  ASSUME TypeOK, SeenOK, NEW i \in Imports,
         \A j \in Imports \ {i} : State(j)' = State(j),
         \A w \in Workers : \/ SeenFine(job'[w], row'[job'[w].imp].state)
                            \/ job'[w] = job[w] /\ (job[w].imp = i => SeenFine(job[w], row'[i].state))
  PROVE  SeenOK'
<1> SUFFICES ASSUME NEW w \in Workers PROVE SeenFine(job[w], State(job[w].imp))'
  BY DEF SeenOK
<1>1. job[w].imp \in Imports
  BY DEF TypeOK, Job
<1>2. CASE SeenFine(job'[w], row'[job'[w].imp].state)
  BY <1>2 DEF SeenFine, State
<1>3. CASE job'[w] = job[w] /\ (job[w].imp = i => SeenFine(job[w], row'[i].state))
  <2>1. CASE job[w].imp = i
    BY <1>3, <2>1 DEF SeenFine, State
  <2>2. CASE job[w].imp # i
    <3>1. State(job[w].imp)' = State(job[w].imp)
      BY <1>1, <1>3, <2>2 DEF State
    <3> QED BY <1>3, <3>1 DEF SeenOK, SeenFine, State
  <2> QED BY <2>1, <2>2
<1> QED BY <1>2, <1>3

\* What a step does to a row, of whatever type.
LEMMA Put1 ==
  ASSUME TypeOK, NEW i \in Imports, NEW r, Put(i, r)
  PROVE  row'[i] = r /\ \A k \in Imports \ {i} : row'[k] = row[k]
BY DEF TypeOK, Put

\* And to a job.
LEMMA Job1 ==
  ASSUME TypeOK, NEW w \in Workers, NEW j, job' = [job EXCEPT ![w] = j]
  PROVE  job'[w] = j /\ \A v \in Workers \ {w} : job'[v] = job[v]
BY DEF TypeOK

\* One import moves.
LEMMA OneMoves ==
  ASSUME NEW i \in Imports, \A k \in Imports \ {i} : State(k)' = State(k), ByTable(i)
  PROVE  \A k \in Imports : ByTable(k)
BY DEF ByTable

\* A step of the job of w, which works on import i alone or begins to.
LEMMA SeenStep ==
  ASSUME TypeOK, SeenOK, Apart, NEW i \in Imports, NEW w \in Workers, NEW r, Put(i, r),
         NEW j, job' = [job EXCEPT ![w] = j], j.at = "free" \/ j.imp = i, SeenFine(j, r.state),
         \A v \in Workers \ {w} : job[v].imp = i => job[v].at \in Beside,
         \/ r.state \in Table[State(i)] \cup {State(i)}
         \/ State(i) = "importing" /\ r.state = "ready_to_finalize" /\ r.recon = "already"
         \/ j.at = "free" /\ Overtaken(job[w].at, State(i)) /\ r.state \in Ending[job[w].at]
         \/ r.state = "discarded" /\ MayDiscard(State(i)),
         job[w].at = "free" \/ job[w].imp = i
  PROVE  SeenOK' /\ \A k \in Imports : ByTable(k)
<1>1. row'[i] = r /\ State(i)' = r.state /\ \A k \in Imports \ {i} : State(k)' = State(k)
  BY Put1 DEF State
<1>2. job'[w] = j /\ \A v \in Workers \ {w} : job'[v] = job[v]
  BY Job1
<1>3. SeenFine(job'[w], row'[job'[w].imp].state)
  BY <1>1, <1>2 DEF SeenFine
<1>4. \A v \in Workers \ {w} : job[v].imp = i => SeenFine(job[v], row'[i].state)
  <2>1. r.state \in Since \/ \A v \in Workers \ {w} : job[v].imp = i => job[v].at # "approve"
    <3>1. CASE job[w].at \in {"fetch", "verify"}
      BY <3>1 DEF Apart
    <3>2. CASE State(i) \notin Since
      BY <3>2 DEF SeenOK, SeenFine
    <3>3. CASE job[w].at \notin {"fetch", "verify"} /\ State(i) \in Since
      <4>1. r.state \in Table[State(i)] => r.state \in Since
        BY <3>3 DEF Since, Past, Table
      <4>2. Overtaken(job[w].at, State(i)) /\ r.state \in Ending[job[w].at] => r.state \in Since
        BY <3>3 DEF Since, Past, Overtaken, Ending
      <4> QED BY <3>3, <4>1, <4>2 DEF Since, Past
    <3> QED BY <3>1, <3>2, <3>3
  <2> QED BY <1>1, <2>1 DEF SeenFine, Beside
<1>5. ByTable(i)
  <2>1. CASE r.state \in Table[State(i)] \cup {State(i)} \/ (r.state = "discarded" /\ MayDiscard(State(i)))
    BY <1>1, <2>1 DEF ByTable
  <2>2. CASE State(i) = "importing" /\ r.state = "ready_to_finalize" /\ r.recon = "already"
    BY <1>1, <2>2 DEF ByTable
  <2>3. CASE j.at = "free" /\ Overtaken(job[w].at, State(i)) /\ r.state \in Ending[job[w].at]
    <3>1. job[w].at # "free"
      BY <2>3 DEF Overtaken
    <3>2. Overtakes(w, i)
      BY <1>1, <1>2, <2>3, <3>1 DEF Overtakes
    <3> QED BY <3>2 DEF ByTable
  <2> QED BY <2>1, <2>2, <2>3
<1> QED BY <1>1, <1>2, <1>3, <1>4, <1>5, SeenKept, OneMoves

\* A job begins: of the steps up to the approval, or to execute or finalize.
LEMMA JobBegins ==
  ASSUME TypeOK, WorkInv, SeenOK, Apart, NEW w \in Workers, NEW i \in Imports,
         \/ begin(w, i, "created", "fetching", "fetch") \/ begin(w, i, "quarantined", "verifying", "verify")
         \/ execute(w, i) \/ finalize(w, i) \/ \E d \in Decisions : dryRun(w, i, d)
  PROVE  SeenOK' /\ \A k \in Imports : ByTable(k)
<1>1. MayStart(w, i) /\ State(i) \notin {"finalized", "discarded"} /\ job[w].at = "free"
  BY DEF begin, execute, finalize, dryRun, MayStart, MayExecute, MayDryRun
<1>2. \A v \in Workers \ {w} : job[v].imp = i => job[v].at \in Beside
  BY <1>1, Starting
<1>3. row[i].state = State(i) /\ row = [row EXCEPT ![i] = row[i]]
  BY DEF State, TypeOK
<1>4. CASE begin(w, i, "created", "fetching", "fetch")
  <2> DEFINE r == [row[i] EXCEPT !.state = "fetching"]
             j == [Free EXCEPT !.at = "fetch", !.imp = i, !.seen = "fetching"]
  <2>1. Put(i, r) /\ job' = [job EXCEPT ![w] = j] /\ State(i) = "created"
    BY <1>4 DEF begin, To
  <2>2. j.at = "fetch" /\ j.imp = i /\ j.seen = "fetching" /\ r.state = "fetching"
    BY DEF Free, TypeOK, Row
  <2>3. SeenFine(j, r.state) /\ r.state \in Table[State(i)]
    BY <2>1, <2>2 DEF SeenFine, Table
  <2> HIDE DEF r, j
  <2> QED BY <1>1, <1>2, <2>1, <2>2, <2>3, SeenStep
<1>5. CASE begin(w, i, "quarantined", "verifying", "verify")
  <2> DEFINE r == [row[i] EXCEPT !.state = "verifying"]
             j == [Free EXCEPT !.at = "verify", !.imp = i, !.seen = "verifying"]
  <2>1. Put(i, r) /\ job' = [job EXCEPT ![w] = j] /\ State(i) = "quarantined"
    BY <1>5 DEF begin, To
  <2>2. j.at = "verify" /\ j.imp = i /\ j.seen = "verifying" /\ r.state = "verifying"
    BY DEF Free, TypeOK, Row
  <2>3. SeenFine(j, r.state) /\ r.state \in Table[State(i)]
    BY <2>1, <2>2 DEF SeenFine, Table
  <2> HIDE DEF r, j
  <2> QED BY <1>1, <1>2, <2>1, <2>2, <2>3, SeenStep
<1>6. CASE execute(w, i)
  <2> DEFINE r == [row[i] EXCEPT !.state = "importing"]
             j == [Free EXCEPT !.at = "check", !.imp = i, !.seen = State(i)]
  <2>1. Put(i, r) /\ job' = [job EXCEPT ![w] = j] /\ State(i) \in {"approved", "importing", "failed"}
    BY <1>6 DEF execute, To, Goes, MayExecute
  <2>2. j.at = "check" /\ j.imp = i /\ r.state = "importing"
    BY DEF Free, TypeOK, Row
  <2>3. SeenFine(j, r.state) /\ r.state \in Table[State(i)] \cup {State(i)}
    BY <2>1, <2>2 DEF SeenFine, Table
  <2> HIDE DEF r, j
  <2> QED BY <1>1, <1>2, <2>1, <2>2, <2>3, SeenStep
<1>7. CASE finalize(w, i)
  <2> DEFINE j == [Free EXCEPT !.at = "promote", !.imp = i, !.seen = State(i),
                               !.had = files[i] \/ row[i].recon = "already"]
  <2>1. Put(i, row[i]) /\ job' = [job EXCEPT ![w] = j] /\ State(i) = "ready_to_finalize"
    BY <1>3, <1>7 DEF finalize, Put
  <2>2. j.at = "promote" /\ j.imp = i /\ j.seen = "ready_to_finalize"
    BY <2>1 DEF Free
  <2>3. SeenFine(j, row[i].state) /\ row[i].state \in {State(i)}
    BY <1>3, <2>1, <2>2 DEF SeenFine
  <2> HIDE DEF j
  <2> QED BY <1>1, <1>2, <2>1, <2>2, <2>3, SeenStep
<1>8. ASSUME NEW d \in Decisions, dryRun(w, i, d)
      PROVE  SeenOK' /\ \A k \in Imports : ByTable(k)
  <2> DEFINE j == [Free EXCEPT !.at = "dry", !.imp = i, !.seen = State(i), !.decisions = d]
  <2>1. Put(i, row[i]) /\ job' = [job EXCEPT ![w] = j] /\ State(i) \in {"dry_run_ready", "awaiting_approval"}
    BY <1>3, <1>8 DEF dryRun, Put, MayDryRun
  <2>2. j.at = "dry" /\ j.imp = i /\ j.seen = State(i)
    BY DEF Free
  <2>3. SeenFine(j, row[i].state) /\ row[i].state \in {State(i)}
    BY <1>3, <2>1, <2>2 DEF SeenFine
  <2> HIDE DEF j
  <2> QED BY <1>1, <1>2, <2>1, <2>2, <2>3, SeenStep
<1> QED BY <1>4, <1>5, <1>6, <1>7, <1>8

\* A job goes on, or ends.
LEMMA JobWorks ==
  ASSUME TypeOK, WorkInv, SeenOK, Apart, NEW w \in Workers, Work(w) \/ fail(w), job[w].at \notin {"discard", "approve"}
  PROVE  SeenOK' /\ \A k \in Imports : ByTable(k)
<1>1. job[w].at \in Sole
  BY DEF Work, fail, Blocked, fetched, verified, dryRunEnd, check, makeStaging, load, save, loaded, rebuilt, reconciled,
     promoted, discarded, approved, TypeOK, Job, Sole, Preparing, Executing
<1>2. PICK i \in Imports : i = job[w].imp
  BY <1>1, Working
<1>3. /\ row[i] \in Row /\ row[i].state = State(i) /\ row = [row EXCEPT ![i] = row[i]]
      /\ \A v \in Workers \ {w} : job[v].imp = i => job[v].at \in Beside
  BY <1>1, <1>2, Working DEF State, TypeOK
<1>4. SeenFine(job[w], State(i)) /\ job[w] \in Job /\ Free.at = "free"
  BY <1>2, FreeJob DEF SeenOK, TypeOK
\* A step that ends the job with a row of state s.
<1>5. ASSUME NEW r, Put(i, r), Ends(w),
             \/ r.state \in Table[State(i)] \cup {State(i)}
             \/ State(i) = "importing" /\ r.state = "ready_to_finalize" /\ r.recon = "already"
             \/ Overtaken(job[w].at, State(i)) /\ r.state \in Ending[job[w].at]
      PROVE  SeenOK' /\ \A k \in Imports : ByTable(k)
  <2>1. SeenFine(Free, r.state) /\ job' = [job EXCEPT ![w] = Free]
    BY <1>4, <1>5 DEF SeenFine, Ends
  <2> QED BY <1>2, <1>3, <1>4, <1>5, <2>1, SeenStep
\* A step after which the job is at a place that asks nothing of the state.
<1>6. ASSUME NEW r, Put(i, r), NEW at \in {"stage", "load", "save", "rebuild"}, NEW j, j.at = at, j.imp = i,
             job' = [job EXCEPT ![w] = j], r.state \in Table[State(i)] \cup {State(i)}
      PROVE  SeenOK' /\ \A k \in Imports : ByTable(k)
  <2>1. SeenFine(j, r.state)
    BY <1>6 DEF SeenFine
  <2> QED BY <1>2, <1>3, <1>6, <2>1, SeenStep
<1>7. CASE fetched(w)
  <2> DEFINE r == [row[i] EXCEPT !.state = "quarantined"]
  <2>1. Put(i, r) /\ Ends(w) /\ job[w].at = "fetch"
    BY <1>2, <1>7 DEF fetched, To
  <2>2. r.state \in Table[State(i)] \/ (Overtaken(job[w].at, State(i)) /\ r.state \in Ending[job[w].at])
    BY <1>3, <1>4, <2>1 DEF SeenFine, Overtaken, Ending, Table, Row
  <2> HIDE DEF r
  <2> QED BY <1>5, <2>1, <2>2
<1>8. CASE verified(w)
  <2> DEFINE r == [row[i] EXCEPT !.state = "dry_run_ready"]
  <2>1. Put(i, r) /\ Ends(w) /\ job[w].at = "verify"
    BY <1>2, <1>8 DEF verified, To
  <2>2. r.state \in Table[State(i)] \/ (Overtaken(job[w].at, State(i)) /\ r.state \in Ending[job[w].at])
    BY <1>3, <1>4, <2>1 DEF SeenFine, Overtaken, Ending, Table, Row
  <2> HIDE DEF r
  <2> QED BY <1>5, <2>1, <2>2
<1>9. CASE dryRunEnd(w)
  <2> DEFINE d == [row[i] EXCEPT !.decisions = job[w].decisions]
             ready == [d EXCEPT !.state = "awaiting_approval"]
             not == IF job[w].seen = "awaiting_approval" THEN [d EXCEPT !.state = "dry_run_ready"] ELSE d
  <2>1. (Put(i, ready) \/ Put(i, not)) /\ Ends(w) /\ job[w].at = "dry"
    BY <1>2, <1>9 DEF dryRunEnd
  <2>2. /\ ready.state = "awaiting_approval"
        /\ not.state = IF job[w].seen = "awaiting_approval" THEN "dry_run_ready" ELSE State(i)
    BY <1>3 DEF Row
  <2>3. /\ State(i) \in {"discarded", "approved"} => Overtaken(job[w].at, State(i))
        /\ ready.state \in Ending[job[w].at] /\ not.state \in Ending[job[w].at] \cup {State(i)}
    BY <2>1, <2>2 DEF Overtaken, Ending
  <2>4. State(i) \notin {"discarded", "approved"} =>
          ready.state \in Table[State(i)] \cup {State(i)} /\ not.state \in Table[State(i)] \cup {State(i)}
    BY <1>4, <2>1, <2>2 DEF SeenFine, Table
  <2> HIDE DEF ready, not
  <2> QED BY <1>5, <2>1, <2>3, <2>4
<1>10. CASE check(w)
  <2> DEFINE j == [job[w] EXCEPT !.at = "stage"]
             r == [row[i] EXCEPT !.state = "ready_to_finalize", !.recon = "already"]
  <2>1. j.at = "stage" /\ j.imp = i /\ r.state = "ready_to_finalize" /\ r.recon = "already"
    BY <1>2, <1>3, <1>4 DEF Job, Row
  <2>2. \/ Put(i, row[i]) /\ job' = [job EXCEPT ![w] = j]
        \/ Put(i, row[i]) /\ Ends(w)
        \/ State(i) = "importing" /\ Put(i, r) /\ Ends(w)
    BY <1>2, <1>3, <1>10 DEF check, At, Put
  <2> HIDE DEF j, r
  <2> QED BY <1>3, <1>5, <1>6, <2>1, <2>2
<1>11. CASE makeStaging(w)
  <2> DEFINE j == [job[w] EXCEPT !.at = "load"]
             r == [row[i] EXCEPT !.staging = TRUE]
  <2>1. j.at = "load" /\ j.imp = i /\ r.state = State(i)
    BY <1>2, <1>3, <1>4 DEF Job, Row
  <2>2. Put(i, r) /\ job' = [job EXCEPT ![w] = j]
    BY <1>2, <1>11 DEF makeStaging, At
  <2> HIDE DEF j, r
  <2> QED BY <1>6, <2>1, <2>2
<1>12. CASE load(w)
  <2> DEFINE s == NextOf(row[i].done)
             j == [job[w] EXCEPT !.at = "save", !.loose = @ \cup ({s} \cap Loose)]
  <2>1. j.at = "save" /\ j.imp = i
    BY <1>2, <1>4 DEF Job
  <2>2. Put(i, row[i]) /\ job' = [job EXCEPT ![w] = j]
    BY <1>2, <1>3, <1>4, <1>12 DEF load, Put
  <2> HIDE DEF j
  <2> QED BY <1>3, <1>6, <2>1, <2>2
<1>13. CASE save(w)
  <2> DEFINE j == [job[w] EXCEPT !.at = "load"]
             r == [row[i] EXCEPT !.done = @ \cup {NextOf(@)}]
  <2>1. j.at = "load" /\ j.imp = i /\ r.state = State(i)
    BY <1>2, <1>3, <1>4 DEF Job, Row
  <2>2. Put(i, r) /\ job' = [job EXCEPT ![w] = j]
    BY <1>2, <1>13 DEF save, At
  <2> HIDE DEF j, r
  <2> QED BY <1>6, <2>1, <2>2
<1>14. CASE loaded(w)
  <2> DEFINE j == [job[w] EXCEPT !.at = "rebuild"]
             r == [row[i] EXCEPT !.explained = @ \cup job[w].loose]
             on == [r EXCEPT !.state = "rebuilding"]
             off == [r EXCEPT !.state = FailTo(@, "failed")]
  <2>1. /\ j.at = "rebuild" /\ j.imp = i /\ on.state = "rebuilding" /\ off.state = FailTo(State(i), "failed")
    BY <1>2, <1>3, <1>4 DEF Job, Row
  <2>2. \/ State(i) = "importing" /\ Put(i, on) /\ job' = [job EXCEPT ![w] = j]
        \/ Put(i, off) /\ Ends(w)
    BY <1>2, <1>14 DEF loaded, At
  <2>3. State(i) = "importing" => on.state \in Table[State(i)]
    BY <2>1 DEF Table
  <2>4. off.state \in Table[State(i)] \cup {State(i)}
    BY <2>1 DEF FailTo
  <2> HIDE DEF j, on, off
  <2> QED BY <1>5, <1>6, <2>1, <2>2, <2>3, <2>4
<1>15. CASE rebuilt(w)
  <2> DEFINE j == [job[w] EXCEPT !.at = "reconcile", !.seen = "reconciling"]
             on == [row[i] EXCEPT !.state = "reconciling"]
             off == [row[i] EXCEPT !.state = FailTo(State(i), "failed")]
  <2>1. /\ j.at = "reconcile" /\ j.seen = "reconciling" /\ j.imp = i
        /\ on.state = "reconciling" /\ off.state = FailTo(State(i), "failed")
    BY <1>2, <1>3, <1>4 DEF Job, Row
  <2>2. \/ State(i) = "rebuilding" /\ Put(i, on) /\ job' = [job EXCEPT ![w] = j]
        \/ Put(i, off) /\ Ends(w)
    BY <1>2, <1>4, <1>15 DEF rebuilt, To
  <2>3. State(i) = "rebuilding" => on.state \in Table[State(i)]
    BY <2>1 DEF Table
  <2>4. off.state \in Table[State(i)] \cup {State(i)}
    BY <2>1 DEF FailTo
  <2>5. SeenFine(j, on.state)
    BY <2>1 DEF SeenFine
  <2> HIDE DEF j, on, off
  <2>6. CASE State(i) = "rebuilding" /\ Put(i, on) /\ job' = [job EXCEPT ![w] = j]
    BY <1>2, <1>3, <2>1, <2>3, <2>5, <2>6, SeenStep
  <2> QED BY <1>5, <2>2, <2>4, <2>6
<1>16. CASE reconciled(w)
  <2> DEFINE passed == stage[i] = Steps /\ Loose \subseteq row[i].explained
             r == [row[i] EXCEPT !.state = IF passed THEN "ready_to_finalize" ELSE "failed",
                                 !.recon = IF passed THEN "passed" ELSE "failed"]
  <2>1. Put(i, r) /\ Ends(w) /\ job[w].at = "reconcile"
    BY <1>2, <1>16 DEF reconciled
  <2>2. r.state \in {"ready_to_finalize", "failed"}
    BY <1>3 DEF Row
  <2>3. r.state \in Table[State(i)] \/ (Overtaken(job[w].at, State(i)) /\ r.state \in Ending[job[w].at])
    BY <1>4, <2>1, <2>2 DEF SeenFine, Overtaken, Ending, Table
  <2> HIDE DEF r
  <2> QED BY <1>5, <2>1, <2>3
<1>17. CASE promoted(w)
  <2> DEFINE r == [row[i] EXCEPT !.state = "finalized"]
  <2>1. Put(i, r) /\ Ends(w) /\ job[w].at = "promote"
    BY <1>2, <1>17 DEF promoted, To
  <2>2. r.state \in Table[State(i)] \/ (Overtaken(job[w].at, State(i)) /\ r.state \in Ending[job[w].at])
    BY <1>3, <1>4, <2>1 DEF SeenFine, Overtaken, Ending, Table, Row
  <2> HIDE DEF r
  <2> QED BY <1>5, <2>1, <2>2
<1>18. CASE fail(w)
  <2>1. ASSUME NEW to \in {"invalid", "failed"}, To(i, FailTo(State(i), to)), Ends(w)
        PROVE  SeenOK' /\ \A k \in Imports : ByTable(k)
    <3> DEFINE r == [row[i] EXCEPT !.state = FailTo(State(i), to)]
    <3>1. Put(i, r) /\ r.state = FailTo(State(i), to)
      BY <1>3, <2>1 DEF To, Row
    <3>2. r.state \in Table[State(i)] \cup {State(i)}
      BY <3>1 DEF FailTo
    <3> HIDE DEF r
    <3> QED BY <1>5, <2>1, <3>1, <3>2
  <2>2. CASE UNCHANGED row
    <3>1. Put(i, row[i]) /\ Ends(w)
      BY <1>3, <1>18, <2>2 DEF fail, Put
    <3> QED BY <1>3, <1>5, <3>1
  <2>3. Ends(w) /\ \/ To(i, FailTo(State(i), "invalid"))
                   \/ To(i, FailTo(State(i), "failed"))
                   \/ UNCHANGED row
    BY <1>2, <1>18 DEF fail, Fails
  <2> QED BY <2>1, <2>2, <2>3
<1> QED BY <1>7, <1>8, <1>9, <1>10, <1>11, <1>12, <1>13, <1>14, <1>15, <1>16, <1>17, <1>18 DEF Work, discarded, approved

\* People, a discard, what retains, what happens elsewhere and the end of the process.
LEMMA OthersMove ==
  ASSUME TypeOK, WorkInv, SeenOK, Apart,
         \/ \E i \in Imports : upload(i) \/ cleanup(i)
         \/ \E w \in Workers, i \in Imports : discard(w, i) \/ approve(w, i)
         \/ \E w \in Workers : discarded(w) \/ approved(w)
         \/ \E e \in Exports : another(e)
         \/ crash \/ UNCHANGED vars
  PROVE  SeenOK' /\ \A k \in Imports : ByTable(k)
\* One row moves to a state that all jobs on it allow.
<1>1. ASSUME NEW i \in Imports, NEW s, To(i, s), \A w \in Workers : job'[w] = job[w] \/ job'[w].at = "free",
             \A w \in Workers : job[w].imp = i => SeenFine(job[w], s),
             (row'[i].state = s) => ByTable(i)
      PROVE  SeenOK' /\ \A k \in Imports : ByTable(k)
  <2> DEFINE r == [row[i] EXCEPT !.state = s]
  <2>1. Put(i, r) /\ r.state = s
    BY <1>1 DEF To, TypeOK, Row
  <2> HIDE DEF r
  <2>2. row'[i].state = s /\ \A k \in Imports \ {i} : State(k)' = State(k)
    BY <2>1, Put1 DEF State
  <2>3. \A w \in Workers : job'[w].at = "free" => SeenFine(job'[w], row'[job'[w].imp].state)
    BY DEF SeenFine
  <2>4. SeenOK'
    BY <1>1, <2>2, <2>3, SeenKept
  <2> QED BY <1>1, <2>2, <2>4, OneMoves
\* No row moves.
<1>2. ASSUME UNCHANGED row,
             \A w \in Workers : \/ job'[w] = job[w]
                                \/ job'[w].at \in {"free", "discard"}
                                \/ job'[w].at = "approve" /\ State(job'[w].imp) \in Since
      PROVE  SeenOK' /\ \A k \in Imports : ByTable(k)
  <2>1. \A w \in Workers : SeenFine(job[w], row[job[w].imp].state)
    BY DEF SeenOK, State
  <2>2. SeenOK'
    BY <1>2, <2>1 DEF SeenOK, SeenFine, State
  <2> QED BY <1>2, <2>2 DEF ByTable, State
<1>3. ASSUME NEW i \in Imports, upload(i)
      PROVE  SeenOK' /\ \A k \in Imports : ByTable(k)
  <2>1. To(i, "quarantined") /\ State(i) = "created" /\ UNCHANGED job
    BY <1>3 DEF upload
  <2>2. \A w \in Workers : job[w].imp = i => SeenFine(job[w], "quarantined")
    BY <2>1 DEF SeenOK, SeenFine, Since, Past
  <2>3. row'[i].state = "quarantined" => ByTable(i)
    BY <2>1 DEF ByTable, State, Table
  <2> QED BY <1>1, <2>1, <2>2, <2>3
<1>4. ASSUME NEW w \in Workers, NEW i \in Imports, approve(w, i)
      PROVE  SeenOK' /\ \A k \in Imports : ByTable(k)
  <2> DEFINE j == [Free EXCEPT !.at = "approve", !.imp = i, !.seen = State(i), !.decisions = row[i].decisions]
  <2>1. /\ job' = [job EXCEPT ![w] = j] /\ j.at = "approve" /\ j.imp = i /\ State(i) = "awaiting_approval"
        /\ UNCHANGED row
    BY <1>4 DEF approve, Free
  <2> HIDE DEF j
  <2>2. State(j.imp) \in Since
    BY <2>1 DEF Since
  <2>3. \A v \in Workers : job'[v] = job[v] \/ (job'[v].at = "approve" /\ State(job'[v].imp) \in Since)
    BY <2>1, <2>2, Job1
  <2> QED BY <1>2, <2>1, <2>3
<1>5. ASSUME NEW w \in Workers, NEW i \in Imports, discard(w, i)
      PROVE  SeenOK' /\ \A k \in Imports : ByTable(k)
  <2> DEFINE j == [Free EXCEPT !.at = "discard", !.imp = i, !.seen = State(i)]
  <2>1. job' = [job EXCEPT ![w] = j] /\ j.at = "discard" /\ UNCHANGED row
    BY <1>5 DEF discard, Goes, Free
  <2> HIDE DEF j
  <2>2. \A v \in Workers : job'[v] = job[v] \/ job'[v].at = "discard"
    BY <2>1, Job1
  <2> QED BY <1>2, <2>1, <2>2
<1>6. ASSUME NEW w \in Workers, discarded(w)
      PROVE  SeenOK' /\ \A k \in Imports : ByTable(k)
  <2>1. PICK i \in Imports : i = job[w].imp
    BY DEF TypeOK, Job
  <2>2. To(i, "discarded") /\ job' = [job EXCEPT ![w] = Free] /\ job[w].at = "discard"
    BY <1>6, <2>1 DEF discarded, Ends
  <2>3. job'[w].at = "free" /\ \A v \in Workers : job'[v] = job[v] \/ job'[v].at = "free"
    BY <2>2, FreeJob, Job1
  <2>4. \A v \in Workers : job[v].imp = i => SeenFine(job[v], "discarded")
    <3>1. "discarded" \in Since
      BY DEF Since, Past
    <3> QED BY <2>1, <3>1 DEF SeenOK, SeenFine
  <2>5. CASE State(i) = "finalized"
    <3>1. ASSUME row'[i].state = "discarded" PROVE Overtakes(w, i)
      BY <2>1, <2>2, <2>3, <2>5, <3>1 DEF Overtakes, Overtaken, Ending, State
    <3>2. row'[i].state = "discarded" => ByTable(i)
      BY <3>1 DEF ByTable
    <3> QED BY <1>1, <2>2, <2>3, <2>4, <3>2
  <2>6. CASE State(i) # "finalized"
    <3>1. row'[i].state = "discarded" => ByTable(i)
      BY <2>6 DEF ByTable, State, MayDiscard
    <3> QED BY <1>1, <2>2, <2>3, <2>4, <3>1
  <2> QED BY <2>5, <2>6
<1>9. ASSUME NEW w \in Workers, approved(w)
      PROVE  SeenOK' /\ \A k \in Imports : ByTable(k)
  <2>1. PICK i \in Imports : i = job[w].imp
    BY DEF TypeOK, Job
  <2> DEFINE asRead == State(i) = job[w].seen /\ row[i].decisions = job[w].decisions
             r == [row[i] EXCEPT !.state = "approved", !.approved = IF asRead THEN row[i].decisions ELSE "unread"]
  <2>2. Put(i, r) /\ job' = [job EXCEPT ![w] = Free] /\ job[w].at = "approve"
    BY <1>9, <2>1 DEF approved, Ends
  <2>3. r.state = "approved"
    BY DEF TypeOK, Row
  <2> HIDE DEF r
  <2>4. job'[w].at = "free" /\ \A v \in Workers \ {w} : job'[v] = job[v]
    BY <2>2, FreeJob, Job1
  <2>5. State(i) \in Since
    BY <2>1, <2>2 DEF SeenOK, SeenFine
  <2>6. row'[i].state = "approved" /\ State(i)' = "approved" /\ \A k \in Imports \ {i} : State(k)' = State(k)
    BY <2>2, <2>3, Put1 DEF State
  <2>7. \A v \in Workers \ {w} : job[v].imp = i => SeenFine(job[v], "approved")
    <3> SUFFICES ASSUME NEW v \in Workers, job[v].imp = i PROVE SeenFine(job[v], "approved")
      OBVIOUS
    <3>0. job[v].imp = job[w].imp
      BY <2>1
    <3>1. SeenFine(job[v], State(i)) /\ job[v].at \notin {"fetch", "verify"}
      <4>1. SeenFine(job[v], State(i))
        BY <2>1, <3>0 DEF SeenOK
      <4>2. job[v].at \notin {"fetch", "verify"}
        BY <2>2, <3>0 DEF Apart
      <4> QED BY <4>1, <4>2
    <3>2. job[v].at = "reconcile" \/ job[v].at = "promote" \/ job[v].at = "dry" \/ job[v].at = "approve"
            \/ SeenFine(job[v], "approved")
      BY <3>1 DEF SeenFine
    <3> QED BY <2>5, <3>1, <3>2 DEF SeenFine, Since, Past
  <2>8. SeenOK'
    <3>1. \A v \in Workers : \/ SeenFine(job'[v], row'[job'[v].imp].state)
                             \/ job'[v] = job[v] /\ (job[v].imp = i => SeenFine(job[v], row'[i].state))
      <4>1. SeenFine(job'[w], row'[job'[w].imp].state)
        BY <2>4 DEF SeenFine
      <4>2. \A v \in Workers \ {w} : job'[v] = job[v] /\ (job[v].imp = i => SeenFine(job[v], row'[i].state))
        BY <2>4, <2>6, <2>7 DEF SeenFine
      <4> QED BY <4>1, <4>2
    <3> QED BY <2>6, <3>1, SeenKept
  <2>9. ByTable(i)
    <3>1. CASE State(i) = "awaiting_approval"
      BY <2>6, <3>1 DEF ByTable, Table
    <3>2. CASE State(i) # "awaiting_approval"
      <4>1. Overtakes(w, i)
        BY <2>1, <2>2, <2>4, <2>5, <2>6, <3>2 DEF Overtakes, Overtaken, Ending
      <4> QED BY <4>1 DEF ByTable
    <3> QED BY <3>1, <3>2
  <2> QED BY <2>6, <2>8, <2>9, OneMoves
<1>7. CASE (\E i \in Imports : cleanup(i)) \/ (\E e \in Exports : another(e)) \/ UNCHANGED vars
  BY <1>2, <1>7 DEF cleanup, another, vars
<1>8. CASE crash
  <2>1. UNCHANGED row /\ \A w \in Workers : job'[w].at = "free"
    BY <1>8, FreeJob DEF crash
  <2> QED BY <1>2, <2>1
<1> QED BY <1>3, <1>4, <1>5, <1>6, <1>7, <1>8, <1>9

\* An approval begins where no archive is fetched or verified, and they where none is under way.
LEMMA ApartStep ==
  ASSUME TypeOK, WorkInv, SeenOK, Apart, [Next]_vars
  PROVE  Apart'
<1>1. ASSUME NEW w \in Workers, NEW j, NEW i \in Imports, job' = [job EXCEPT ![w] = j], j.imp = i,
             \/ j.at \notin {"fetch", "verify", "approve"}
             \/ j.at \in {"fetch", "verify"} /\ State(i) \in {"created", "quarantined"}
             \/ j.at = "approve" /\ State(i) = "awaiting_approval"
      PROVE  Apart'
  <2>1. job'[w] = j /\ \A v \in Workers \ {w} : job'[v] = job[v]
    BY <1>1, Job1
  <2>2. \A v \in Workers : job[v].imp = i => SeenFine(job[v], State(i))
    BY DEF SeenOK
  <2>3. State(i) \in {"created", "quarantined"} => \A v \in Workers : job[v].imp = i => job[v].at # "approve"
    BY <2>2 DEF SeenFine, Since, Past
  <2>4. State(i) = "awaiting_approval" => \A v \in Workers : job[v].imp = i => job[v].at \notin {"fetch", "verify"}
    BY <2>2 DEF SeenFine
  <2> QED BY <1>1, <2>1, <2>3, <2>4 DEF Apart
<1>2. ASSUME \A v \in Workers : job'[v] = job[v] \/ job'[v].at \notin {"fetch", "verify", "approve"}
      PROVE  Apart'
  BY <1>2 DEF Apart
<1>3. ASSUME NEW w \in Workers, NEW i \in Imports,
             begin(w, i, "created", "fetching", "fetch") \/ begin(w, i, "quarantined", "verifying", "verify")
      PROVE  Apart'
  <2>1. PICK at \in {"fetch", "verify"}, during \in {"fetching", "verifying"} :
          job' = [job EXCEPT ![w] = [Free EXCEPT !.at = at, !.imp = i, !.seen = during]]
    BY <1>3 DEF begin
  <2> DEFINE j == [Free EXCEPT !.at = at, !.imp = i, !.seen = during]
  <2>2. j.at = at /\ j.imp = i /\ State(i) \in {"created", "quarantined"}
    BY <1>3 DEF begin, Free
  <2>3. job' = [job EXCEPT ![w] = j]
    BY <2>1
  <2> HIDE DEF j
  <2> QED BY <1>1, <2>2, <2>3
<1>4. ASSUME NEW w \in Workers, NEW i \in Imports, approve(w, i)
      PROVE  Apart'
  <2> DEFINE j == [Free EXCEPT !.at = "approve", !.imp = i, !.seen = State(i), !.decisions = row[i].decisions]
  <2>1. job' = [job EXCEPT ![w] = j] /\ j.at = "approve" /\ j.imp = i /\ State(i) = "awaiting_approval"
    BY <1>4 DEF approve, Free
  <2> HIDE DEF j
  <2> QED BY <1>1, <2>1
<1>5. ASSUME NEW w \in Workers, NEW i \in Imports,
             execute(w, i) \/ finalize(w, i) \/ discard(w, i) \/ \E d \in Decisions : dryRun(w, i, d)
      PROVE  Apart'
  <2>1. \E j : job' = [job EXCEPT ![w] = j] /\ j.at \notin {"fetch", "verify", "approve"}
    <3>2. CASE execute(w, i)
      <4> DEFINE j == [Free EXCEPT !.at = "check", !.imp = i, !.seen = State(i)]
      <4>1. job' = [job EXCEPT ![w] = j] /\ j.at = "check"
        BY <3>2 DEF execute, Goes, Free
      <4> HIDE DEF j
      <4> QED BY <4>1
    <3>3. CASE discard(w, i)
      <4> DEFINE j == [Free EXCEPT !.at = "discard", !.imp = i, !.seen = State(i)]
      <4>1. job' = [job EXCEPT ![w] = j] /\ j.at = "discard"
        BY <3>3 DEF discard, Goes, Free
      <4> HIDE DEF j
      <4> QED BY <4>1
    <3>4. CASE finalize(w, i)
      <4> DEFINE j == [Free EXCEPT !.at = "promote", !.imp = i, !.seen = State(i),
                                   !.had = files[i] \/ row[i].recon = "already"]
      <4>1. job' = [job EXCEPT ![w] = j] /\ j.at = "promote"
        BY <3>4 DEF finalize, Free
      <4> HIDE DEF j
      <4> QED BY <4>1
    <3>5. CASE \E d \in Decisions : dryRun(w, i, d)
      <4>1. PICK d \in Decisions : dryRun(w, i, d)
        BY <3>5
      <4> DEFINE j == [Free EXCEPT !.at = "dry", !.imp = i, !.seen = State(i), !.decisions = d]
      <4>2. job' = [job EXCEPT ![w] = j] /\ j.at = "dry"
        BY <4>1 DEF dryRun, Free
      <4> HIDE DEF j
      <4> QED BY <4>2
    <3> QED BY <1>5, <3>2, <3>3, <3>4, <3>5
  <2>2. PICK j : job' = [job EXCEPT ![w] = j] /\ j.at \notin {"fetch", "verify", "approve"}
    BY <2>1
  <2>3. \A v \in Workers : job'[v] = job[v] \/ job'[v].at \notin {"fetch", "verify", "approve"}
    BY <2>2, Job1
  <2> QED BY <1>2, <2>3
<1>6. ASSUME NEW w \in Workers, Work(w) \/ fail(w)
      PROVE  Apart'
  <2>1. PICK j : job' = [job EXCEPT ![w] = j] /\ j.at \in {"free", "stage", "load", "save", "rebuild", "reconcile"}
    <3>1. Free.at = "free" /\ job[w] \in Job
      BY FreeJob DEF TypeOK
    <3>2. \A at : [job[w] EXCEPT !.at = at].at = at
      BY <3>1 DEF Job
    <3>3. CASE \E at \in {"stage", "load", "save", "rebuild", "reconcile"} : At(w, at)
      BY <3>2, <3>3 DEF At
    <3>4. CASE Ends(w)
      BY <3>1, <3>4 DEF Ends
    <3>5. CASE load(w)
      <4> DEFINE s == NextOf(row[job[w].imp].done)
                 j == [job[w] EXCEPT !.at = "save", !.loose = @ \cup ({s} \cap Loose)]
      <4>1. j.at = "save" /\ job' = [job EXCEPT ![w] = j]
        BY <3>1, <3>5 DEF load, Job, TypeOK
      <4> HIDE DEF j
      <4> QED BY <4>1
    <3>6. CASE rebuilt(w) /\ ~Ends(w)
      <4> DEFINE j == [job[w] EXCEPT !.at = "reconcile", !.seen = "reconciling"]
      <4>1. j.at = "reconcile" /\ job' = [job EXCEPT ![w] = j]
        BY <3>1, <3>6 DEF rebuilt, Job, TypeOK
      <4> HIDE DEF j
      <4> QED BY <4>1
    <3> QED BY <1>6, <3>3, <3>4, <3>5, <3>6 DEF Work, fail, fetched, verified, dryRunEnd, check, makeStaging, save,
      loaded, reconciled, promoted, discarded, approved
  <2>2. \A v \in Workers : job'[v] = job[v] \/ job'[v].at \notin {"fetch", "verify", "approve"}
    BY <2>1, Job1
  <2> QED BY <1>2, <2>2
<1>7. CASE (\E i \in Imports : upload(i) \/ cleanup(i)) \/ (\E e \in Exports : another(e)) \/ UNCHANGED vars
  BY <1>2, <1>7 DEF upload, cleanup, another, vars
<1>8. CASE crash
  <2>1. \A w \in Workers : job'[w].at = "free"
    BY <1>8, FreeJob DEF crash
  <2> QED BY <1>2, <2>1
<1> QED BY <1>3, <1>4, <1>5, <1>6, <1>7, <1>8 DEF Next

\* Every step.
LEMMA TableStep ==
  ASSUME TypeOK, WorkInv, SeenOK, Apart, [Next]_vars
  PROVE  SeenOK' /\ \A k \in Imports : ByTable(k)
<1>1. ASSUME NEW w \in Workers, Work(w) \/ fail(w)
      PROVE  discarded(w) \/ approved(w) \/ job[w].at \notin {"discard", "approve"}
  BY <1>1 DEF Work, fail, Blocked, fetched, verified, dryRunEnd, check, makeStaging, load, save, loaded, rebuilt,
     reconciled, promoted
<1>2. ASSUME NEW w \in Workers, Work(w) \/ fail(w)
      PROVE  SeenOK' /\ \A k \in Imports : ByTable(k)
  BY <1>1, <1>2, JobWorks, OthersMove
<1>3. ASSUME NEW w \in Workers, NEW i \in Imports,
             \/ begin(w, i, "created", "fetching", "fetch") \/ begin(w, i, "quarantined", "verifying", "verify")
             \/ execute(w, i) \/ finalize(w, i) \/ discard(w, i) \/ approve(w, i)
             \/ \E d \in Decisions : dryRun(w, i, d)
      PROVE  SeenOK' /\ \A k \in Imports : ByTable(k)
  <2>1. CASE discard(w, i) \/ approve(w, i)
    BY <2>1, OthersMove
  <2>2. CASE ~(discard(w, i) \/ approve(w, i))
    BY <1>3, <2>2, JobBegins
  <2> QED BY <2>1, <2>2
<1> QED BY <1>2, <1>3, OthersMove DEF Next

\* The order of lifecycle.py, "Every transition is checked": an import moves as the table says, except where the
\* last commit of a job or a request goes over what happened since it read the row, and puts it where that step
\* ends: a fetch or a verification over a discard, a dry run, a reconciliation or a promotion over a discard or an
\* approval, a discard over a promotion, and an approval over any state from the first dry run on.
THEOREM MovesByTable == Spec => [][\A i \in Imports : ByTable(i)]_vars
<1>1. Init => SeenOK /\ Apart
  BY FreeJob DEF Init, SeenOK, SeenFine, Apart
<1>2. TypeOK /\ WorkInv /\ SeenOK /\ Apart /\ [Next]_vars => SeenOK' /\ Apart'
  BY TableStep, ApartStep
<1>3. TypeOK /\ WorkInv /\ SeenOK /\ Apart /\ [Next]_vars => [\A i \in Imports : ByTable(i)]_vars
  BY TableStep
<1> QED BY <1>1, <1>2, <1>3, Holds, PTL DEF Spec
===============================================================================
