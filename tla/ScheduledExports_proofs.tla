----------------------- MODULE ScheduledExports_proofs -----------------------
(***************************************************************************)
(* One runner at a time, as long as no run outlives its claim; the types;  *)
(* the chain of increments, which the last step of a run extends and every *)
(* other step leaves as it is; and what becomes of an export that no       *)
(* commit went over.                                                       *)
(***************************************************************************)
EXTENDS ScheduledExports, TLAPS

\* The runners are known, a person's work never writes to the schedule, and a claim that can be taken is
\* nobody's: it is given back by its own run, or turns stale after its runner has died.
Claimed ==
  /\ run = [x \in Who |-> run[x]]
  /\ run[Hand].at # "finish"
  /\ claim \in {"free", "stale"} => \A r \in Runners : run[r].at = "idle"
  /\ OneRunner

\* Run r goes to another place, and a person's never to the one where the schedule is written.
Moves(r) == \E place : run' = [run EXCEPT ![r] = place] /\ (r = Hand => place.at # "finish")

\* Where a run goes next.
LEMMA WaysOn ==
  ASSUME NEW r \in Who
  PROVE  /\ \A at, e : Goes(r, at, e) /\ at # "finish" => Moves(r)
         /\ run' = [run EXCEPT ![r] = Idle] => Moves(r)
         /\ \A outcome, e : Ends(r, outcome, e) => Moves(r)
<1>1. ASSUME NEW at, NEW e, Goes(r, at, e), at # "finish"
      PROVE  Moves(r)
  <2> DEFINE place == [at |-> at, exp |-> e, outcome |-> "none"]
  <2>1. run' = [run EXCEPT ![r] = place] /\ place.at # "finish"
    BY <1>1 DEF Goes
  <2> HIDE DEF place
  <2> QED BY <2>1 DEF Moves
<1>2. ASSUME run' = [run EXCEPT ![r] = Idle]
      PROVE  Moves(r)
  <2>1. Idle.at # "finish"
    BY DEF Idle
  <2> QED BY <1>2, <2>1 DEF Moves
<1>3. ASSUME NEW outcome, NEW e, Ends(r, outcome, e), r # Hand
      PROVE  Moves(r)
  BY <1>3 DEF Ends, Moves
<1>4. ASSUME NEW outcome, NEW e, Ends(r, outcome, e), r = Hand
      PROVE  run' = [run EXCEPT ![r] = Idle]
  BY <1>4 DEF Ends
<1> QED BY <1>1, <1>2, <1>3, <1>4

\* A step of a run that is not its last one leaves the claim alone.
LEMMA StepMoves ==
  ASSUME NEW r \in Who, Step(r), ~Finish(r)
  PROVE  Moves(r) /\ claim' = claim /\ run[r].at # "idle"
<1>1. CASE Begin(r)
  BY <1>1, WaysOn DEF Begin, schedule
<1>2. CASE Create(r)
  BY <1>2, WaysOn DEF Create, schedule
<1>3. CASE CarryOn(r)
  BY <1>3, WaysOn DEF CarryOn, schedule
<1>4. CASE Generate(r)
  BY <1>4, WaysOn DEF Generate, Passes, schedule
<1>5. CASE Generated(r)
  BY <1>5, WaysOn DEF Generated, schedule
<1>6. CASE Publish(r)
  BY <1>6, WaysOn DEF Publish, Passes, schedule
<1>7. CASE Push(r)
  BY <1>7, WaysOn DEF Push, schedule
<1>8. CASE Published(r)
  BY <1>8, WaysOn DEF Published, schedule
<1> QED BY <1>1, <1>2, <1>3, <1>4, <1>5, <1>6, <1>7, <1>8 DEF Step

\* A run that moves and leaves the claim alone was under way before.
LEMMA MovesKeep ==
  ASSUME NEW r \in Who, Claimed, Moves(r), claim' = claim, r \in Runners => run[r].at # "idle"
  PROVE  Claimed'
<1>1. PICK place : run' = [run EXCEPT ![r] = place] /\ (r = Hand => place.at # "finish")
  BY DEF Moves
<1>2. run' = [x \in Who |-> run'[x]]
  BY <1>1 DEF Claimed
<1>3. \A x \in Who : x # r => run'[x] = run[x]
  BY <1>1 DEF Claimed
<1>4. run'[Hand].at # "finish"
  BY <1>1 DEF Claimed, Who
<1>5. claim' \in {"free", "stale"} => \A x \in Runners : run'[x].at = "idle"
  BY <1>3 DEF Claimed, Who
<1>6. OneRunner'
  BY <1>3 DEF Claimed, OneRunner, Who
<1> QED BY <1>2, <1>4, <1>5, <1>6 DEF Claimed

\* The claims and the runs stay together.
LEMMA ClaimedStep ==
  ASSUME ~Slow, Claimed, [Next]_vars
  PROVE  Claimed'
<1> USE ScheduleAssumption
<1>1. ASSUME NEW r \in Runners, NEW force \in BOOLEAN, Claim(r, force)
      PROVE  Claimed'
  <2>1. /\ \A x \in Runners : run[x].at = "idle"
        /\ run' = [run EXCEPT ![r] = [at |-> "begin", exp |-> 0, outcome |-> "none"]]
        /\ claim' = "fresh"
    BY <1>1 DEF Claim, MayClaim, Goes, Claimed
  <2> QED BY <2>1 DEF Claimed, OneRunner, Who
<1>2. ASSUME NEW r \in Who, Step(r)
      PROVE  Claimed'
  <2>1. CASE Finish(r)
    <3>1. run[r].at = "finish" /\ run' = [run EXCEPT ![r] = Idle] /\ r \in Runners
      BY <2>1 DEF Finish, Claimed, Who
    <3>2. run' = [x \in Who |-> run'[x]] /\ \A x \in Runners : run'[x].at = "idle"
      BY <3>1 DEF Claimed, OneRunner, Idle, Who
    <3> QED BY <3>1, <3>2 DEF Claimed, OneRunner, Who
  <2>2. CASE ~Finish(r)
    BY <1>2, <2>2, StepMoves, MovesKeep
  <2> QED BY <2>1, <2>2
<1>3. ASSUME NEW r \in Who, Crash(r) \/ Fails(r)
      PROVE  Claimed'
  <2>1. Moves(r) /\ claim' = claim /\ run[r].at # "idle"
    BY <1>3, WaysOn DEF Crash, Fails, schedule
  <2> QED BY <2>1, MovesKeep
<1>4. ASSUME NEW e \in DOMAIN exports, ByHand(e)
      PROVE  Claimed'
  <2>1. Moves(Hand) /\ claim' = claim
    BY <1>4, WaysOn DEF ByHand, schedule, Who
  <2> QED BY <2>1, MovesKeep DEF Who
<1>5. ASSUME NEW e \in DOMAIN exports, Touch(e)
      PROVE  Claimed'
  BY <1>5 DEF Touch, schedule, Claimed, OneRunner
<1>6. CASE Edit
  BY <1>6 DEF Edit, schedule, Claimed, OneRunner
<1>7. CASE Change
  BY <1>7 DEF Change, Claimed, OneRunner
<1>8. CASE Remove
  BY <1>8 DEF Remove, Claimed, OneRunner
<1>9. CASE TurnStale
  BY <1>9 DEF TurnStale, Claimed, OneRunner
<1>10. CASE UNCHANGED vars
  BY <1>10 DEF vars, schedule, Claimed, OneRunner
<1> QED BY <1>1, <1>2, <1>3, <1>4, <1>5, <1>6, <1>7, <1>8, <1>9, <1>10 DEF Next

\* schedules.py, "two runners never run it at once": for any number of runners, whenever they die and
\* whatever people do to the schedule and its exports, no two runs of it are under way, as long as no
\* run lasts longer than its claim is respected (STALE_RUN).
THEOREM RunsAlone == ASSUME ~Slow PROVE Spec => []OneRunner
<1>1. Init => Claimed
  BY ScheduleAssumption DEF Init, Idle, Claimed, OneRunner, Who
<1>2. Claimed /\ [Next]_vars => Claimed'
  BY ClaimedStep
<1>3. Claimed => OneRunner
  BY DEF Claimed
<1> QED BY <1>1, <1>2, <1>3, PTL DEF Spec

----------------------------------------------------------------------------
(* The exports and the runs that work on them *)

\* The states of an export that was published, whatever became of it.
Over == {"published", "revoked", "expired"}

\* The states in which a session works on an export, and where it is then.
Busy == {"generating", "publishing"}

Working == {"generating", "pushing", "pushed"}

\* Where a run has an export.
Holding == Working \cup {"create", "carry", "settled", "generate", "publish"}

\* A run at a place has an export that is where the run left it, or that was written over.
PlaceOK(place, ex) ==
  /\ place.exp \in 0..Len(ex) \/ (place.at = "finish" /\ place.exp = Gone /\ place.outcome # "published")
  /\ place.at \in {"idle", "begin"} => place.exp = 0
  /\ place.at \in Holding => place.exp # 0
  /\ place.at = "generating" => ex[place.exp].over \/ ex[place.exp].state = "generating"
  /\ place.at \in {"pushing", "pushed"} => ex[place.exp].over \/ ex[place.exp].state = "publishing"
  /\ place.at = "pushed" => ex[place.exp].left
  /\ place.at = "finish" /\ place.outcome = "published"
       => place.exp # 0 /\ ex[place.exp].git /\ (ex[place.exp].over \/ ex[place.exp].state \in Over)

\* Two sessions work on one export only after a commit over what was not read.
Alone ==
  \A r, x \in Who :
    run[r].at \in Working /\ run[x].at \in Working /\ run[r].exp = run[x].exp /\ r # x => exports[run[r].exp].over

\* What is published was recorded and is in the working clone, and so is what the schedule has noted.
ExportsOK ==
  /\ \A e \in 1..Len(exports) : State(e) = "published" => exports[e].git
  /\ \A e \in 1..Len(exports) : exports[e].git => exports[e].left
  /\ \A e \in 1..Len(exports) : exports[e].noted => exports[e].git /\ (exports[e].over \/ State(e) \in Over)
  /\ exports[lastPublished].noted

WorkInv == (\A r \in Who : PlaceOK(run[r], exports)) /\ Alone /\ ExportsOK

\* The table of lifecycle.EXPORT, from one commit to the next; what a request goes through before its first
\* commit (requested, analysing), or between a checkpoint and its commit (verifying), nobody else sees.
May(s, t) ==
  \/ s = t
  \/ s = "awaiting_approval" /\ t \in {"approved", "revoked"}
  \/ s = "approved" /\ t \in {"generating", "revoked"}
  \/ s = "generating" /\ t \in {"ready_to_publish", "failed"}
  \/ s = "ready_to_publish" /\ t \in {"publishing", "revoked", "expired"}
  \/ s = "publishing" /\ t \in {"published", "failed", "ready_to_publish"}
  \/ s = "published" /\ t \in {"revoked", "expired"}
  \/ s = "failed" /\ t \in {"awaiting_approval", "revoked"}

\* An export that no commit went over goes by the table, and gets its content by a generation only; and any
\* continues what it was made to continue, and is published only once it was pushed.
Keeps(o, n) ==
  /\ n.over \/ May(o.state, n.state)
  /\ n.over \/ o.state = "generating" \/ n.level = o.level
  /\ o.over => n.over
  /\ n.base = o.base
  /\ o.git => n.git
  /\ o.left => n.left
  /\ n.state = "published" => o.left

\* An export goes from one record to another; only the end of a run notes it.
Follows(o, n) ==
  /\ n \in Export /\ Keeps(o, n) /\ n.noted = o.noted
  /\ n.git => n.left
  /\ n.state = "published" => n.git
  /\ o.state \in Over => n.over \/ n.state \in Over
  /\ o.state = "revoked" => n.over \/ n.state = "revoked"

----------------------------------------------------------------------------
(* What a step may do *)

\* One export goes to another record.
Alters(e, n) == e \in 1..Len(exports) /\ Follows(exports[e], n) /\ exports' = [exports EXCEPT ![e] = n]

\* Run r works on export e.
WorksOn(r, e) == run[r].at \in Working /\ run[r].exp = e

\* Nobody but r was at work on it, or it is written over.
Fresh(r, e, n) == n.over \/ State(e) \notin Busy \/ WorksOn(r, e)

\* Who works on it goes on to find it so.
Yields(r, e, n) == n.state = State(e) \/ Fresh(r, e, n)

\* The export a run of the schedule has at a place: the base of the one it will make, the one it had, the
\* one left open, or the one it made.
Has(r, place) ==
  \/ place.at = "create" /\ place.exp = BaseOf
  \/ place.at # "create" /\ place.exp \in {0, Gone}
  \/ place.at # "create" /\ run[r].at # "create" /\ place.exp = run[r].exp
  \/ place.at # "create" /\ lastOpen # 0 /\ place.exp = lastOpen /\ State(lastOpen) \in Open
  \/ /\ place.at # "create" /\ place.exp = Len(exports) + 1 /\ place.exp = Len(exports')
     /\ run[r].at = "create" /\ exports'[place.exp].base = run[r].exp

\* A run goes to a place, and an export to another record.
Turns(r, e, n) ==
  /\ Alters(e, n) /\ Yields(r, e, n)
  /\ \E place \in Run :
       /\ run' = [run EXCEPT ![r] = place] /\ PlaceOK(place, exports')
       /\ place.at \in Working => place.exp = e /\ Fresh(r, e, n)
       /\ r \in Runners => Has(r, place)

\* What the exports and the runs may become.
GoesOn ==
  /\ exports' \in Seq(Export) /\ Len(exports') \in {Len(exports), Len(exports) + 1} /\ Len(exports') <= MaxExports
  /\ \A d \in 1..Len(exports) : Follows(exports[d], exports'[d])
  /\ Len(exports') = Len(exports) + 1 => ~exports'[Len(exports')].noted

Steps == run' \in [Who -> Run] /\ \A x \in Runners : run'[x] = run[x] \/ Has(x, run'[x])

Kept == GoesOn /\ Steps /\ (UNCHANGED lastPublished => WorkInv')

\* An export that stays as it is follows itself.
LEMMA SelfFollows ==
  ASSUME TypeOK, WorkInv, NEW e \in 1..Len(exports)
  PROVE  Follows(exports[e], exports[e])
<1>1. exports[e] \in Export
  BY DEF TypeOK
<1> QED BY <1>1 DEF Follows, Keeps, May, WorkInv, ExportsOK, State

\* No export changes.
LEMMA Same ==
  ASSUME TypeOK, WorkInv, UNCHANGED exports
  PROVE  Alters(1, exports[1]) /\ \A r : Yields(r, 1, exports[1])
<1>1. exports \in Seq(Export) /\ 1 \in 1..Len(exports)
  BY DEF TypeOK
<1>2. exports' = [exports EXCEPT ![1] = exports[1]]
  BY <1>1
<1> QED BY <1>1, <1>2, SelfFollows DEF Alters, Yields, State

\* What one export's going on does to all of them.
LEMMA AltersAll ==
  ASSUME TypeOK, WorkInv, NEW e, NEW n, Alters(e, n)
  PROVE  /\ GoesOn /\ Len(exports') = Len(exports) /\ exports'[e] = n
         /\ \A d \in 1..Len(exports) : d # e => exports'[d] = exports[d]
<1>1. exports \in Seq(Export) /\ Len(exports) \in 1..MaxExports /\ n \in Export /\ e \in 1..Len(exports)
  BY DEF TypeOK, Alters, Follows
<1>2. /\ exports' \in Seq(Export) /\ Len(exports') = Len(exports) /\ exports'[e] = n
      /\ \A d \in 1..Len(exports) : d # e => exports'[d] = exports[d]
  BY <1>1 DEF Alters
<1>3. \A d \in 1..Len(exports) : Follows(exports[d], exports'[d])
  BY <1>2, SelfFollows DEF Alters
<1> QED BY <1>1, <1>2, <1>3, ScheduleAssumption DEF GoesOn

\* The exports stay right while they go on.
LEMMA ExportsKept ==
  ASSUME TypeOK, WorkInv, GoesOn, UNCHANGED lastPublished,
         Len(exports') = Len(exports) + 1 =>
           exports'[Len(exports')].state # "published" /\ ~exports'[Len(exports')].git
  PROVE  ExportsOK'
<1>1. lastPublished \in 1..Len(exports) /\ Len(exports) \in Nat
  BY DEF TypeOK
<1>2. \A e \in 1..Len(exports') : e \in 1..Len(exports) \/ (e = Len(exports') /\ e = Len(exports) + 1)
  BY <1>1 DEF GoesOn
<1>3. ASSUME NEW e \in 1..Len(exports')
      PROVE  /\ (exports'[e].state = "published" => exports'[e].git) /\ (exports'[e].git => exports'[e].left)
             /\ exports'[e].noted => exports'[e].git /\ (exports'[e].over \/ exports'[e].state \in Over)
  <2>1. CASE e \in 1..Len(exports)
    <3>1. Follows(exports[e], exports'[e])
      BY <2>1 DEF GoesOn
    <3>2. exports[e].noted => exports[e].git /\ (exports[e].over \/ exports[e].state \in Over)
      BY <2>1 DEF WorkInv, ExportsOK, State
    <3> QED BY <3>1, <3>2 DEF Follows, Keeps
  <2>2. CASE e = Len(exports') /\ e = Len(exports) + 1
    BY <2>2 DEF GoesOn
  <2> QED BY <1>2, <2>1, <2>2
<1>4. exports'[lastPublished].noted
  <2>1. Follows(exports[lastPublished], exports'[lastPublished])
    BY <1>1 DEF GoesOn
  <2> QED BY <2>1 DEF Follows, WorkInv, ExportsOK
<1> QED BY <1>3, <1>4 DEF ExportsOK, State

\* A run that stays where it is finds its export as it left it, or written over.
LEMMA PlaceKept ==
  ASSUME TypeOK, WorkInv, NEW e, NEW n, Alters(e, n), NEW x \in Who,
         n.state = State(e) \/ n.over \/ State(e) \notin Busy \/ \E r \in Who \ {x} : WorksOn(r, e)
  PROVE  PlaceOK(run[x], exports')
<1> DEFINE c == run[x].exp
<1>1. /\ Len(exports') = Len(exports) /\ exports'[e] = n /\ Len(exports) \in Nat /\ PlaceOK(run[x], exports)
      /\ \A d \in 1..Len(exports) : d # e => exports'[d] = exports[d]
  BY AltersAll DEF WorkInv, TypeOK
<1>2. CASE c # e \/ c \notin 1..Len(exports)
  BY <1>1, <1>2 DEF PlaceOK, Holding, Working
<1>3. CASE c = e /\ e \in 1..Len(exports)
  <2>1. Follows(exports[e], n)
    BY DEF Alters
  <2>2. (\E r \in Who \ {x} : WorksOn(r, e)) /\ run[x].at \in Working => exports[e].over
    BY <1>3 DEF WorkInv, Alone, WorksOn
  <2>3. run[x].at \in Working => n.over \/ n.state = State(e)
    BY <1>1, <1>3, <2>1, <2>2 DEF PlaceOK, State, Busy, Working, Follows, Keeps
  <2> QED BY <1>1, <1>3, <2>1, <2>3 DEF PlaceOK, State, Working, Follows, Keeps
<1> QED BY <1>2, <1>3

\* A run that turns keeps the exports and the places of the runs together.
LEMMA TurnsKeeps ==
  ASSUME TypeOK, WorkInv, NEW r \in Who, NEW e, NEW n, Turns(r, e, n)
  PROVE  Kept
<1>1. PICK place \in Run : /\ run' = [run EXCEPT ![r] = place] /\ PlaceOK(place, exports')
                           /\ place.at \in Working => place.exp = e /\ Fresh(r, e, n)
                           /\ r \in Runners => Has(r, place)
  BY DEF Turns
<1>2. Alters(e, n) /\ Yields(r, e, n)
  BY DEF Turns
<1>3. /\ GoesOn /\ Len(exports') = Len(exports) /\ exports'[e] = n /\ Len(exports) \in Nat
      /\ \A d \in 1..Len(exports) : d # e => exports'[d] = exports[d]
  BY <1>2, AltersAll DEF TypeOK
<1>4. run \in [Who -> Run] /\ run'[r] = place /\ (\A x \in Who \ {r} : run'[x] = run[x]) /\ run' \in [Who -> Run]
  BY <1>1 DEF TypeOK
<1>5. Steps
  BY <1>1, <1>4 DEF Steps, Who
<1>6. \A x \in Who : PlaceOK(run'[x], exports')
  BY <1>1, <1>2, <1>4, PlaceKept DEF Yields, Fresh
<1>7. \A d \in 1..Len(exports) : exports[d].over => exports'[d].over
  BY <1>3 DEF GoesOn, Follows, Keeps
<1>8. \A x \in Who : run[x].at \in Working => run[x].exp \in 1..Len(exports)
  BY <1>3 DEF WorkInv, PlaceOK, Holding, Working
<1>9. ASSUME NEW x \in Who, x # r, place.at \in Working, run[x].at \in Working, run[x].exp = place.exp
      PROVE  exports'[place.exp].over
  <2>1. place.exp = e /\ Fresh(r, e, n) /\ e \in 1..Len(exports)
    BY <1>1, <1>2, <1>9 DEF Alters
  <2>2. CASE WorksOn(r, e)
    BY <1>7, <1>9, <2>1, <2>2 DEF WorkInv, Alone, WorksOn
  <2>3. CASE State(e) \notin Busy
    <3>1. exports[e].over
      BY <1>9, <2>1, <2>3 DEF WorkInv, PlaceOK, State, Busy, Working
    <3> QED BY <1>7, <2>1, <3>1
  <2> QED BY <1>3, <2>1, <2>2, <2>3 DEF Fresh
<1>10. Alone'
  <2> SUFFICES ASSUME NEW x \in Who, NEW y \in Who, run'[x].at \in Working, run'[y].at \in Working,
                      run'[x].exp = run'[y].exp, x # y
               PROVE  exports'[run'[x].exp].over
    BY DEF Alone
  <2>1. CASE x = r \/ y = r
    BY <1>4, <1>9, <2>1
  <2>2. CASE x # r /\ y # r
    BY <1>4, <1>7, <1>8, <2>2 DEF WorkInv, Alone
  <2> QED BY <2>1, <2>2
<1>11. UNCHANGED lastPublished => ExportsOK'
  BY <1>3, ExportsKept
<1> QED BY <1>3, <1>5, <1>6, <1>10, <1>11 DEF Kept, WorkInv

\* So does a commit of nobody's run.
LEMMA QuietKeeps ==
  ASSUME TypeOK, WorkInv, NEW e, NEW n, Alters(e, n), n.state = State(e) \/ n.over \/ State(e) \notin Busy, UNCHANGED run
  PROVE  Kept
<1>1. /\ GoesOn /\ Len(exports') = Len(exports) /\ Len(exports) \in Nat
  BY AltersAll DEF TypeOK
<1>2. Steps
  BY DEF Steps, TypeOK
<1>3. \A x \in Who : PlaceOK(run'[x], exports')
  BY PlaceKept
<1>4. \A d \in 1..Len(exports) : exports[d].over => exports'[d].over
  BY <1>1 DEF GoesOn, Follows, Keeps
<1>5. \A x \in Who : run[x].at \in Working => run[x].exp \in 1..Len(exports)
  BY <1>1 DEF WorkInv, PlaceOK, Holding, Working
<1>6. Alone'
  BY <1>4, <1>5 DEF WorkInv, Alone
<1>7. UNCHANGED lastPublished => ExportsOK'
  BY <1>1, ExportsKept
<1> QED BY <1>1, <1>2, <1>3, <1>6, <1>7 DEF Kept, WorkInv

----------------------------------------------------------------------------
(* The ways of a run *)

\* A run goes to its next place.
LEMMA GoesTurns ==
  ASSUME TypeOK, WorkInv, NEW r \in Who, NEW e, NEW n, Alters(e, n), Yields(r, e, n),
         NEW at \in {"begin", "create", "carry", "settled", "generate", "generating", "publish", "pushing", "pushed"},
         NEW f \in 0..Len(exports), Goes(r, at, f),
         at = "begin" <=> f = 0,
         at \in Working => f = e /\ Fresh(r, e, n),
         at = "generating" => n.over \/ n.state = "generating",
         at \in {"pushing", "pushed"} => n.over \/ n.state = "publishing",
         at = "pushed" => n.left,
         at = "create" => f = BaseOf,
         at # "create" /\ f # 0 /\ r \in Runners =>
           (run[r].at # "create" /\ f = run[r].exp) \/ (f = lastOpen /\ State(lastOpen) \in Open)
  PROVE  Turns(r, e, n)
<1> DEFINE place == [at |-> at, exp |-> f, outcome |-> "none"]
<1>1. run' = [run EXCEPT ![r] = place] /\ place.at = at /\ place.exp = f /\ place.outcome = "none"
  BY DEF Goes
<1>2. Len(exports') = Len(exports) /\ exports'[e] = n /\ Len(exports) \in Nat /\ Len(exports) <= MaxExports
  BY AltersAll, ScheduleAssumption DEF TypeOK
<1>3. place \in Run
  BY <1>2, ScheduleAssumption DEF Run, Gone
<1> HIDE DEF place
<1>4. PlaceOK(place, exports')
  BY <1>1, <1>2 DEF PlaceOK, Working, Holding
<1>5. r \in Runners => Has(r, place)
  BY <1>1 DEF Has
<1> QED BY <1>1, <1>3, <1>4, <1>5 DEF Turns

\* A run ends its work: the schedule's has its last step left, a person's has none.
LEMMA EndsTurns ==
  ASSUME TypeOK, WorkInv, NEW r \in Who, NEW e, NEW n, Alters(e, n), Yields(r, e, n),
         NEW outcome \in {"published", "unchanged", "waiting", "failed"},
         NEW f \in 0..Len(exports) \cup {Gone}, Ends(r, outcome, f),
         f = Gone => outcome = "failed",
         outcome = "published" => f # 0 /\ f # Gone /\ exports'[f].git /\ (exports'[f].over \/ exports'[f].state \in Over),
         f \notin {0, Gone} /\ r \in Runners =>
           (run[r].at # "create" /\ f = run[r].exp) \/ (f = lastOpen /\ State(lastOpen) \in Open)
  PROVE  Turns(r, e, n)
<1>1. Len(exports') = Len(exports) /\ Len(exports) \in Nat /\ Len(exports) <= MaxExports
  BY AltersAll, ScheduleAssumption DEF TypeOK
<1>2. CASE r = Hand
  <2>1. run' = [run EXCEPT ![r] = Idle]
    BY <1>2 DEF Ends
  <2>2. Idle \in Run /\ Idle.at = "idle" /\ Idle.exp = 0
    BY ScheduleAssumption DEF Idle, Run, Gone
  <2>3. PlaceOK(Idle, exports')
    BY <1>1, <2>2 DEF PlaceOK, Working, Holding
  <2> QED BY <1>2, <2>1, <2>2, <2>3, ScheduleAssumption DEF Turns, Working
<1>3. CASE r # Hand
  <2> DEFINE place == [at |-> "finish", exp |-> f, outcome |-> outcome]
  <2>1. run' = [run EXCEPT ![r] = place] /\ place.at = "finish" /\ place.exp = f /\ place.outcome = outcome
    BY <1>3 DEF Ends
  <2>2. place \in Run
    BY <1>1, ScheduleAssumption DEF Run, Gone
  <2> HIDE DEF place
  <2>3. PlaceOK(place, exports')
    BY <1>1, <2>1 DEF PlaceOK, Working, Holding
  <2>4. r \in Runners => Has(r, place)
    BY <2>1 DEF Has
  <2> QED BY <2>1, <2>2, <2>3, <2>4 DEF Turns, Working
<1> QED BY <1>2, <1>3

\* A run is over, whatever becomes of its export.
LEMMA IdleTurns ==
  ASSUME TypeOK, WorkInv, NEW r \in Who, NEW e, NEW n, Alters(e, n), Yields(r, e, n), run' = [run EXCEPT ![r] = Idle]
  PROVE  Turns(r, e, n)
<1>1. Len(exports') = Len(exports) /\ Len(exports) \in Nat
  BY AltersAll DEF TypeOK
<1>2. Idle \in Run /\ Idle.at = "idle" /\ Idle.exp = 0
  BY ScheduleAssumption DEF Idle, Run, Gone
<1>3. PlaceOK(Idle, exports') /\ Has(r, Idle)
  BY <1>1, <1>2 DEF PlaceOK, Working, Holding, Has
<1> QED BY <1>2, <1>3 DEF Turns, Working

\* What goes wrong is bounded.
LEMMA FaultType ==
  ASSUME TypeOK, Fault \/ UNCHANGED faults
  PROVE  faults' \in 0..MaxFaults
BY ScheduleAssumption DEF TypeOK, Fault

\* A commit finds an export on which nobody works, or goes over it.
LEMMA Commits ==
  ASSUME TypeOK, WorkInv, NEW e \in 1..Len(exports), NEW q \in DOMAIN To, CommitTo(e, q)
  PROVE  /\ faults' \in 0..MaxFaults
         /\ \E n : /\ Alters(e, n) /\ n.state = To[q]
                   /\ n.over \/ State(e) \notin Busy
<1>1. faults' \in 0..MaxFaults
  BY FaultType DEF CommitTo, MayHaveRead
<1>2. PICK ok \in BOOLEAN : exports' = [exports EXCEPT ![e] = Written(e, q, ok)]
  BY DEF CommitTo, Commit
<1>3. exports[e] \in Export /\ (exports[e].git => exports[e].left)
  BY DEF TypeOK, WorkInv, ExportsOK
<1>4. q \in {"decide", "approve", "generate", "publish", "expire", "revoke"}
  BY DEF To
<1> DEFINE n == Written(e, q, ok)
<1>5. /\ n \in Export /\ n.state = To[q] /\ n.over = (exports[e].over \/ State(e) \notin From[q])
      /\ n.base = exports[e].base /\ n.noted = exports[e].noted /\ n.git = exports[e].git /\ n.left = exports[e].left
      /\ n.level = exports[e].level
  <2> DEFINE over == exports[e].over \/ State(e) \notin From[q]
             ready == IF q = "decide" THEN ok ELSE exports[e].ready
             approved == exports[e].approved \/ q = "approve"
  <2>1. n = [exports[e] EXCEPT !.state = To[q], !.over = over, !.ready = ready, !.approved = approved]
    BY DEF Written
  <2>2. over \in BOOLEAN /\ approved \in BOOLEAN
    OBVIOUS
  <2>3. ready \in BOOLEAN /\ To[q] \in States
    BY <1>3, <1>4 DEF Export, To, States
  <2> HIDE DEF n, ready, approved
  <2>4. n \in Export /\ n.state = To[q] /\ n.over = over
    <3> HIDE DEF over
    <3> QED BY <1>3, <2>1, <2>2, <2>3 DEF Export
  <2>5. /\ n.base = exports[e].base /\ n.noted = exports[e].noted /\ n.git = exports[e].git
        /\ n.left = exports[e].left /\ n.level = exports[e].level
    <3> HIDE DEF over
    <3> QED BY <1>3, <2>1 DEF Export
  <2> QED BY <2>4, <2>5
<1> HIDE DEF n
<1>6. State(e) \in From[q] => May(State(e), To[q]) /\ State(e) \notin Busy /\ (State(e) \in Over => To[q] \in Over)
                              /\ State(e) # "revoked"
  BY <1>4 DEF From, To, May, Busy, Over
<1>7. To[q] # "published"
  BY <1>4 DEF To
<1>8. Follows(exports[e], n)
  BY <1>3, <1>5, <1>6, <1>7 DEF Follows, Keeps, State
<1>9. Alters(e, n) /\ (n.over \/ State(e) \notin Busy)
  BY <1>2, <1>5, <1>6, <1>8 DEF Alters, n
<1> QED BY <1>1, <1>5, <1>9

\* A run commits and goes on from there.
LEMMA CommitGoes ==
  ASSUME TypeOK, WorkInv, NEW r \in Who, NEW e \in 1..Len(exports), NEW q \in DOMAIN To, CommitTo(e, q),
         NEW at \in {"carry", "settled", "generate", "generating", "publish", "pushing"}, Goes(r, at, e),
         at = "generating" => q = "generate", at = "pushing" => q = "publish",
         r \in Runners => run[r].at # "create" /\ e = run[r].exp
  PROVE  Kept /\ faults' \in 0..MaxFaults
<1>1. faults' \in 0..MaxFaults
  BY Commits
<1>2. PICK n : Alters(e, n) /\ n.state = To[q] /\ Fresh(r, e, n)
  BY Commits DEF Fresh
<1>3. Yields(r, e, n) /\ e \in 0..Len(exports) /\ e # 0
  BY <1>2 DEF Yields
<1>4. /\ at = "generating" => n.state = "generating"
      /\ at \in {"pushing", "pushed"} => n.state = "publishing"
      /\ at \notin {"begin", "create", "pushed"}
  BY <1>2 DEF To
<1>5. Turns(r, e, n)
  BY <1>2, <1>3, <1>4, GoesTurns
<1> QED BY <1>1, <1>5, TurnsKeeps

\* A run goes on, or ends, and leaves the exports alone.
LEMMA SameGoes ==
  ASSUME TypeOK, WorkInv, NEW r \in Who, UNCHANGED exports,
         NEW at \in {"begin", "create", "carry", "settled", "generate", "publish"},
         NEW f \in 0..Len(exports), Goes(r, at, f),
         at = "begin" <=> f = 0, at = "create" => f = BaseOf,
         at # "create" /\ f # 0 /\ r \in Runners =>
           (run[r].at # "create" /\ f = run[r].exp) \/ (f = lastOpen /\ State(lastOpen) \in Open)
  PROVE  Kept
<1>1. Alters(1, exports[1]) /\ Yields(r, 1, exports[1])
  BY Same
<1>2. at \notin Working /\ at \notin {"pushing", "pushed", "generating"}
  BY DEF Working
<1>3. Turns(r, 1, exports[1])
  BY <1>1, <1>2, GoesTurns
<1> QED BY <1>3, TurnsKeeps

LEMMA SameEnds ==
  ASSUME TypeOK, WorkInv, NEW r \in Who, UNCHANGED exports,
         NEW outcome \in {"published", "unchanged", "waiting", "failed"},
         NEW f \in 0..Len(exports) \cup {Gone}, Ends(r, outcome, f),
         f = Gone => outcome = "failed",
         outcome = "published" => f \in 1..Len(exports) /\ State(f) = "published",
         f \notin {0, Gone} /\ r \in Runners =>
           (run[r].at # "create" /\ f = run[r].exp) \/ (f = lastOpen /\ State(lastOpen) \in Open)
  PROVE  Kept
<1>1. Alters(1, exports[1]) /\ Yields(r, 1, exports[1])
  BY Same
<1>2. outcome = "published" => f # 0 /\ f # Gone /\ exports'[f].git /\ (exports'[f].over \/ exports'[f].state \in Over)
  <2>1. Len(exports) \in 1..MaxExports
    BY DEF TypeOK
  <2> QED BY <2>1, ScheduleAssumption DEF WorkInv, ExportsOK, Over, State, Gone
<1>3. Turns(r, 1, exports[1])
  BY <1>1, <1>2, EndsTurns
<1> QED BY <1>3, TurnsKeeps

----------------------------------------------------------------------------
(* Each step but the last one of a run *)

\* A run begins with the export that was left open, or with a new one.
LEMMA BeginStep ==
  ASSUME TypeOK, WorkInv, NEW r \in Who, Begin(r)
  PROVE  Kept
<1>1. lastOpen \in 0..Len(exports) /\ lastPublished \in 1..Len(exports) /\ Len(exports) \in Nat /\ UNCHANGED exports
  BY DEF TypeOK, Begin
<1>2. BaseOf \in 0..Len(exports)
  BY <1>1 DEF BaseOf
<1>3. CASE lastOpen # 0 /\ State(lastOpen) \in Open
  <2>1. CASE Ends(r, "waiting", lastOpen)
    <3>1. lastOpen # Gone
      BY <1>1, ScheduleAssumption DEF TypeOK, Gone
    <3> QED BY <1>1, <1>3, <2>1, <3>1, SameEnds
  <2>2. ASSUME NEW at \in {"generate", "publish", "carry"}, Goes(r, at, lastOpen)
        PROVE  Kept
    BY <1>1, <1>3, <2>2, SameGoes
  <2> QED BY <1>3, <2>1, <2>2 DEF Begin
<1>4. CASE ~(lastOpen # 0 /\ State(lastOpen) \in Open)
  <2>1. CASE Ends(r, "failed", 0) \/ Ends(r, "unchanged", 0)
    <3>1. 0 \in 0..Len(exports) /\ 0 # Gone
      BY <1>1, ScheduleAssumption DEF Gone
    <3> QED BY <1>1, <2>1, <3>1, SameEnds
  <2>2. CASE BaseOf # 0 /\ Goes(r, "create", BaseOf)
    BY <1>1, <1>2, <2>2, SameGoes
  <2> QED BY <1>4, <2>1, <2>2 DEF Begin
<1> QED BY <1>3, <1>4

\* A run that has an export.
LEMMA Held ==
  ASSUME TypeOK, WorkInv, NEW r \in Who, run[r].at \in Holding
  PROVE  run[r].exp \in 1..Len(exports) /\ run[r].exp \in 0..Len(exports) /\ run[r].exp # 0
BY DEF TypeOK, WorkInv, PlaceOK, Holding, Working

\* A new export continues the base its run chose.
LEMMA CreateStep ==
  ASSUME TypeOK, WorkInv, NEW r \in Who, Create(r)
  PROVE  Kept /\ faults' \in 0..MaxFaults
<1>1. faults' \in 0..MaxFaults
  BY FaultType DEF Create
<1>2. /\ exports \in Seq(Export) /\ Len(exports) \in 1..MaxExports /\ run[r].at = "create"
      /\ run[r].exp \in 0..MaxExports
  BY Held, ScheduleAssumption DEF TypeOK, Create, Holding
<1>3. ASSUME NEW e \in {0, Gone}, Ends(r, "failed", e), UNCHANGED exports
      PROVE  Kept
  <2>1. e \in 0..Len(exports) \cup {Gone}
    BY <1>2
  <2> QED BY <1>3, <2>1, SameEnds
<1>4. CASE ~\E e \in {0, Gone} : Ends(r, "failed", e) /\ UNCHANGED exports
  <2>1. PICK ready \in BOOLEAN :
          exports' = Append(exports, [state |-> "awaiting_approval", base |-> run[r].exp, level |-> -1,
                                      ready |-> ready, approved |-> FALSE, git |-> FALSE, left |-> FALSE,
                                      noted |-> FALSE, over |-> FALSE])
    BY <1>4 DEF Create
  <2>2. Len(exports) < MaxExports /\ Goes(r, "carry", Len(exports) + 1)
    BY <1>4 DEF Create
  <2> DEFINE n == [state |-> "awaiting_approval", base |-> run[r].exp, level |-> -1,
                   ready |-> ready, approved |-> FALSE, git |-> FALSE, left |-> FALSE,
                   noted |-> FALSE, over |-> FALSE]
             place == [at |-> "carry", exp |-> Len(exports) + 1, outcome |-> "none"]
  <2>3. /\ n \in Export /\ n.state = "awaiting_approval" /\ n.base = run[r].exp /\ ~n.noted /\ ~n.git
        /\ exports' = Append(exports, n)
    BY <1>2, <2>1, ScheduleAssumption DEF Export, States
  <2>4. /\ place \in Run /\ place.at = "carry" /\ place.exp = Len(exports) + 1 /\ place.outcome = "none"
        /\ run' = [run EXCEPT ![r] = place]
    BY <1>2, <2>2, ScheduleAssumption DEF Run, Goes, Gone
  <2> HIDE DEF n, place
  <2>5. /\ exports' \in Seq(Export) /\ Len(exports') = Len(exports) + 1 /\ exports'[Len(exports) + 1] = n
        /\ \A d \in 1..Len(exports) : exports'[d] = exports[d]
    BY <1>2, <2>3
  <2>6. GoesOn
    <3>1. \A d \in 1..Len(exports) : Follows(exports[d], exports'[d])
      BY <2>5, SelfFollows
    <3>2. Len(exports') <= MaxExports
      BY <1>2, <2>2, <2>5, ScheduleAssumption
    <3> QED BY <1>2, <2>3, <2>5, <3>1, <3>2 DEF GoesOn
  <2>7. run' \in [Who -> Run] /\ run'[r] = place /\ \A x \in Who \ {r} : run'[x] = run[x]
    BY <2>4 DEF TypeOK
  <2>8. Steps
    <3>1. Has(r, place)
      BY <1>2, <2>3, <2>4, <2>5 DEF Has
    <3> QED BY <2>7, <3>1 DEF Steps, Who
  <2>9. ASSUME UNCHANGED lastPublished
        PROVE  WorkInv'
    <3>1. ExportsOK'
      BY <2>3, <2>5, <2>6, <2>9, ExportsKept
    <3>2. PlaceOK(place, exports')
      BY <1>2, <2>4, <2>5 DEF PlaceOK, Holding, Working
    <3>3. ASSUME NEW x \in Who, x # r
          PROVE  PlaceOK(run'[x], exports')
      <4>1. PlaceOK(run[x], exports) /\ run'[x] = run[x]
        BY <2>7, <3>3 DEF WorkInv
      <4>2. run[x].exp = 0 \/ run[x].exp \in 1..Len(exports) \/ (run[x].at = "finish" /\ run[x].exp = Gone /\ run[x].outcome # "published")
        BY <1>2, <4>1 DEF PlaceOK
      <4> QED BY <1>2, <2>5, <4>1, <4>2 DEF PlaceOK, Holding, Working
    <3>4. Alone'
      <4>1. place.at \notin Working
        BY <2>4 DEF Working
      <4>2. \A x \in Who : run[x].at \in Working => run[x].exp \in 1..Len(exports)
        BY Held DEF Holding
      <4> QED BY <2>5, <2>7, <4>1, <4>2 DEF WorkInv, Alone
    <3> QED BY <2>7, <3>1, <3>2, <3>3, <3>4 DEF WorkInv
  <2> QED BY <1>1, <2>6, <2>8, <2>9 DEF Kept
<1> QED BY <1>1, <1>3, <1>4

LEMMA CarryOnStep ==
  ASSUME TypeOK, WorkInv, NEW r \in Who, CarryOn(r)
  PROVE  Kept /\ faults' \in 0..MaxFaults
<1> DEFINE e == run[r].exp
<1>1. e \in 1..Len(exports) /\ e \in 0..Len(exports) /\ e # 0 /\ run[r].at \in {"carry", "settled"}
  BY Held DEF CarryOn, Holding
<1>2. {"approve", "decide"} \subseteq DOMAIN To
  BY DEF To
<1>3. CASE CommitTo(e, "approve") /\ Goes(r, "generate", e)
  BY <1>1, <1>2, <1>3, CommitGoes
<1>4. CASE CommitTo(e, "decide") /\ Goes(r, "settled", e)
  BY <1>1, <1>2, <1>4, CommitGoes
<1>5. CASE UNCHANGED <<exports, faults>> /\ Goes(r, "generate", e)
  BY <1>1, <1>5, SameGoes, FaultType
<1>6. CASE UNCHANGED <<exports, faults>> /\ (Ends(r, "waiting", e) \/ Ends(r, "failed", e))
  <2>1. e # Gone
    BY <1>1, ScheduleAssumption DEF TypeOK, Gone
  <2> QED BY <1>1, <1>6, <2>1, SameEnds, FaultType
<1> QED BY <1>3, <1>4, <1>5, <1>6 DEF CarryOn

\* A session that does not go on.
LEMMA PassesStep ==
  ASSUME TypeOK, WorkInv, NEW r \in Who, UNCHANGED <<exports, faults>>, run[r].at \in {"generate", "publish"},
         Passes(r, run[r].exp)
  PROVE  Kept /\ faults' \in 0..MaxFaults
<1> DEFINE e == run[r].exp
<1>1. e \in 1..Len(exports) /\ e \in 0..Len(exports) /\ e # 0
  BY Held DEF Holding
<1>2. e # Gone
  BY <1>1, ScheduleAssumption DEF TypeOK, Gone
<1>3. CASE State(e) = "published" /\ Ends(r, "published", e)
  BY <1>1, <1>2, <1>3, SameEnds, FaultType
<1>4. CASE Ends(r, "failed", e)
  BY <1>1, <1>2, <1>4, SameEnds, FaultType
<1> QED BY <1>3, <1>4 DEF Passes

LEMMA GenerateStep ==
  ASSUME TypeOK, WorkInv, NEW r \in Who, Generate(r)
  PROVE  Kept /\ faults' \in 0..MaxFaults
<1> DEFINE e == run[r].exp
<1>1. e \in 1..Len(exports) /\ e \in 0..Len(exports) /\ e # 0 /\ run[r].at = "generate" /\ "generate" \in DOMAIN To
  BY Held DEF Generate, Holding, To
<1>2. CASE CommitTo(e, "generate") /\ Goes(r, "generating", e)
  BY <1>1, <1>2, CommitGoes
<1>3. CASE UNCHANGED <<exports, faults>> /\ Goes(r, "publish", e)
  BY <1>1, <1>3, SameGoes, FaultType
<1>4. CASE UNCHANGED <<exports, faults>> /\ Passes(r, e)
  BY <1>1, <1>4, PassesStep
<1> QED BY <1>2, <1>3, <1>4 DEF Generate

LEMMA PublishStep ==
  ASSUME TypeOK, WorkInv, NEW r \in Who, Publish(r)
  PROVE  Kept /\ faults' \in 0..MaxFaults
<1> DEFINE e == run[r].exp
<1>1. e \in 1..Len(exports) /\ e \in 0..Len(exports) /\ e # 0 /\ run[r].at = "publish" /\ "publish" \in DOMAIN To
  BY Held DEF Publish, Holding, To
<1>2. CASE CommitTo(e, "publish") /\ Goes(r, "pushing", e)
  BY <1>1, <1>2, CommitGoes
<1>3. CASE UNCHANGED <<exports, faults>> /\ Passes(r, e)
  BY <1>1, <1>3, PassesStep
<1> QED BY <1>2, <1>3 DEF Publish

\* The session that works on an export ends its work on it.
LEMMA WorkersYield ==
  ASSUME NEW r, WorksOn(r, run[r].exp)
  PROVE  \A n : Yields(r, run[r].exp, n) /\ Fresh(r, run[r].exp, n)
BY DEF Yields, Fresh

LEMMA GeneratedStep ==
  ASSUME TypeOK, WorkInv, NEW r \in Who, Generated(r)
  PROVE  Kept /\ faults' \in 0..MaxFaults
<1> DEFINE e == run[r].exp
<1>1. /\ e \in 1..Len(exports) /\ e \in 0..Len(exports) /\ e # 0 /\ e # Gone /\ run[r].at = "generating"
      /\ exports[e] \in Export /\ level \in 0..MaxLevel /\ (exports[e].git => exports[e].left)
  BY Held, ScheduleAssumption DEF Generated, Holding, Working, TypeOK, Gone, WorkInv, ExportsOK
<1>2. exports[e].over \/ State(e) = "generating"
  BY <1>1 DEF WorkInv, PlaceOK, State
<1>3. \A n : Yields(r, e, n)
  BY <1>1, WorkersYield DEF WorksOn, Working
<1>4. faults' \in 0..MaxFaults
  BY FaultType DEF Generated
<1>5. CASE /\ Commit(e, [exports[e] EXCEPT !.state = "ready_to_publish", !.level = level,
                                           !.over = @ \/ State(e) # "generating"])
           /\ IF r = Hand THEN run' = [run EXCEPT ![r] = Idle] ELSE Goes(r, "publish", e)
  <2> DEFINE over == exports[e].over \/ State(e) # "generating"
             n == [exports[e] EXCEPT !.state = "ready_to_publish", !.level = level, !.over = over]
  <2>1. exports' = [exports EXCEPT ![e] = n] /\ over \in BOOLEAN
    BY <1>5 DEF Commit
  <2>2. over <=> exports[e].over \/ State(e) # "generating"
    OBVIOUS
  <2> HIDE DEF over
  <2>3. Follows(exports[e], n)
    <3>1. "ready_to_publish" \in States /\ level \in -1..MaxLevel
      BY <1>1, ScheduleAssumption DEF States
    <3>2. /\ n \in Export /\ n.state = "ready_to_publish" /\ n.over = over /\ n.base = exports[e].base
          /\ n.git = exports[e].git /\ n.left = exports[e].left /\ n.noted = exports[e].noted
      BY <1>1, <2>1, <3>1 DEF Export
    <3> HIDE DEF n
    <3> QED BY <1>1, <1>2, <2>2, <3>2 DEF Follows, Keeps, May, State, Over
  <2> HIDE DEF n
  <2>4. Alters(e, n)
    BY <1>1, <2>1, <2>3 DEF Alters
  <2>5. CASE r = Hand
    <3>1. Turns(r, e, n)
      BY <1>3, <1>5, <2>4, <2>5, IdleTurns
    <3> QED BY <1>4, <3>1, TurnsKeeps
  <2>6. CASE r # Hand
    <3>1. Turns(r, e, n)
      BY <1>1, <1>3, <1>5, <2>4, <2>6, GoesTurns DEF Working
    <3> QED BY <1>4, <3>1, TurnsKeeps
  <2> QED BY <2>5, <2>6
<1>6. CASE /\ Commit(e, [exports[e] EXCEPT !.state = IF @ \in {"generating", "publishing"} THEN "failed" ELSE @])
           /\ Ends(r, "failed", e)
  <2> DEFINE s == IF State(e) \in {"generating", "publishing"} THEN "failed" ELSE State(e)
             n == [exports[e] EXCEPT !.state = s]
  <2>1. exports' = [exports EXCEPT ![e] = n]
    BY <1>6 DEF Commit, State
  <2>2. Follows(exports[e], n)
    BY <1>1 DEF Follows, Keeps, May, Export, States, State, Over, WorkInv, ExportsOK
  <2> HIDE DEF n
  <2>3. Alters(e, n)
    BY <1>1, <2>1, <2>2 DEF Alters
  <2>4. Turns(r, e, n)
    BY <1>1, <1>3, <1>6, <2>3, EndsTurns
  <2> QED BY <1>4, <2>4, TurnsKeeps
<1> QED BY <1>5, <1>6 DEF Generated

LEMMA PushStep ==
  ASSUME TypeOK, WorkInv, NEW r \in Who, Push(r)
  PROVE  Kept /\ faults' \in 0..MaxFaults
<1> DEFINE e == run[r].exp
<1>1. /\ e \in 1..Len(exports) /\ e \in 0..Len(exports) /\ e # 0 /\ e # Gone /\ run[r].at = "pushing"
      /\ exports[e] \in Export /\ (exports[e].git => exports[e].left)
  <2>1. e \in 1..Len(exports) /\ e \in 0..Len(exports) /\ e # 0 /\ run[r].at = "pushing"
    BY Held DEF Push, Holding, Working
  <2> QED BY <2>1, ScheduleAssumption DEF TypeOK, Gone, WorkInv, ExportsOK
<1>2. exports[e].over \/ State(e) = "publishing"
  BY <1>1 DEF WorkInv, PlaceOK, State
<1>3. \A n : Yields(r, e, n) /\ Fresh(r, e, n)
  BY <1>1, WorkersYield DEF WorksOn, Working
<1>4. faults' \in 0..MaxFaults
  BY FaultType DEF Push
<1>5. CASE Commit(e, [exports[e] EXCEPT !.left = TRUE]) /\ Goes(r, "pushed", e)
  <2> DEFINE n == [exports[e] EXCEPT !.left = TRUE]
  <2>1. exports' = [exports EXCEPT ![e] = n]
    BY <1>5 DEF Commit
  <2>2. Follows(exports[e], n) /\ n.left /\ (n.over \/ n.state = "publishing")
    BY <1>1, <1>2 DEF Follows, Keeps, May, Export, State, WorkInv, ExportsOK
  <2> HIDE DEF n
  <2>3. Alters(e, n)
    BY <1>1, <2>1, <2>2 DEF Alters
  <2>4. Turns(r, e, n)
    BY <1>1, <1>3, <1>5, <2>2, <2>3, GoesTurns DEF Working
  <2> QED BY <1>4, <2>4, TurnsKeeps
<1>6. ASSUME NEW left \in {exports[e].left, TRUE},
             Commit(e, [exports[e] EXCEPT !.left = left,
                                          !.state = IF @ = "publishing" THEN "ready_to_publish" ELSE @]),
             Ends(r, "failed", e)
      PROVE  Kept
  <2> DEFINE s == IF State(e) = "publishing" THEN "ready_to_publish" ELSE State(e)
             n == [exports[e] EXCEPT !.left = left, !.state = s]
  <2>1. exports' = [exports EXCEPT ![e] = n]
    BY <1>6 DEF Commit, State
  <2>2. left \in BOOLEAN /\ (exports[e].left => left)
    BY <1>1, <1>6 DEF Export
  <2>3. /\ n \in Export /\ n.state = s /\ n.left = left /\ n.over = exports[e].over /\ n.level = exports[e].level
        /\ n.base = exports[e].base /\ n.git = exports[e].git /\ n.noted = exports[e].noted
    <3>1. s \in States
      BY <1>1 DEF Export, States, State
    <3> HIDE DEF s
    <3> QED BY <1>1, <2>2, <3>1 DEF Export
  <2> HIDE DEF n
  <2>4. Follows(exports[e], n)
    BY <1>1, <2>2, <2>3 DEF Follows, Keeps, May, State, Over, WorkInv, ExportsOK
  <2>5. Alters(e, n)
    BY <1>1, <2>1, <2>4 DEF Alters
  <2>6. Turns(r, e, n)
    BY <1>1, <1>3, <1>6, <2>5, EndsTurns
  <2> QED BY <2>6, TurnsKeeps
<1> QED BY <1>4, <1>5, <1>6 DEF Push, Leaves

\* What is recorded as published was pushed.
LEMMA PublishedStep ==
  ASSUME TypeOK, WorkInv, NEW r \in Who, Published(r)
  PROVE  Kept
<1> DEFINE e == run[r].exp
<1>1. /\ e \in 1..Len(exports) /\ e \in 0..Len(exports) /\ e # 0 /\ e # Gone /\ run[r].at = "pushed"
      /\ exports[e] \in Export /\ exports[e].left
  <2>1. e \in 1..Len(exports) /\ e \in 0..Len(exports) /\ e # 0 /\ run[r].at = "pushed"
    BY Held DEF Published, Holding, Working
  <2> QED BY <2>1, ScheduleAssumption DEF TypeOK, Gone, WorkInv, PlaceOK
<1>2. exports[e].over \/ State(e) = "publishing"
  BY <1>1 DEF WorkInv, PlaceOK, State
<1>3. CASE UNCHANGED exports /\ Ends(r, "failed", e)
  BY <1>1, <1>3, SameEnds
<1>4. CASE /\ Commit(e, [exports[e] EXCEPT !.state = "published", !.git = TRUE, !.over = @ \/ State(e) # "publishing"])
           /\ Ends(r, "published", e)
  <2> DEFINE over == exports[e].over \/ State(e) # "publishing"
             n == [exports[e] EXCEPT !.state = "published", !.git = TRUE, !.over = over]
  <2>1. exports' = [exports EXCEPT ![e] = n] /\ over \in BOOLEAN
    BY <1>4 DEF Commit
  <2>2. over <=> exports[e].over \/ State(e) # "publishing"
    OBVIOUS
  <2> HIDE DEF over
  <2>3. Follows(exports[e], n) /\ n.state = "published" /\ n.git
    BY <1>1, <1>2, <2>1, <2>2 DEF Follows, Keeps, May, Export, States, State, Over
  <2> HIDE DEF n
  <2>4. Alters(e, n)
    BY <1>1, <2>1, <2>3 DEF Alters
  <2>5. Yields(r, e, n) /\ exports'[e] = n
    BY <1>1, <2>4, WorkersYield, AltersAll DEF WorksOn, Working
  <2>6. Turns(r, e, n)
    BY <1>1, <1>4, <2>3, <2>4, <2>5, EndsTurns DEF Over
  <2> QED BY <2>6, TurnsKeeps
<1> QED BY <1>3, <1>4 DEF Published

LEMMA FailsStep ==
  ASSUME TypeOK, WorkInv, NEW r \in Who, Fails(r)
  PROVE  Kept /\ faults' \in 0..MaxFaults
<1>1. run[r].exp \in 1..Len(exports) /\ run[r].exp \in 0..Len(exports) /\ run[r].exp # Gone /\ run[r].at # "create"
  BY Held, ScheduleAssumption DEF Fails, Holding, TypeOK, Gone
<1> QED BY <1>1, SameEnds, FaultType DEF Fails

LEMMA ClaimStep ==
  ASSUME TypeOK, WorkInv, NEW r \in Runners, NEW force \in BOOLEAN, Claim(r, force)
  PROVE  Kept
<1>1. 0 \in 0..Len(exports) /\ r \in Who
  BY DEF TypeOK, Who
<1> QED BY <1>1, SameGoes DEF Claim

LEMMA CrashStep ==
  ASSUME TypeOK, WorkInv, NEW r \in Who, Crash(r)
  PROVE  Kept /\ faults' \in 0..MaxFaults
<1>1. Turns(r, 1, exports[1])
  BY Same, IdleTurns DEF Crash
<1> QED BY <1>1, TurnsKeeps, FaultType DEF Crash

LEMMA ByHandStep ==
  ASSUME TypeOK, WorkInv, NEW e \in DOMAIN exports, ByHand(e)
  PROVE  Kept /\ faults' \in 0..MaxFaults
<1>1. e \in 1..Len(exports) /\ Hand \in Who /\ Hand \notin Runners /\ {"generate", "publish"} \subseteq DOMAIN To
  BY ScheduleAssumption DEF TypeOK, Who, To
<1>2. CASE CommitTo(e, "generate") /\ Goes(Hand, "generating", e)
  BY <1>1, <1>2, CommitGoes
<1>3. CASE CommitTo(e, "publish") /\ Goes(Hand, "pushing", e)
  BY <1>1, <1>3, CommitGoes
<1> QED BY <1>2, <1>3 DEF ByHand

LEMMA TouchStep ==
  ASSUME TypeOK, WorkInv, NEW e \in DOMAIN exports, Touch(e)
  PROVE  Kept /\ faults' \in 0..MaxFaults
<1>1. e \in 1..Len(exports)
  BY DEF TypeOK
<1>2. PICK q \in {"decide", "approve", "expire", "revoke"} : CommitTo(e, q)
  BY DEF Touch
<1>3. q \in DOMAIN To
  BY DEF To
<1>4. faults' \in 0..MaxFaults
  BY <1>1, <1>2, <1>3, Commits
<1>5. PICK n : Alters(e, n) /\ (n.over \/ State(e) \notin Busy)
  BY <1>1, <1>2, <1>3, Commits
<1> QED BY <1>4, <1>5, QuietKeeps DEF Touch

----------------------------------------------------------------------------
(* All of them *)

Scalars ==
  /\ level \in 0..MaxLevel /\ failures \in 0..MaxFailures /\ faults \in 0..MaxFaults
  /\ {enabled, crashed} \subseteq BOOLEAN
  /\ claim \in {"free", "fresh", "stale", "removed"}

Goings == Kept /\ UNCHANGED <<lastOpen, lastPublished>> /\ Scalars'

\* Every step of the specification but the last one of a run.
LEMMA StepGoesOn ==
  ASSUME TypeOK, WorkInv, [Next]_vars, \A r \in Who : ~Finish(r)
  PROVE  Goings
<1> USE ScheduleAssumption
<1>1. Scalars
  BY DEF TypeOK, Scalars
<1>2. ASSUME NEW r \in Runners, NEW force \in BOOLEAN, Claim(r, force)
      PROVE  Goings
  BY <1>1, <1>2, ClaimStep DEF Claim, Goings, Scalars
<1>3. ASSUME NEW r \in Who, Step(r)
      PROVE  Goings
  <2>1. Kept
    BY <1>3, BeginStep, CreateStep, CarryOnStep, GenerateStep, GeneratedStep, PublishStep, PushStep, PublishedStep DEF Step
  <2>2. faults' \in 0..MaxFaults
    <3>1. CASE Begin(r) \/ Published(r)
      BY <1>1, <3>1 DEF Begin, Published, Scalars
    <3>2. CASE ~(Begin(r) \/ Published(r))
      BY <1>3, <3>2, CreateStep, CarryOnStep, GenerateStep, GeneratedStep, PublishStep, PushStep DEF Step
    <3> QED BY <3>1, <3>2
  <2>3. UNCHANGED <<level, schedule, crashed>>
    BY <1>3 DEF Step, Begin, Create, CarryOn, Generate, Generated, Publish, Push, Published
  <2> QED BY <1>1, <2>1, <2>2, <2>3 DEF Goings, Scalars, schedule
<1>4. ASSUME NEW r \in Who, Crash(r) \/ Fails(r)
      PROVE  Goings
  <2>1. Kept /\ faults' \in 0..MaxFaults
    BY <1>4, CrashStep, FailsStep
  <2>2. UNCHANGED <<level, schedule>> /\ crashed' \in BOOLEAN
    BY <1>1, <1>4 DEF Crash, Fails, Scalars
  <2> QED BY <1>1, <2>1, <2>2 DEF Goings, Scalars, schedule
<1>5. ASSUME NEW e \in DOMAIN exports, ByHand(e)
      PROVE  Goings
  BY <1>1, <1>5, ByHandStep DEF ByHand, Goings, Scalars, schedule
<1>6. ASSUME NEW e \in DOMAIN exports, Touch(e)
      PROVE  Goings
  BY <1>1, <1>6, TouchStep DEF Touch, Goings, Scalars, schedule
<1>7. ASSUME UNCHANGED <<exports, run, lastOpen, lastPublished>>, Scalars'
      PROVE  Goings
  <2>1. Alters(1, exports[1])
    BY <1>7, Same
  <2>2. Kept
    BY <1>7, <2>1, QuietKeeps DEF State
  <2> QED BY <1>7, <2>2 DEF Goings
<1>8. CASE Edit
  <2>1. level' \in 0..MaxLevel
    BY <1>8 DEF Edit, TypeOK
  <2> QED BY <1>1, <1>7, <1>8, <2>1 DEF Edit, Scalars, schedule
<1>9. CASE Change
  <2>1. faults' \in 0..MaxFaults /\ failures' \in 0..MaxFailures
    BY <1>9, FaultType DEF Change, TypeOK
  <2> QED BY <1>1, <1>7, <1>9, <2>1 DEF Change, Scalars
<1>10. CASE Remove
  <2>1. faults' \in 0..MaxFaults
    BY <1>10, FaultType DEF Remove
  <2> QED BY <1>1, <1>7, <1>10, <2>1 DEF Remove, Scalars
<1>11. CASE TurnStale
  BY <1>1, <1>7, <1>11 DEF TurnStale, Scalars
<1>12. CASE UNCHANGED vars
  BY <1>1, <1>7, <1>12 DEF vars, schedule, Scalars
<1> QED BY <1>2, <1>3, <1>4, <1>5, <1>6, <1>8, <1>9, <1>10, <1>11, <1>12 DEF Next

\* The types hold after each of them.
LEMMA TypeKept ==
  ASSUME TypeOK, Goings
  PROVE  TypeOK' /\ WorkInv'
<1>1. exports' \in Seq(Export) /\ Len(exports') \in 1..MaxExports /\ run' \in [Who -> Run]
  BY ScheduleAssumption DEF TypeOK, Goings, Kept, GoesOn, Steps
<1>2. lastOpen' \in 0..Len(exports') /\ lastPublished' \in 1..Len(exports')
  BY DEF TypeOK, Goings, Kept, GoesOn
<1> QED BY <1>1, <1>2 DEF Goings, Kept, Scalars, TypeOK

----------------------------------------------------------------------------
(* The last step of a run *)

\* It may note its export.
LEMMA FinishNotes ==
  ASSUME TypeOK, WorkInv, NEW r \in Who, Finish(r)
  PROVE  /\ exports' \in Seq(Export) /\ Len(exports') = Len(exports)
         /\ \A d \in 1..Len(exports) :
              /\ exports'[d].state = exports[d].state /\ exports'[d].base = exports[d].base
              /\ exports'[d].level = exports[d].level /\ exports'[d].git = exports[d].git
              /\ exports'[d].left = exports[d].left /\ exports'[d].over = exports[d].over
              /\ exports'[d].noted
                   <=> exports[d].noted \/ (d = run[r].exp /\ run[r].outcome = "published" /\ claim # "removed")
<1> DEFINE e == run[r].exp
           published == run[r].outcome = "published" /\ claim # "removed"
<1>1. exports \in Seq(Export) /\ Len(exports) \in Nat /\ run[r].at = "finish"
  BY DEF TypeOK, Finish
<1>2. CASE published
  <2> DEFINE n == [exports[e] EXCEPT !.noted = TRUE]
  <2>1. e \in 1..Len(exports)
    BY <1>1, <1>2 DEF WorkInv, PlaceOK
  <2>2. exports' = [exports EXCEPT ![e] = n] /\ exports[e] \in Export
    BY <1>1, <1>2, <2>1 DEF Finish, Note
  <2>3. /\ n \in Export /\ n.noted /\ n.state = exports[e].state /\ n.over = exports[e].over /\ n.git = exports[e].git
        /\ n.left = exports[e].left /\ n.base = exports[e].base /\ n.level = exports[e].level
    BY <2>2 DEF Export
  <2> HIDE DEF n
  <2>4. /\ exports' \in Seq(Export) /\ Len(exports') = Len(exports) /\ exports'[e] = n
        /\ \A d \in 1..Len(exports) : d # e => exports'[d] = exports[d]
    BY <1>1, <2>1, <2>2, <2>3
  <2> QED BY <1>2, <2>3, <2>4
<1>3. CASE ~published
  BY <1>1, <1>3 DEF Finish, Note
<1> QED BY <1>2, <1>3

\* What _finish writes, to a schedule that is still there.
LEMMA FinishWrites ==
  ASSUME TypeOK, WorkInv, NEW r \in Who, Finish(r)
  PROVE  /\ TypeOK' /\ WorkInv'
         /\ run' \in [Who -> Run] /\ run'[r] = Idle /\ \A x \in Who \ {r} : run'[x] = run[x]
<1> DEFINE e == run[r].exp
           published == run[r].outcome = "published" /\ claim # "removed"
<1>1. /\ exports \in Seq(Export) /\ Len(exports) \in 1..MaxExports /\ run \in [Who -> Run] /\ run[r].at = "finish"
      /\ e \in 0..Len(exports) \/ (e = Gone /\ run[r].outcome # "published")
      /\ run[r].outcome = "published"
           => e \in 1..Len(exports) /\ exports[e].git /\ (exports[e].over \/ exports[e].state \in Over)
  BY DEF TypeOK, WorkInv, PlaceOK, Finish
<1>2. Idle \in Run /\ Idle.at = "idle" /\ Idle.exp = 0
  BY ScheduleAssumption DEF Idle, Run, Gone
<1>3. run' \in [Who -> Run] /\ run'[r] = Idle /\ \A x \in Who \ {r} : run'[x] = run[x]
  BY <1>1, <1>2 DEF Finish
<1>4. /\ lastOpen \in 0..Len(exports) /\ lastPublished \in 1..Len(exports) /\ exports[lastPublished].noted
      /\ failures \in 0..MaxFailures /\ {enabled, crashed} \subseteq BOOLEAN
      /\ claim \in {"free", "fresh", "stale", "removed"} /\ level \in 0..MaxLevel /\ faults \in 0..MaxFaults
  BY DEF TypeOK, WorkInv, ExportsOK
<1>5. /\ lastOpen' \in 0..Len(exports) /\ lastPublished' \in 1..Len(exports)
      /\ lastPublished' = IF published THEN e ELSE lastPublished
  BY <1>1, <1>4 DEF Finish, Note, schedule
<1>6. /\ failures' \in 0..MaxFailures /\ {enabled', crashed'} \subseteq BOOLEAN
      /\ claim' \in {"free", "fresh", "stale", "removed"} /\ level' = level /\ faults' = faults
  <2>1. claim' \in {"free", "fresh", "stale", "removed"} /\ level' = level /\ faults' = faults /\ crashed' = crashed
    BY <1>4 DEF Finish, Note, schedule
  <2>2. failures' \in 0..MaxFailures
    BY <1>4, ScheduleAssumption DEF Finish, Note, schedule, Failures
  <2>3. enabled' \in BOOLEAN
    <3>1. CASE claim = "removed"
      BY <1>4, <3>1 DEF Finish, schedule
    <3>2. CASE claim # "removed"
      <4>1. enabled' = (enabled /\ failures' < MaxFailures)
        BY <3>2 DEF Finish, Note
      <4> QED BY <4>1
    <3> QED BY <3>1, <3>2
  <2> QED BY <1>4, <2>1, <2>2, <2>3
<1>7. TypeOK'
  BY <1>1, <1>3, <1>4, <1>5, <1>6, FinishNotes DEF TypeOK
<1>8. ExportsOK'
  <2>1. exports'[lastPublished'].noted
    BY <1>1, <1>4, <1>5, FinishNotes
  <2>2. \A d \in 1..Len(exports') : exports'[d].noted => exports'[d].git /\ (exports'[d].over \/ State(d)' \in Over)
    BY <1>1, FinishNotes DEF WorkInv, ExportsOK, State
  <2>3. \A d \in 1..Len(exports') :
          (State(d)' = "published" => exports'[d].git) /\ (exports'[d].git => exports'[d].left)
    BY <1>1, FinishNotes DEF WorkInv, ExportsOK, State
  <2> QED BY <2>1, <2>2, <2>3 DEF ExportsOK
<1>9. \A x \in Who : PlaceOK(run'[x], exports')
  <2>1. PlaceOK(Idle, exports')
    BY <1>1, <1>2, FinishNotes DEF PlaceOK, Working, Holding
  <2>2. ASSUME NEW x \in Who \ {r}
        PROVE  PlaceOK(run[x], exports')
    <3>1. PlaceOK(run[x], exports)
      BY DEF WorkInv
    <3>2. run[x].exp = 0 \/ run[x].exp \in 1..Len(exports) \/ (run[x].at = "finish" /\ run[x].outcome # "published")
      BY <1>1, <3>1 DEF PlaceOK
    <3> QED BY <1>1, <3>1, <3>2, FinishNotes DEF PlaceOK, Working, Holding
  <2> QED BY <1>3, <2>1, <2>2
<1>10. Alone'
  <2>1. \A x \in Who : run[x].at \in Working => run[x].exp \in 1..Len(exports)
    BY Held DEF Holding
  <2> QED BY <1>2, <1>3, <2>1, FinishNotes DEF WorkInv, Alone, Working
<1> QED BY <1>3, <1>7, <1>8, <1>9, <1>10 DEF WorkInv

\* Every step keeps the types, and the runs and their exports together.
LEMMA TypeWorkStep ==
  ASSUME TypeOK, WorkInv, [Next]_vars
  PROVE  TypeOK' /\ WorkInv'
<1>1. ASSUME NEW r \in Who, Finish(r)
      PROVE  TypeOK' /\ WorkInv'
  BY <1>1, FinishWrites
<1>2. CASE \A r \in Who : ~Finish(r)
  BY <1>2, StepGoesOn, TypeKept
<1> QED BY <1>1, <1>2

----------------------------------------------------------------------------
(* The chain *)

\* A publication of the schedule was revoked, or written over: from then on its chain may fork.
Broken == \E x \in 1..Len(exports) : exports[x].noted /\ (State(x) = "revoked" \/ exports[x].over)

\* Not noted yet, to continue the last publication.
Continues(e, ex, last) == e \in 2..Len(ex) /\ ~ex[e].noted /\ ex[e].base = last

\* Every publication continues another, of which it is the only continuation; nothing continues the last
\* one yet, and what is under way, or was left open, will.
Linked ==
  /\ \A d \in 2..Len(exports) : exports[d].noted =>
       /\ exports[d].base \in 1..Len(exports) /\ exports[exports[d].base].noted
       /\ exports[d].base # lastPublished
       /\ \A e \in 2..Len(exports) : exports[e].noted /\ exports[e].base = exports[d].base => e = d
  /\ \A r \in Runners :
       IF run[r].at = "create" THEN run[r].exp = lastPublished
       ELSE run[r].exp \in {0, Gone} \/ Continues(run[r].exp, exports, lastPublished)
  /\ lastOpen # 0 /\ ~exports[lastOpen].noted => Continues(lastOpen, exports, lastPublished)

ChainInv == Broken \/ Linked

\* A chain that is not broken is continued from its end.
LEMMA BaseIsLast ==
  ASSUME TypeOK, WorkInv, ~Broken
  PROVE  BaseOf = lastPublished
BY DEF TypeOK, WorkInv, ExportsOK, Broken, BaseOf, was_published, Over, State

\* The chain stays linked, or broken, while no publication is noted.
LEMMA ChainStep ==
  ASSUME TypeOK, WorkInv, ChainInv, Goings
  PROVE  ChainInv'
<1>1. GoesOn /\ Steps /\ UNCHANGED <<lastOpen, lastPublished>>
  BY DEF Goings, Kept
<1>2. \A e \in 1..Len(exports) : Follows(exports[e], exports'[e])
  BY <1>1 DEF GoesOn
<1>3. /\ lastPublished \in 1..Len(exports) /\ Len(exports) \in Nat /\ lastOpen \in 0..Len(exports)
      /\ Len(exports') \in {Len(exports), Len(exports) + 1}
      /\ Len(exports') = Len(exports) + 1 => ~exports'[Len(exports')].noted
  BY <1>1 DEF TypeOK, GoesOn
<1>4. CASE Broken
  BY <1>2, <1>3, <1>4 DEF Broken, ChainInv, Follows, Keeps, State
<1>5. CASE ~Broken
  <2>1. Linked /\ BaseOf = lastPublished
    BY <1>5, BaseIsLast DEF ChainInv
  <2>2. \A e \in 1..Len(exports') : exports'[e].noted => e \in 1..Len(exports) /\ exports[e].noted
    BY <1>2, <1>3 DEF Follows
  <2>3. \A e \in 1..Len(exports) : exports'[e].noted = exports[e].noted /\ exports'[e].base = exports[e].base
    BY <1>2 DEF Follows, Keeps
  <2>4. \A e : Continues(e, exports, lastPublished) => Continues(e, exports', lastPublished')
    BY <1>1, <1>3, <2>3 DEF Continues
  <2>5. ASSUME NEW d \in 2..Len(exports'), exports'[d].noted
        PROVE  /\ exports'[d].base \in 1..Len(exports') /\ exports'[exports'[d].base].noted
               /\ exports'[d].base # lastPublished'
               /\ \A e \in 2..Len(exports') : exports'[e].noted /\ exports'[e].base = exports'[d].base => e = d
    <3>1. d \in 2..Len(exports) /\ exports[d].noted /\ exports'[d].base = exports[d].base
      BY <1>3, <2>2, <2>3, <2>5
    <3>2. /\ exports[d].base \in 1..Len(exports) /\ exports[exports[d].base].noted
          /\ exports[d].base # lastPublished
          /\ \A e \in 2..Len(exports) : exports[e].noted /\ exports[e].base = exports[d].base => e = d
      BY <2>1, <3>1 DEF Linked
    <3>3. ASSUME NEW e \in 2..Len(exports'), exports'[e].noted, exports'[e].base = exports'[d].base
          PROVE  e = d
      <4>1. e \in 2..Len(exports) /\ exports[e].noted /\ exports'[e].base = exports[e].base
        BY <1>3, <2>2, <2>3, <3>3
      <4> QED BY <3>1, <3>2, <3>3, <4>1
    <3> QED BY <1>1, <1>3, <2>3, <3>1, <3>2, <3>3
  <2>6. ASSUME NEW r \in Runners
        PROVE  IF run'[r].at = "create" THEN run'[r].exp = lastPublished'
               ELSE run'[r].exp \in {0, Gone} \/ Continues(run'[r].exp, exports', lastPublished')
    <3>1. IF run[r].at = "create" THEN run[r].exp = lastPublished
          ELSE run[r].exp \in {0, Gone} \/ Continues(run[r].exp, exports, lastPublished)
      BY <2>1 DEF Linked
    <3>2. CASE run'[r] = run[r]
      BY <1>1, <2>4, <3>1, <3>2
    <3>3. CASE run'[r].at = "create" /\ run'[r].exp = BaseOf
      BY <1>1, <2>1, <3>3
    <3>4. CASE run'[r].at # "create" /\ run[r].at # "create" /\ run'[r].exp = run[r].exp
      BY <2>4, <3>1, <3>4
    <3>5. CASE run'[r].at # "create" /\ lastOpen # 0 /\ run'[r].exp = lastOpen /\ State(lastOpen) \in Open
      <4>1. lastOpen \in 1..Len(exports) /\ State(lastOpen) \notin Over /\ State(lastOpen) # "revoked"
        BY <1>3, <3>5 DEF Open, Over
      <4>2. ~exports[lastOpen].noted
        BY <1>5, <4>1 DEF WorkInv, ExportsOK, Broken
      <4> QED BY <2>1, <2>4, <3>5, <4>2 DEF Linked
    <3>6. CASE /\ run'[r].at # "create" /\ run'[r].exp = Len(exports) + 1 /\ run'[r].exp = Len(exports')
               /\ run[r].at = "create" /\ exports'[run'[r].exp].base = run[r].exp
      BY <1>1, <1>3, <3>1, <3>6 DEF Continues
    <3> QED BY <1>1, <3>2, <3>3, <3>4, <3>5, <3>6 DEF Steps, Has
  <2>7. lastOpen' # 0 /\ ~exports'[lastOpen'].noted => Continues(lastOpen', exports', lastPublished')
    BY <1>1, <1>3, <2>1, <2>3, <2>4 DEF Linked
  <2> QED BY <2>5, <2>6, <2>7 DEF ChainInv, Linked
<1> QED BY <1>4, <1>5

\* The publication a run notes continues the last one, which nothing noted does yet: it is the only run.
LEMMA FinishChain ==
  ASSUME TypeOK, WorkInv, Claimed, ChainInv, NEW r \in Who, Finish(r)
  PROVE  ChainInv'
<1> DEFINE e == run[r].exp
           published == run[r].outcome = "published" /\ claim # "removed"
<1>1. /\ Len(exports') = Len(exports) /\ Len(exports) \in Nat
      /\ \A d \in 1..Len(exports) :
           exports'[d].state = exports[d].state /\ exports'[d].base = exports[d].base /\ exports'[d].over = exports[d].over
      /\ run'[r].exp = 0 /\ run'[r].at # "create" /\ \A x \in Who \ {r} : run'[x] = run[x]
      /\ lastPublished \in 1..Len(exports) /\ exports[lastPublished].noted /\ lastOpen \in 0..Len(exports)
      /\ run[r].at = "finish" /\ (e \in 0..Len(exports) \/ (e = Gone /\ ~published)) /\ Gone > Len(exports)
  <2>1. /\ run'[r].exp = 0 /\ run'[r].at # "create" /\ \A x \in Who \ {r} : run'[x] = run[x]
    BY FinishWrites DEF Idle
  <2>2. PlaceOK(run[r], exports) /\ ExportsOK
    BY DEF WorkInv
  <2>3. run[r].at = "finish"
    BY DEF Finish
  <2>4. Len(exports) \in 1..MaxExports /\ Gone > Len(exports)
    BY ScheduleAssumption DEF TypeOK, Gone
  <2> QED BY <2>1, <2>2, <2>3, <2>4, FinishNotes DEF TypeOK, PlaceOK, ExportsOK
<1>2. r \in Runners
  BY <1>1 DEF Claimed, Who
<1>3. ASSUME NEW x \in Runners
      PROVE  run'[x].exp = 0 /\ run'[x].at # "create"
  <2>1. CASE x = r
    BY <1>1, <2>1
  <2>2. CASE x # r
    <3>1. x \in Who \ {r} /\ run[x].at = "idle"
      BY <1>1, <1>2, <2>2 DEF Claimed, OneRunner, Who
    <3>2. run[x].exp = 0 /\ run[x].at # "create"
      BY <3>1 DEF WorkInv, PlaceOK
    <3> QED BY <1>1, <3>1, <3>2
  <2> QED BY <2>1, <2>2
<1>4. /\ \A d \in 1..Len(exports) : (exports'[d].noted <=> exports[d].noted \/ (d = e /\ published))
      /\ published => e # 0 /\ e # Gone
  <2>1. published => e # 0 /\ e # Gone
    BY <1>1 DEF WorkInv, PlaceOK
  <2> QED BY <2>1, FinishNotes
<1>5. lastPublished' = IF published THEN e ELSE lastPublished
  BY DEF Finish, Note, schedule
<1>6. lastOpen' = IF claim # "removed" /\ e # 0 THEN (IF e = Gone THEN 0 ELSE e) ELSE lastOpen
  <2>1. CASE claim = "removed"
    BY <2>1 DEF Finish, schedule
  <2>2. CASE claim # "removed"
    <3>1. lastOpen' = CASE e = 0 -> lastOpen [] e = Gone -> 0 [] OTHER -> e
      BY <2>2 DEF Finish, Note
    <3>2. Gone # 0
      BY ScheduleAssumption DEF Gone
    <3> HIDE DEF e
    <3> QED BY <2>2, <3>1, <3>2
  <2> QED BY <2>1, <2>2
<1>7. published => claim # "removed"
  OBVIOUS
<1> HIDE DEF published
<1>8. CASE Broken
  BY <1>1, <1>4, <1>8 DEF Broken, ChainInv, State
<1>9. CASE Linked
  <2>1. e \notin {0, Gone} => Continues(e, exports, lastPublished)
    BY <1>1, <1>2, <1>9 DEF Linked
  <2>2. ASSUME NEW d \in 2..Len(exports'), exports'[d].noted
        PROVE  /\ exports'[d].base \in 1..Len(exports') /\ exports'[exports'[d].base].noted
               /\ exports'[d].base # lastPublished'
               /\ \A c \in 2..Len(exports') : exports'[c].noted /\ exports'[c].base = exports'[d].base => c = d
    <3>1. published => e \in 2..Len(exports) /\ ~exports[e].noted /\ exports[e].base = lastPublished
      BY <1>4, <2>1 DEF Continues
    <3>2. exports'[d].base = exports[d].base /\ d \in 2..Len(exports)
      BY <1>1
    <3>3. \A c \in 2..Len(exports) : exports[c].noted =>
            /\ exports[c].base \in 1..Len(exports) /\ exports[exports[c].base].noted
            /\ exports[c].base # lastPublished
            /\ \A b \in 2..Len(exports) : exports[b].noted /\ exports[b].base = exports[c].base => b = c
      BY <1>9 DEF Linked
    <3>4. \A c \in 2..Len(exports) : /\ exports'[c].noted => exports[c].noted \/ (c = e /\ published)
                                     /\ exports'[c].base = exports[c].base
      BY <1>1, <1>4
    <3>5. CASE exports[d].noted
      <4>1. exports[d].base \in 1..Len(exports) /\ exports[exports[d].base].noted /\ exports[d].base # lastPublished
        BY <3>2, <3>3, <3>5
      <4>2. exports[d].base # lastPublished'
        BY <1>5, <3>1, <4>1
      <4>3. exports'[exports[d].base].noted
        BY <1>4, <4>1
      <4>4. ASSUME NEW c \in 2..Len(exports), exports'[c].noted, exports[c].base = exports[d].base
            PROVE  c = d
        BY <3>1, <3>2, <3>3, <3>4, <3>5, <4>1, <4>4
      <4> QED BY <1>1, <3>2, <3>4, <4>1, <4>2, <4>3, <4>4
    <3>6. CASE d = e /\ published
      <4>1. exports[d].base = lastPublished /\ lastPublished' = d /\ d # lastPublished
        BY <1>1, <1>5, <3>1, <3>6
      <4>2. exports'[lastPublished].noted
        BY <1>1, <1>4
      <4>3. ASSUME NEW c \in 2..Len(exports), exports'[c].noted, exports[c].base = lastPublished
            PROVE  c = d
        BY <3>3, <3>4, <3>6, <4>3
      <4> QED BY <1>1, <3>2, <3>4, <4>1, <4>2, <4>3
    <3> QED BY <2>2, <3>2, <3>4, <3>5, <3>6
  <2>3. lastOpen' # 0 /\ ~exports'[lastOpen'].noted => Continues(lastOpen', exports', lastPublished')
    <3>1. CASE claim # "removed" /\ e \notin {0, Gone}
      <4>1. published => exports'[e].noted
        BY <1>1, <1>4
      <4>2. ~published => Continues(e, exports', lastPublished')
        BY <1>1, <1>4, <1>5, <2>1, <3>1 DEF Continues
      <4> QED BY <1>6, <3>1, <4>1, <4>2
    <3>2. CASE claim = "removed" \/ e = 0
      <4>1. lastOpen' = lastOpen /\ ~published /\ lastPublished' = lastPublished
        BY <1>4, <1>5, <1>6, <3>2, <1>7
      <4>2. lastOpen # 0 /\ ~exports[lastOpen].noted => Continues(lastOpen, exports, lastPublished)
        BY <1>9 DEF Linked
      <4> QED BY <1>1, <1>4, <4>1, <4>2 DEF Continues
    <3>3. CASE claim # "removed" /\ e = Gone
      BY <1>1, <1>6, <3>3
    <3> QED BY <3>1, <3>2, <3>3
  <2> QED BY <1>3, <2>2, <2>3 DEF ChainInv, Linked
<1> QED BY <1>8, <1>9 DEF ChainInv

----------------------------------------------------------------------------
(* The theorems *)

\* The schedule starts with the one publication it was set on.
LEMMA InitWork == Init => TypeOK /\ WorkInv /\ Claimed /\ ChainInv
<1> SUFFICES ASSUME Init PROVE TypeOK /\ WorkInv /\ Claimed /\ ChainInv
  OBVIOUS
<1> USE ScheduleAssumption
<1> DEFINE first == [state |-> "published", base |-> 0, level |-> 0, ready |-> TRUE, approved |-> TRUE,
                     git |-> TRUE, left |-> TRUE, noted |-> TRUE, over |-> FALSE]
<1>1. exports = <<first>> /\ lastOpen = 0 /\ lastPublished = 1
  BY DEF Init
<1>2. first \in Export /\ first.state = "published" /\ first.git /\ first.left /\ first.noted
  BY DEF Export, States
<1> HIDE DEF first
<1>3. exports \in Seq(Export) /\ Len(exports) = 1 /\ exports[1] = first
  BY <1>1, <1>2
<1>4. Idle \in Run /\ Idle.at = "idle" /\ Idle.exp = 0
  BY DEF Idle, Run, Gone
<1>5. run \in [Who -> Run] /\ \A r \in Who : run[r] = Idle
  BY <1>4 DEF Init
<1>6. TypeOK
  <2>1. /\ level = 0 /\ failures = 0 /\ faults = 0 /\ crashed = FALSE /\ enabled = TRUE /\ claim = "free"
    BY DEF Init
  <2>2. 0 \in 0..MaxLevel /\ 0 \in 0..MaxFailures /\ 0 \in 0..MaxFaults /\ 1 \in 1..MaxExports
    OBVIOUS
  <2>3. {enabled, crashed} \subseteq BOOLEAN
    BY <2>1
  <2> QED BY <1>1, <1>3, <1>5, <2>1, <2>2, <2>3 DEF TypeOK
<1>7. WorkInv
  <2>1. ExportsOK
    BY <1>1, <1>2, <1>3 DEF ExportsOK, State, Over
  <2>2. \A r \in Who : PlaceOK(run[r], exports)
    BY <1>3, <1>4, <1>5 DEF PlaceOK, Working, Holding
  <2>3. Alone
    BY <1>4, <1>5 DEF Alone, Working
  <2> QED BY <2>1, <2>2, <2>3 DEF WorkInv
<1>8. Claimed
  BY DEF Init, Idle, Claimed, OneRunner, Who
<1>9. ChainInv
  BY <1>1, <1>3, <1>4, <1>5 DEF ChainInv, Linked, Who
<1> QED BY <1>6, <1>7, <1>8, <1>9

\* schedules.py and service.py: whatever runners, people and crashes do, the exports, the places of the runs
\* and the fields of the schedule keep their types: a run and the schedule name exports that exist.
THEOREM TypeCorrect == Spec => []TypeOK
<1>1. Init => TypeOK /\ WorkInv
  BY InitWork
<1>2. TypeOK /\ WorkInv /\ [Next]_vars => TypeOK' /\ WorkInv'
  BY TypeWorkStep
<1> QED BY <1>1, <1>2, PTL DEF Spec

\* A chain that is linked has no fork.
LEMMA LinkedIsChain == TypeOK /\ ChainInv => Chain
<1>1. ASSUME TypeOK, Linked
      PROVE  Chain
  BY <1>1 DEF Linked, Chain
<1>2. ASSUME TypeOK, Broken
      PROVE  Chain
  BY <1>2 DEF Broken, Chain, TypeOK
<1> QED BY <1>1, <1>2 DEF ChainInv

\* schedules.py, the "chain of increments": through failures, crashes, work by hand and exports that wait, two
\* publications of the schedule never continue the same one, unless one of its publications was revoked,
\* or was written over by a session that had not read its state, as long as no run lasts longer than its claim
\* is respected.
THEOREM ChainUnforked == ASSUME ~Slow PROVE Spec => []Chain
<1> DEFINE IInv == TypeOK /\ WorkInv /\ Claimed /\ ChainInv
<1>1. Init => IInv
  BY InitWork
<1>2. IInv /\ [Next]_vars => IInv'
  <2> SUFFICES ASSUME IInv, [Next]_vars PROVE IInv'
    OBVIOUS
  <2>1. TypeOK' /\ WorkInv'
    BY TypeWorkStep
  <2>2. Claimed'
    BY ClaimedStep
  <2>3. ChainInv'
    <3>1. ASSUME NEW r \in Who, Finish(r)
          PROVE  ChainInv'
      BY <3>1, FinishChain
    <3>2. CASE \A r \in Who : ~Finish(r)
      BY <3>2, StepGoesOn, ChainStep
    <3> QED BY <3>1, <3>2
  <2> QED BY <2>1, <2>2, <2>3
<1>3. IInv => Chain
  BY LinkedIsChain
<1> QED BY <1>1, <1>2, <1>3, PTL DEF Spec

----------------------------------------------------------------------------
(* What becomes of an export *)

AllKeep == \A e \in DOMAIN exports : e \in DOMAIN exports' /\ Keeps(exports[e], exports'[e])

LEMMA StepKeeps ==
  ASSUME TypeOK, WorkInv, [Next]_vars
  PROVE  AllKeep
<1>1. DOMAIN exports = 1..Len(exports) /\ Len(exports) \in Nat
  BY DEF TypeOK
<1>2. CASE \A r \in Who : ~Finish(r)
  <2>1. GoesOn
    BY <1>2, StepGoesOn DEF Goings, Kept
  <2>2. DOMAIN exports' = 1..Len(exports') /\ \A e \in 1..Len(exports) : e \in 1..Len(exports')
    BY <1>1, <2>1 DEF GoesOn
  <2> QED BY <1>1, <2>1, <2>2 DEF AllKeep, GoesOn, Follows
<1>3. ASSUME NEW r \in Who, Finish(r)
      PROVE  AllKeep
  <2>1. DOMAIN exports' = 1..Len(exports)
    BY <1>3, FinishNotes
  <2>2. \A e \in 1..Len(exports) : exports[e].state = "published" => exports[e].left
    BY DEF WorkInv, ExportsOK, State
  <2> QED BY <1>1, <1>3, <2>1, <2>2, FinishNotes DEF AllKeep, Keeps, May
<1> QED BY <1>2, <1>3

\* service.py has no lock on an export, and jobs.start knows nothing of a schedule's run: two sessions generate or
\* push one export at a time only after one of them, or a request of a person or of retention, committed over a
\* state it had not read.  Nothing is asked of the time a run takes.
THEOREM OneWorker == Spec => []Alone
<1>1. Init => TypeOK /\ WorkInv
  BY InitWork
<1>2. TypeOK /\ WorkInv /\ [Next]_vars => TypeOK' /\ WorkInv'
  BY TypeWorkStep
<1>3. WorkInv => Alone
  BY DEF WorkInv
<1> QED BY <1>1, <1>2, <1>3, PTL DEF Spec

\* lifecycle.py, "Every transition is checked", against what was read before: an export that no commit went over
\* moves as the table says and gets its content by a generation only, also when two sessions meet at it, a push
\* fails or a process ends; and any export keeps its base, and is published only after it was pushed.
THEOREM ExportsMoveByTable == Spec => [][AllKeep]_vars
<1>1. Init => TypeOK /\ WorkInv
  BY InitWork
<1>2. TypeOK /\ WorkInv /\ [Next]_vars => TypeOK' /\ WorkInv'
  BY TypeWorkStep
<1>3. TypeOK /\ WorkInv /\ [Next]_vars => [AllKeep]_vars
  BY StepKeeps
<1> QED BY <1>1, <1>2, <1>3, PTL DEF Spec
=============================================================================
