--------------------------- MODULE Cutover_proofs ---------------------------
(***************************************************************************)
(* Theorems about the cutover, for every set of domains and streams.       *)
(***************************************************************************)
EXTENDS Cutover, TLAPS

\* Every stream belongs to one domain.  create_domain does not ask for it, and
\* the seal of a cutover is lost without it.
Disjoint ==
  \A d, e \in Domains : d # e => StreamsOf[d] \cap StreamsOf[e] = {}

\* A signed exit is undone by a reversion only, which leaves T3 as well.
ExitAfterFreeze == \A d \in Domains : exited[d] => CutOver(d)

IInv == TypeOK /\ CutOverSealed /\ ExitAfterFreeze

\* Arrivals and decisions move what is published, and hold only on open streams.
StreamTypes ==
  /\ source \in [Streams -> Level] /\ published \in [Streams -> Level]
  /\ waiting \in [Streams -> Level] /\ frozen \in [Streams -> BOOLEAN]

LEMMA LevelFacts == 0 \in Level /\ Level \subseteq Nat
BY DomainAssumption DEF Level

LEMMA InitEstablishes == Init => IInv
<1> SUFFICES ASSUME Init PROVE IInv
  OBVIOUS
<1>1. TypeOK
  <2>1. 0 \in 0..MaxEdits
    BY DomainAssumption
  <2> QED BY <2>1, LevelFacts DEF Init, TypeOK
<1>2. CutOverSealed /\ ExitAfterFreeze
  <2>1. \A d \in Domains : ~exited[d] /\ stage[d] = None
    BY DEF Init
  <2> QED BY <2>1, NoneAssumption DEF Stages, CutOverSealed, ExitAfterFreeze, CutOver
<1> QED BY <1>1, <1>2 DEF IInv

\* The streams move while every domain stands still: what arrives or is decided
\* leaves the closed streams as they are.
LEMMA StreamsKeep ==
  ASSUME IInv, StreamTypes', UNCHANGED <<domainVars, frozen>>,
         \A s \in Streams : frozen[s] /\ waiting[s] = 0 => waiting'[s] = 0
  PROVE  IInv'
<1>1. TypeOK'
  BY DEF IInv, TypeOK, StreamTypes, domainVars, Report, Content
<1>2. CutOverSealed'
  BY DomainAssumption DEF IInv, CutOverSealed, CutOver, domainVars
<1>3. ExitAfterFreeze'
  BY DEF IInv, ExitAfterFreeze, CutOver, domainVars
<1> QED BY <1>1, <1>2, <1>3 DEF IInv

\* One domain takes a step that neither moves its stage over the line of the
\* cutover nor touches a stream.
LEMMA DomainKeeps ==
  ASSUME IInv, TypeOK', UNCHANGED streamVars,
         \A d \in Domains : CutOver(d)' <=> CutOver(d),
         \A d \in Domains : exited'[d] => exited[d] \/ CutOver(d)
  PROVE  IInv'
<1>1. CutOverSealed'
  BY DEF IInv, CutOverSealed, streamVars
<1>2. ExitAfterFreeze'
  BY DEF IInv, ExitAfterFreeze
<1> QED BY <1>1, <1>2 DEF IInv

\* A domain leaves the cutover and reopens its streams: the others keep theirs,
\* because none of them is shared.
LEMMA ReopenKeeps ==
  ASSUME Disjoint, IInv, TypeOK', NEW d \in Domains,
         frozen' = Reopened(d), UNCHANGED waiting, ~CutOver(d)', ~exited'[d],
         \A e \in Domains \ {d} : (CutOver(e)' <=> CutOver(e)) /\ exited'[e] = exited[e]
  PROVE  IInv'
<1>1. ASSUME NEW e \in Domains, CutOver(e)', NEW s \in StreamsOf[e]
      PROVE  frozen'[s] /\ waiting'[s] = 0
  <2>1. e # d /\ CutOver(e)
    BY <1>1
  <2>2. s \in Streams /\ s \notin StreamsOf[d]
    BY <1>1, <2>1, DomainAssumption DEF Disjoint
  <2>3. frozen[s] /\ waiting[s] = 0
    BY <1>1, <2>1 DEF IInv, CutOverSealed
  <2> QED BY <2>2, <2>3 DEF Reopened
<1>2. ExitAfterFreeze'
  BY DEF IInv, ExitAfterFreeze
<1> QED BY <1>1, <1>2 DEF IInv, CutOverSealed

\* What the types of the two functions with dependent ranges need.
LEMMA RecordTypes ==
  ASSUME TypeOK, NEW d \in Domains, NEW content \in Content(d), NEW passed \in BOOLEAN
  PROVE  /\ LET new == [manifest EXCEPT ![d] = content]
            IN  DOMAIN new = Domains /\ \A e \in Domains : new[e] \in Content(e) \cup {None}
         /\ LET new == [report EXCEPT ![d] =
                         [manifest |-> content, seen |-> Held(d), passed |-> passed]]
            IN  DOMAIN new = Domains /\ \A e \in Domains : new[e] \in Report(e) \cup {None}
<1>1. Held(d) \in Content(d)
  BY DomainAssumption DEF Held, Content, TypeOK
<1> QED BY <1>1 DEF TypeOK, Report

\* Every step keeps the types.
LEMMA TypeStep ==
  ASSUME TypeOK, Next
  PROVE  TypeOK'
<1>1. ASSUME NEW s \in Streams, SourceChanges(s) \/ Import(s) \/ \E b \in BOOLEAN : Decide(s, b)
      PROVE  TypeOK'
  <2>1. UNCHANGED <<domainVars, frozen>>
    BY <1>1 DEF SourceChanges, Import, Decide
  <2>2. source' \in [Streams -> Level] /\ published' \in [Streams -> Level] /\ waiting' \in [Streams -> Level]
    <3>1. CASE SourceChanges(s)
      <4>1. source[s] + 1 \in Level
        BY <3>1, DomainAssumption DEF SourceChanges, TypeOK, Level
      <4> QED BY <3>1, <4>1 DEF SourceChanges, TypeOK
    <3>2. CASE Import(s)
      BY <3>2, LevelFacts DEF Import, TypeOK
    <3>3. ASSUME NEW b \in BOOLEAN, Decide(s, b)
          PROVE  source' \in [Streams -> Level] /\ published' \in [Streams -> Level]
                 /\ waiting' \in [Streams -> Level]
      BY <3>3, LevelFacts DEF Decide, TypeOK
    <3> QED BY <1>1, <3>1, <3>2, <3>3
  <2> QED BY <2>1, <2>2 DEF TypeOK, domainVars, Report, Content
<1>2. ASSUME NEW d \in Domains, Create(d) \/ Forward(d) \/ SignExit(d) \/ WindowCloses(d)
      PROVE  TypeOK'
  <2>1. UNCHANGED <<manifest, report, final, edits, exported, retired, streamVars>>
    BY <1>2 DEF Create, Forward, SignExit, WindowCloses
  <2>2. stage' \in [Domains -> Stages \cup {None}] /\ exited' \in [Domains -> BOOLEAN]
        /\ closed' \in [Domains -> BOOLEAN]
    BY <1>2 DEF Create, Forward, SignExit, WindowCloses, TypeOK, Stages
  <2> QED BY <2>1, <2>2 DEF TypeOK, streamVars, Report, Content
<1>3. ASSUME NEW d \in Domains, (\E to \in Stages : Abort(d, to)) \/ RevertPilot(d)
      PROVE  TypeOK'
  <2>1. UNCHANGED <<closed, manifest, report, edits, exported, retired, source, published, waiting>>
    BY <1>3 DEF Abort, RevertPilot
  <2>2. frozen' \in [Streams -> BOOLEAN] /\ exited' \in [Domains -> BOOLEAN]
        /\ stage' \in [Domains -> Stages \cup {None}] /\ final' \in [Domains -> BOOLEAN]
    BY <1>3, ZenonT(60) DEF Abort, RevertPilot, Reopened, TypeOK, Stages
  <2> QED BY <2>1, <2>2 DEF TypeOK, Report, Content
<1>4. ASSUME NEW d \in Domains, NEW content \in Content(d), Freeze(d, content)
      PROVE  TypeOK'
  <2>1. UNCHANGED <<exited, closed, report, edits, exported, retired, source, published, waiting>>
    BY <1>4 DEF Freeze
  <2>2. DOMAIN manifest' = Domains /\ \A e \in Domains : manifest'[e] \in Content(e) \cup {None}
    BY <1>4, RecordTypes DEF Freeze
  <2>3. frozen' \in [Streams -> BOOLEAN] /\ stage' \in [Domains -> Stages \cup {None}]
        /\ final' \in [Domains -> BOOLEAN]
    BY <1>4 DEF Freeze, TypeOK, Stages
  <2> QED BY <2>1, <2>2, <2>3 DEF TypeOK, Report, Content
<1>5. ASSUME NEW d \in Domains, NEW content \in Content(d), NEW b \in BOOLEAN, Reconcile(d, content, b)
      PROVE  TypeOK'
  <2>1. UNCHANGED <<stage, exited, closed, manifest, edits, exported, retired, streamVars>>
    BY <1>5 DEF Reconcile
  <2>2. DOMAIN report' = Domains /\ \A e \in Domains : report'[e] \in Report(e) \cup {None}
    <3>1. PICK passed \in BOOLEAN : passed = (content = Held(d) \/ b)
      OBVIOUS
    <3> QED BY <1>5, <3>1, RecordTypes DEF Reconcile
  <2>3. final' \in [Domains -> BOOLEAN]
    BY <1>5 DEF Reconcile, TypeOK, CutOver
  <2> QED BY <2>1, <2>2, <2>3 DEF TypeOK, streamVars, Report, Content
<1>6. ASSUME NEW d \in Domains, ReversionExport(d) \/ Decided(Scope[d])
      PROVE  TypeOK'
  <2>1. UNCHANGED <<stage, exited, closed, manifest, report, final, retired, streamVars>>
    BY <1>6 DEF ReversionExport, Decided
  <2>2. edits' \in [Domains -> 0..MaxEdits] /\ exported' \in [Domains -> 0..MaxEdits \cup {None}]
    <3>1. CASE ReversionExport(d)
      BY <3>1 DEF ReversionExport, TypeOK
    <3>2. CASE Decided(Scope[d])
      BY <3>2, DomainAssumption DEF Decided, TypeOK
    <3> QED BY <1>6, <3>1, <3>2
  <2> QED BY <2>1, <2>2 DEF TypeOK, streamVars, Report, Content
<1>7. CASE Retire
  <2>1. stage' \in [Domains -> Stages \cup {None}] /\ retired' \in BOOLEAN
    BY <1>7 DEF Retire, TypeOK, Stages
  <2>2. UNCHANGED <<exited, closed, manifest, report, final, edits, exported, streamVars>>
    BY <1>7 DEF Retire
  <2> QED BY <2>1, <2>2 DEF TypeOK, streamVars, Report, Content
<1> QED BY <1>1, <1>2, <1>3, <1>4, <1>5, <1>6, <1>7 DEF Next, Edit, DecideUnasked

LEMMA StepKeeps ==
  ASSUME Disjoint, IInv, [Next]_vars
  PROVE  IInv'
<1>1. CASE UNCHANGED vars
  <2>1. TypeOK'
    BY <1>1 DEF IInv, TypeOK, vars, domainVars, streamVars, Report, Content
  <2>2. CutOverSealed' /\ ExitAfterFreeze'
    BY <1>1 DEF IInv, CutOverSealed, ExitAfterFreeze, CutOver, vars, domainVars, streamVars
  <2> QED BY <2>1, <2>2 DEF IInv
<1>2. CASE Next
  <2>1. TypeOK'
    BY <1>2, TypeStep DEF IInv
  <2>2. ASSUME NEW s \in Streams, SourceChanges(s) \/ Import(s) \/ \E b \in BOOLEAN : Decide(s, b)
        PROVE  IInv'
    <3>1. UNCHANGED <<domainVars, frozen>>
      BY <2>2 DEF SourceChanges, Import, Decide
    <3>2. \A t \in Streams : frozen[t] /\ waiting[t] = 0 => waiting'[t] = 0
      BY <2>2 DEF SourceChanges, Import, Decide, IInv, TypeOK
    <3>3. StreamTypes'
      BY <2>1 DEF TypeOK, StreamTypes
    <3> QED BY <3>1, <3>2, <3>3, StreamsKeep
  <2>3. ASSUME NEW d \in Domains, Create(d) \/ Forward(d) \/ SignExit(d) \/ WindowCloses(d)
        PROVE  IInv'
    <3>1. \A e \in Domains : CutOver(e)' <=> CutOver(e)
      BY <2>3, NoneAssumption
         DEF Create, Forward, SignExit, WindowCloses, CutOver, IInv, TypeOK, Stages
    <3>2. \A e \in Domains : exited'[e] => exited[e] \/ CutOver(e)
      BY <2>3 DEF Create, Forward, SignExit, WindowCloses, CutOver, IInv, TypeOK
    <3>3. UNCHANGED streamVars
      BY <2>3 DEF Create, Forward, SignExit, WindowCloses
    <3> QED BY <2>1, <3>1, <3>2, <3>3, DomainKeeps
  <2>4. ASSUME NEW d \in Domains, (\E to \in Stages : Abort(d, to)) \/ RevertPilot(d)
        PROVE  IInv'
    <3>1. frozen' = Reopened(d) /\ UNCHANGED waiting
      BY <2>4 DEF Abort, RevertPilot
    <3>2. ~CutOver(d)' /\ ~exited'[d]
      BY <2>4 DEF Abort, RevertPilot, CutOver, IInv, TypeOK
    <3>3. \A e \in Domains \ {d} : (CutOver(e)' <=> CutOver(e)) /\ exited'[e] = exited[e]
      BY <2>4 DEF Abort, RevertPilot, CutOver, IInv, TypeOK
    <3> QED BY <2>1, <3>1, <3>2, <3>3, ReopenKeeps
  <2>5. ASSUME NEW d \in Domains, NEW content \in Content(d), Freeze(d, content)
        PROVE  IInv'
    <3>1. /\ CutOver(d)' /\ exited' = exited /\ waiting' = waiting
          /\ \A e \in Domains \ {d} : CutOver(e)' <=> CutOver(e)
      BY <2>5 DEF Freeze, CutOver, IInv, TypeOK
    <3>2. \A s \in StreamsOf[d] : waiting[s] = 0
      BY <2>5 DEF Freeze
    <3>3. \A s \in Streams : frozen'[s] = (frozen[s] \/ s \in StreamsOf[d])
      BY <2>5 DEF Freeze
    <3>4. CutOverSealed'
      BY <3>1, <3>2, <3>3, DomainAssumption DEF IInv, CutOverSealed
    <3>5. ExitAfterFreeze'
      BY <3>1 DEF IInv, ExitAfterFreeze
    <3> QED BY <2>1, <3>4, <3>5 DEF IInv
  <2>6. ASSUME NEW d \in Domains,
               (\E content \in Content(d), b \in BOOLEAN : Reconcile(d, content, b))
               \/ ReversionExport(d) \/ Decided(Scope[d])
        PROVE  IInv'
    <3>1. UNCHANGED <<stage, exited, streamVars>>
      BY <2>6 DEF Reconcile, ReversionExport, Decided
    <3> QED BY <2>1, <3>1, DomainKeeps DEF CutOver
  <2>7. CASE Retire
    <3>1. \A e \in Domains : CutOver(e)' <=> CutOver(e)
      BY <2>7 DEF Retire, CutOver, IInv, TypeOK
    <3>2. UNCHANGED <<exited, streamVars>>
      BY <2>7 DEF Retire
    <3> QED BY <2>1, <3>1, <3>2, DomainKeeps
  <2> QED BY <1>2, <2>2, <2>3, <2>4, <2>5, <2>6, <2>7 DEF Next, Edit, DecideUnasked
<1> QED BY <1>1, <1>2

\* With a stream per domain a cutover stays sealed from the freeze to the end, through the aborts,
\* exits and reversions of the others.
THEOREM Sealed ==
  ASSUME Disjoint
  PROVE  Spec => []CutOverSealed
<1>1. IInv /\ [Next]_vars => IInv'
  BY StepKeeps
<1>2. IInv => CutOverSealed
  BY DEF IInv
<1> QED BY <1>1, <1>2, InitEstablishes, PTL DEF Spec

\* The variables of the cutover keep their types, shared streams or not.
THEOREM TypeCorrect == Spec => []TypeOK
<1>1. Init => TypeOK
  BY InitEstablishes DEF IInv
<1>2. TypeOK /\ [Next]_vars => TypeOK'
  <2>1. TypeOK /\ UNCHANGED vars => TypeOK'
    BY DEF TypeOK, vars, domainVars, streamVars, Report, Content
  <2> QED BY <2>1, TypeStep
<1> QED BY <1>1, <1>2, PTL DEF Spec

\* A stream is closed for a cutover after every step, shared or not: who leaves a cutover reopens
\* its streams, and nobody who is in one leaves it otherwise.
LEMMA FrozenStep ==
  ASSUME TypeOK, FrozenForCutover, [Next]_vars
  PROVE  FrozenForCutover'
<1>1. ASSUME UNCHANGED frozen, \A d \in Domains : CutOver(d) => CutOver(d)'
      PROVE  FrozenForCutover'
  BY <1>1 DEF FrozenForCutover
<1>2. ASSUME NEW s \in Streams, SourceChanges(s) \/ Import(s) \/ \E b \in BOOLEAN : Decide(s, b)
      PROVE  FrozenForCutover'
  BY <1>1, <1>2 DEF SourceChanges, Import, Decide, domainVars, CutOver
<1>3. ASSUME NEW d \in Domains,
             Create(d) \/ Forward(d) \/ SignExit(d) \/ WindowCloses(d) \/ ReversionExport(d)
             \/ Decided(Scope[d]) \/ \E content \in Content(d), b \in BOOLEAN : Reconcile(d, content, b)
      PROVE  FrozenForCutover'
  <2>1. UNCHANGED frozen
    BY <1>3 DEF Create, Forward, SignExit, WindowCloses, ReversionExport, Decided, Reconcile, streamVars
  <2>2. \A e \in Domains : CutOver(e) => CutOver(e)'
    BY <1>3, NoneAssumption DEF Create, Forward, SignExit, WindowCloses, ReversionExport, Decided, Reconcile,
       CutOver, TypeOK, Stages
  <2> QED BY <2>1, <2>2, <1>1
<1>4. ASSUME NEW d \in Domains, (\E to \in Stages : Abort(d, to)) \/ RevertPilot(d)
      PROVE  FrozenForCutover'
  <2>1. \A s \in Streams : frozen'[s] => frozen[s] /\ s \notin StreamsOf[d]
    BY <1>4 DEF Abort, RevertPilot, Reopened
  <2>2. \A e \in Domains \ {d} : CutOver(e) => CutOver(e)'
    BY <1>4 DEF Abort, RevertPilot, CutOver, TypeOK
  <2> QED BY <2>1, <2>2 DEF FrozenForCutover
<1>5. ASSUME NEW d \in Domains, NEW content \in Content(d), Freeze(d, content)
      PROVE  FrozenForCutover'
  <2>1. \A s \in Streams : frozen'[s] => frozen[s] \/ s \in StreamsOf[d]
    BY <1>5 DEF Freeze
  <2>2. CutOver(d)' /\ \A e \in Domains : CutOver(e) => CutOver(e)'
    BY <1>5 DEF Freeze, CutOver, TypeOK
  <2> QED BY <2>1, <2>2 DEF FrozenForCutover
<1>6. CASE Retire
  <2>1. UNCHANGED frozen /\ \A d \in Domains : CutOver(d) => CutOver(d)'
    BY <1>6 DEF Retire, CutOver, TypeOK, streamVars
  <2> QED BY <2>1, <1>1
<1>7. CASE UNCHANGED vars
  BY <1>7, <1>1 DEF vars, domainVars, streamVars, CutOver
<1> QED BY <1>2, <1>3, <1>4, <1>5, <1>6, <1>7 DEF Next, Edit, DecideUnasked

\* No stream stays closed for a cutover that was given up, even when domains share streams: none
\* goes on refusing its revisions for nobody.
THEOREM ClosedForACutover == Spec => []FrozenForCutover
<1>1. Init => FrozenForCutover
  BY DEF Init, FrozenForCutover
<1>2. TypeOK /\ FrozenForCutover /\ [Next]_vars => FrozenForCutover'
  BY FrozenStep
<1> QED BY <1>1, <1>2, TypeCorrect, PTL DEF Spec

\* A final report belongs to a domain that is cut over, whose streams are sealed.
FinalInv == \A d \in Domains : final[d] => CutOver(d)

\* What a domain whose streams are sealed holds does not move.
LEMMA SealedStands ==
  ASSUME IInv, Next, NEW d \in Domains, CutOver(d)
  PROVE  Held(d)' = Held(d)
<1>1. \A s \in StreamsOf[d] : frozen[s] /\ waiting[s] = 0 /\ s \in Streams
  BY DomainAssumption DEF IInv, CutOverSealed
<1>2. \A s \in StreamsOf[d] : published'[s] = published[s]
  <2>1. ASSUME NEW t \in Streams, Import(t) \/ \E b \in BOOLEAN : Decide(t, b)
        PROVE  \A s \in StreamsOf[d] : published'[s] = published[s]
    <3>1. t \notin StreamsOf[d]
      BY <1>1, <2>1 DEF Import, Decide
    <3> QED BY <1>1, <2>1, <3>1 DEF Import, Decide, IInv, TypeOK
  <2>2. CASE UNCHANGED published
    BY <2>2
  <2> QED BY <2>1, <2>2 DEF Next, SourceChanges, domainVars, streamVars, Create, Forward, Abort, Freeze,
        Reconcile, SignExit, WindowCloses, ReversionExport, RevertPilot, Edit, DecideUnasked, Decided, Retire
<1> QED BY <1>2 DEF Held

\* Every step keeps what a final report says: it is made of what is sealed, and
\* is final no more when its domain leaves the cutover or is frozen again.
LEMMA FinalStep ==
  ASSUME IInv, FinalInv, FinalReportStands, [Next]_vars
  PROVE  FinalInv' /\ FinalReportStands'
<1> DEFINE Keeps(d) == final'[d] => CutOver(d)' /\ report'[d].seen = Held(d)'
<1>1. SUFFICES ASSUME NEW d \in Domains PROVE Keeps(d)
  BY DEF FinalInv, FinalReportStands
\* A domain whose report is the one before, and final before.
<1>2. ASSUME Next, final'[d] => final[d], report' = report, CutOver(d) => CutOver(d)'
      PROVE  Keeps(d)
  BY <1>2, SealedStands DEF FinalInv, FinalReportStands
<1>3. ASSUME NEW e \in Domains, NEW content \in Content(e), NEW b \in BOOLEAN, Reconcile(e, content, b)
      PROVE  Keeps(d)
  <2>1. (CutOver(d)' <=> CutOver(d)) /\ Held(d)' = Held(d)
    BY <1>3 DEF Reconcile, CutOver, Held, streamVars
  <2>2. CASE e = d
    <3>1. final'[d] = CutOver(d)
      BY <1>3, <2>2 DEF Reconcile, IInv, TypeOK
    <3>2. report'[d].seen = Held(d)
      BY <1>3, <2>2 DEF Reconcile, IInv, TypeOK
    <3> QED BY <2>1, <3>1, <3>2
  <2>3. CASE e # d
    <3>1. final'[d] = final[d] /\ report'[d] = report[d]
      BY <1>3, <2>3 DEF Reconcile, IInv, TypeOK
    <3> QED BY <2>1, <3>1 DEF FinalInv, FinalReportStands
  <2> QED BY <2>2, <2>3
<1>4. ASSUME NEW e \in Domains, (\E to \in Stages : Abort(e, to)) \/ RevertPilot(e)
             \/ \E content \in Content(e) : Freeze(e, content)
      PROVE  Keeps(d)
  <2>1. final'[d] => final[d] /\ d # e
    BY <1>4 DEF Abort, RevertPilot, Freeze, IInv, TypeOK
  <2>2. d # e => (CutOver(d) => CutOver(d)')
    BY <1>4 DEF Abort, RevertPilot, Freeze, CutOver, IInv, TypeOK
  <2>3. report' = report /\ Next
    BY <1>4 DEF Abort, RevertPilot, Freeze, Next
  <2> QED BY <2>1, <2>2, <2>3, SealedStands DEF FinalInv, FinalReportStands
<1>5. ASSUME NEW e \in Domains,
             Create(e) \/ Forward(e) \/ SignExit(e) \/ WindowCloses(e) \/ ReversionExport(e)
             \/ Decided(Scope[e]) \/ Retire
      PROVE  CutOver(d) => CutOver(d)'
  BY <1>5, NoneAssumption DEF Create, Forward, SignExit, WindowCloses, ReversionExport, Decided, Retire,
     CutOver, IInv, TypeOK, Stages
<1>6. ASSUME NEW e \in Domains, Next,
             Create(e) \/ Forward(e) \/ SignExit(e) \/ WindowCloses(e) \/ ReversionExport(e)
             \/ Decided(Scope[e]) \/ Retire
      PROVE  Keeps(d)
  <2>1. UNCHANGED <<final, report>>
    BY <1>6 DEF Create, Forward, SignExit, WindowCloses, ReversionExport, Decided, Retire
  <2> QED BY <1>2, <1>5, <1>6, <2>1
<1>7. ASSUME NEW s \in Streams, Next, SourceChanges(s) \/ Import(s) \/ \E b \in BOOLEAN : Decide(s, b)
      PROVE  Keeps(d)
  <2>1. UNCHANGED <<final, report, stage>>
    BY <1>7 DEF SourceChanges, Import, Decide, domainVars
  <2> QED BY <1>2, <1>7, <2>1 DEF CutOver
<1>8. CASE UNCHANGED vars
  BY <1>8 DEF vars, domainVars, streamVars, CutOver, Held, FinalInv, FinalReportStands
<1>9. Next /\ Retire => Keeps(d)
  BY <1>1, <1>6
<1> HIDE DEF Keeps
<1> QED BY <1>3, <1>4, <1>6, <1>7, <1>8, <1>9 DEF Next, Edit, DecideUnasked

\* What the last comparison before the exit found is what ARGUS holds from then on: with a stream per
\* domain nothing arrives behind it, whatever the other domains do.
THEOREM FinalStands ==
  ASSUME Disjoint
  PROVE  Spec => []FinalReportStands
<1>1. Init => IInv /\ FinalInv /\ FinalReportStands
  BY InitEstablishes DEF Init, FinalInv, FinalReportStands
<1>2. IInv /\ FinalInv /\ FinalReportStands /\ [Next]_vars => IInv' /\ FinalInv' /\ FinalReportStands'
  BY StepKeeps, FinalStep
<1> QED BY <1>1, <1>2, PTL DEF Spec
=============================================================================
