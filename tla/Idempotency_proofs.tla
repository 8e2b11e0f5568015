------------------------- MODULE Idempotency_proofs -------------------------
(***************************************************************************)
(* For any number of requests and keys, under any interleaving of retries, *)
(* slow or dead requests, late commands and the purge: an answer is always *)
(* that of the request's own command, and of the applications and answers  *)
(* under one captured key, all but one belong to a released reservation.   *)
(*                                                                         *)
(* Neither is inductive.  What makes them so is that a run that was not    *)
(* released still stands: its row is there, or it expired after the key    *)
(* was shut to new applications (Standing).                                *)
(***************************************************************************)
EXTENDS Idempotency, TLAPS

\* No request can reserve k any more: new ones are refused as expired, and none is on its way.
Shut(k) == k \in late /\ \A q \in Requests : KeyOf[q] = k => pc[q] # "insert"

\* The row of r's run is there, or it went when its key was shut.
Standing(r) == Owns(r) \/ (Shut(KeyOf[r]) /\ row[KeyOf[r]] = None)

RowsSound ==
  \A k \in Keys : row[k] # None =>
    /\ KeyOf[row[k].owner] = k
    /\ pc[row[k].owner] \in {"run", "store", "forget", "over"}
    /\ row[k].done => outcome[row[k].owner] # None
    /\ row[k].lapsed => pc[row[k].owner] = "over" /\ (k \in Captured => Shut(k))

RunsSound ==
  \A r \in Requests :
    /\ outcome[r] = "ok" <=> r \in applied
    /\ outcome[r] # None => pc[r] \in {"store", "over"}
    /\ pc[r] = "store" => outcome[r] # None
    /\ pc[r] # "over" => answer[r] = None
    /\ pc[r] \in {"run", "store", "forget"} /\ r \notin released => Owns(r)

AppliedStand == \A r \in applied \ released : KeyOf[r] \in Captured => Standing(r)

AnswersStand ==
  \A r \in Requests :
    answer[r] \in Requests \ released /\ KeyOf[r] \in Captured => Standing(answer[r])

IInv == /\ TypeOK /\ RowsSound /\ RunsSound
        /\ AnswersOwnCommand /\ AppliedStand /\ AnswersStand
        /\ OncePerReservation /\ OneAnswer

LEMMA InitHolds == Init => IInv
<1> SUFFICES ASSUME Init PROVE IInv
  OBVIOUS
<1> USE KeyAssumption, NoneAssumption DEF Init
<1>1. TypeOK
  BY DEF TypeOK, Steps, Refusals
<1>2. RowsSound /\ RunsSound /\ AnswersOwnCommand /\ AppliedStand
  BY DEF RowsSound, RunsSound, AnswersOwnCommand, AppliedStand
<1>3. AnswersStand /\ OncePerReservation /\ OneAnswer
  BY DEF AnswersStand, OncePerReservation, OneAnswer
<1> QED
  BY <1>1, <1>2, <1>3 DEF IInv

LEMMA RowFields == ASSUME NEW h \in Row
                   PROVE  h.owner \in Requests /\ h.done \in BOOLEAN /\ h.stale \in BOOLEAN /\ h.lapsed \in BOOLEAN
BY DEF Row

LEMMA Reserved == ASSUME NEW r \in Requests
                  PROVE  /\ Reservation(r) \in Row /\ Reservation(r).owner = r
                         /\ ~Reservation(r).done /\ ~Reservation(r).stale /\ ~Reservation(r).lapsed
BY DEF Row, Reservation

\* What setting one field of a row leaves of the table.
LEMMA RowUpdate ==
  ASSUME row \in [Keys -> Row \cup {None}], NEW k \in Keys, row[k] # None,
         \/ row' = [row EXCEPT ![k].done = TRUE]
         \/ row' = [row EXCEPT ![k].stale = TRUE]
         \/ row' = [row EXCEPT ![k].lapsed = TRUE]
  PROVE  /\ row' \in [Keys -> Row \cup {None}]
         /\ \A j \in Keys \ {k} : row'[j] = row[j]
         /\ row'[k] \in Row /\ row'[k].owner = row[k].owner
         /\ row' # [row EXCEPT ![k].done = TRUE] => row'[k].done = row[k].done
         /\ row' = [row EXCEPT ![k].done = TRUE] => row'[k].lapsed = row[k].lapsed
         /\ row' = [row EXCEPT ![k].stale = TRUE] =>
              row'[k].done = row[k].done /\ row'[k].lapsed = row[k].lapsed
<1>1. /\ [row[k] EXCEPT !.done = TRUE] \in Row
      /\ [row[k] EXCEPT !.done = TRUE].owner = row[k].owner
      /\ [row[k] EXCEPT !.done = TRUE].lapsed = row[k].lapsed
      /\ [row[k] EXCEPT !.stale = TRUE] \in Row
      /\ [row[k] EXCEPT !.stale = TRUE].owner = row[k].owner
      /\ [row[k] EXCEPT !.stale = TRUE].done = row[k].done
      /\ [row[k] EXCEPT !.stale = TRUE].lapsed = row[k].lapsed
      /\ [row[k] EXCEPT !.lapsed = TRUE] \in Row
      /\ [row[k] EXCEPT !.lapsed = TRUE].owner = row[k].owner
      /\ [row[k] EXCEPT !.lapsed = TRUE].done = row[k].done
  BY DEF Row
<1>2. CASE row' = [row EXCEPT ![k].done = TRUE]
  BY <1>1, <1>2
<1>3. CASE row' = [row EXCEPT ![k].stale = TRUE]
  BY <1>1, <1>3
<1>4. CASE row' = [row EXCEPT ![k].lapsed = TRUE]
  BY <1>1, <1>4
<1> QED
  BY <1>2, <1>3, <1>4

LEMMA TypeStep == TypeOK /\ [Next]_vars => TypeOK'
<1> SUFFICES ASSUME TypeOK, [Next]_vars PROVE TypeOK'
  OBVIOUS
<1> USE KeyAssumption, NoneAssumption DEF TypeOK, Steps, Refusals, GoTo, Answer, Reserve, Compare
<1>1. CASE UNCHANGED vars
  BY <1>1 DEF vars
<1>2. ASSUME NEW r \in Requests, Look(r) PROVE TypeOK'
  BY <1>2, RowFields DEF Look
<1>3. ASSUME NEW r \in Requests, Release(r) PROVE TypeOK'
  BY <1>3, RowFields DEF Release
<1>4. ASSUME NEW r \in Requests, Insert(r) PROVE TypeOK'
  BY <1>4, Reserved DEF Insert
<1>5. ASSUME NEW r \in Requests, Reread(r) PROVE TypeOK'
  BY <1>5, RowFields, SMTT(30) DEF Reread
<1>6. ASSUME NEW r \in Requests, Run(r) PROVE TypeOK'
  BY <1>6 DEF Run
<1>7. ASSUME NEW r \in Requests, Store(r) PROVE TypeOK'
  <2>1. row' \in [Keys -> Row \cup {None}]
    BY <1>7, RowUpdate DEF Store, Owns
  <2> QED
    BY <1>7, <2>1 DEF Store
<1>8. ASSUME NEW r \in Requests, Forget(r) PROVE TypeOK'
  BY <1>8 DEF Forget
<1>9. ASSUME NEW r \in Requests, Die(r) PROVE TypeOK'
  BY <1>9 DEF Die
<1>10. ASSUME NEW k \in Keys, TurnStale(k) \/ TurnLate(k) \/ Lapse(k) PROVE TypeOK'
  <2>1. row' \in [Keys -> Row \cup {None}]
    BY <1>10, RowUpdate DEF TurnStale, TurnLate, Lapse
  <2> QED
    BY <1>10, <2>1 DEF TurnStale, TurnLate, Lapse
<1>11. CASE purge
  BY <1>11 DEF purge
<1> QED
  BY <1>1, <1>2, <1>3, <1>4, <1>5, <1>6, <1>7, <1>8, <1>9, <1>10, <1>11 DEF Next

LEMMA InvStep == IInv /\ [Next]_vars => IInv'
<1> SUFFICES ASSUME IInv, [Next]_vars PROVE IInv'
  OBVIOUS
<1>0. TypeOK'
  BY TypeStep DEF IInv
<1> USE <1>0, KeyAssumption, NoneAssumption, RowFields DEF IInv, TypeOK, Steps, Refusals, GoTo, Answer, Reserve, Compare, Releasable
<1>1. ASSUME NEW r \in Requests, Look(r) PROVE IInv'
  <2>1. RowsSound'
    BY <1>1 DEF Look, RowsSound, Shut
  <2>2. RunsSound'
    BY <1>1 DEF Look, RunsSound, Owns, RowsSound
  <2>3. AnswersOwnCommand'
    BY <1>1 DEF Look, AnswersOwnCommand, RunsSound, RowsSound
  <2>4. AppliedStand'
    BY <1>1 DEF Look, AppliedStand, Standing, Shut, Owns, RowsSound, RunsSound
  <2>5. AnswersStand'
    BY <1>1 DEF Look, AnswersStand, Standing, Shut, Owns, RowsSound, RunsSound, AnswersOwnCommand
  <2>6. OncePerReservation'
    BY <1>1 DEF Look, OncePerReservation, AppliedStand, Standing, Owns, RunsSound
  <2>7. OneAnswer'
    <3>1. answer'[r] \in Requests => Owns(answer[r])'
      BY <1>1 DEF Look, Owns, RowsSound, RunsSound
    <3>2. \A q \in Requests \ {r} : answer'[q] = answer[q]
      BY <1>1 DEF Look
    <3>3. released' = released
      BY <1>1 DEF Look
    <3>4. \A o \in Requests : Owns(o)' => row'[KeyOf[o]] # None
      BY DEF Owns
    <3>5. ASSUME NEW q \in Requests, answer'[q] \in Requests \ released,
                 answer'[r] \in Requests, KeyOf[q] = KeyOf[r], KeyOf[r] \in Captured
          PROVE  answer'[q] = answer'[r]
      <4>1. KeyOf[answer'[q]] = KeyOf[q] /\ KeyOf[answer'[r]] = KeyOf[r]
        BY <2>3, <3>5 DEF AnswersOwnCommand
      <4>2. Standing(answer[q])'
        BY <2>5, <3>3, <3>5 DEF AnswersStand
      <4> QED
        BY <3>1, <3>4, <3>5, <4>1, <4>2 DEF Standing, Owns
    <3> QED
      BY <3>2, <3>3, <3>5 DEF OneAnswer
  <2> QED
    BY <2>1, <2>2, <2>3, <2>4, <2>5, <2>6, <2>7
<1>2. ASSUME NEW r \in Requests, Release(r) PROVE IInv'
  <2>1. RowsSound'
    BY <1>2 DEF Release, RowsSound, Shut
  <2>2. RunsSound'
    BY <1>2 DEF Release, RunsSound, Owns, RowsSound
  <2>3. AnswersOwnCommand'
    BY <1>2 DEF Release, AnswersOwnCommand, RunsSound, RowsSound
  <2>4. AppliedStand'
    BY <1>2 DEF Release, AppliedStand, Standing, Shut, Owns, RowsSound, RunsSound
  <2>5. AnswersStand'
    BY <1>2 DEF Release, AnswersStand, Standing, Shut, Owns, RowsSound, RunsSound, AnswersOwnCommand
  <2>6. OncePerReservation'
    BY <1>2 DEF Release, OncePerReservation, AppliedStand, Standing, Owns, RunsSound
  <2>7. OneAnswer'
    BY <1>2 DEF Release, OneAnswer, AnswersStand, Standing, Owns, RowsSound
  <2> QED
    BY <2>1, <2>2, <2>3, <2>4, <2>5, <2>6, <2>7
<1>3. ASSUME NEW r \in Requests, Insert(r) PROVE IInv'
  <2>1. RowsSound'
    BY <1>3, Reserved DEF Insert, RowsSound, Shut
  <2>2. RunsSound'
    BY <1>3, Reserved DEF Insert, RunsSound, Owns, RowsSound
  <2>3. AnswersOwnCommand'
    BY <1>3, Reserved DEF Insert, AnswersOwnCommand, RunsSound, RowsSound
  <2>4. AppliedStand'
    BY <1>3, Reserved DEF Insert, AppliedStand, Standing, Shut, Owns, RowsSound, RunsSound
  <2>5. AnswersStand'
    BY <1>3, Reserved, SMTT(30) DEF Insert, AnswersStand, Standing, Shut, Owns, RowsSound, RunsSound, AnswersOwnCommand
  <2>6. OncePerReservation'
    BY <1>3, Reserved DEF Insert, OncePerReservation, AppliedStand, Standing, Owns, RunsSound
  <2>7. OneAnswer'
    BY <1>3, Reserved DEF Insert, OneAnswer, AnswersStand, Standing, Owns, RowsSound
  <2> QED
    BY <2>1, <2>2, <2>3, <2>4, <2>5, <2>6, <2>7
<1>4. ASSUME NEW r \in Requests, Reread(r) PROVE IInv'
  <2>1. RowsSound'
    BY <1>4 DEF Reread, RowsSound, Shut
  <2>2. RunsSound'
    BY <1>4 DEF Reread, RunsSound, Owns, RowsSound
  <2>3. AnswersOwnCommand'
    BY <1>4 DEF Reread, AnswersOwnCommand, RunsSound, RowsSound
  <2>4. AppliedStand'
    BY <1>4 DEF Reread, AppliedStand, Standing, Shut, Owns, RowsSound, RunsSound
  <2>5. AnswersStand'
    BY <1>4 DEF Reread, AnswersStand, Standing, Shut, Owns, RowsSound, RunsSound, AnswersOwnCommand
  <2>6. OncePerReservation'
    BY <1>4 DEF Reread, OncePerReservation, AppliedStand, Standing, Owns, RunsSound
  <2>7. OneAnswer'
    <3>1. answer'[r] \in Requests => Owns(answer[r])'
      BY <1>4 DEF Reread, Owns, RowsSound, RunsSound
    <3>2. \A q \in Requests \ {r} : answer'[q] = answer[q]
      BY <1>4 DEF Reread
    <3>3. released' = released
      BY <1>4 DEF Reread
    <3>4. \A o \in Requests : Owns(o)' => row'[KeyOf[o]] # None
      BY DEF Owns
    <3>5. ASSUME NEW q \in Requests, answer'[q] \in Requests \ released,
                 answer'[r] \in Requests, KeyOf[q] = KeyOf[r], KeyOf[r] \in Captured
          PROVE  answer'[q] = answer'[r]
      <4>1. KeyOf[answer'[q]] = KeyOf[q] /\ KeyOf[answer'[r]] = KeyOf[r]
        BY <2>3, <3>5 DEF AnswersOwnCommand
      <4>2. Standing(answer[q])'
        BY <2>5, <3>3, <3>5 DEF AnswersStand
      <4> QED
        BY <3>1, <3>4, <3>5, <4>1, <4>2 DEF Standing, Owns
    <3> QED
      BY <3>2, <3>3, <3>5 DEF OneAnswer
  <2> QED
    BY <2>1, <2>2, <2>3, <2>4, <2>5, <2>6, <2>7
<1>5. ASSUME NEW r \in Requests, Run(r) PROVE IInv'
  <2>1. RowsSound'
    BY <1>5 DEF Run, RowsSound, Shut
  <2>2. RunsSound'
    BY <1>5 DEF Run, RunsSound, Owns, RowsSound
  <2>3. AnswersOwnCommand'
    BY <1>5 DEF Run, AnswersOwnCommand, RunsSound, RowsSound
  <2>4. AppliedStand'
    BY <1>5 DEF Run, AppliedStand, Standing, Shut, Owns, RowsSound, RunsSound
  <2>5. AnswersStand'
    BY <1>5 DEF Run, AnswersStand, Standing, Shut, Owns, RowsSound, RunsSound, AnswersOwnCommand
  <2>6. OncePerReservation'
    BY <1>5 DEF Run, OncePerReservation, AppliedStand, Standing, Owns, RunsSound
  <2>7. OneAnswer'
    BY <1>5 DEF Run, OneAnswer, AnswersStand, Standing, Owns, RowsSound
  <2> QED
    BY <2>1, <2>2, <2>3, <2>4, <2>5, <2>6, <2>7
<1>6. ASSUME NEW r \in Requests, Store(r) PROVE IInv'
  <2>1. RowsSound'
    <3>1. CASE Owns(r)
      <4>1. /\ \A j \in Keys \ {KeyOf[r]} : row'[j] = row[j]
            /\ row'[KeyOf[r]].owner = r /\ row'[KeyOf[r]].lapsed = row[KeyOf[r]].lapsed
        BY <1>6, <3>1, RowUpdate DEF Store, Owns
      <4>2. pc' = [pc EXCEPT ![r] = "over"] /\ outcome' = outcome /\ late' = late /\ outcome[r] # None
        BY <1>6, <3>1 DEF Store, RunsSound
      <4> QED
        BY <3>1, <4>1, <4>2 DEF RowsSound, Shut, Owns
    <3>2. CASE ~Owns(r)
      BY <1>6, <3>2 DEF Store, RowsSound, Shut
    <3> QED
      BY <3>1, <3>2
  <2>2. RunsSound'
    BY <1>6, RowUpdate DEF Store, Owns, RunsSound, Owns, RowsSound
  <2>3. AnswersOwnCommand'
    BY <1>6, RowUpdate DEF Store, Owns, AnswersOwnCommand, RunsSound, RowsSound
  <2>4. AppliedStand'
    BY <1>6, RowUpdate DEF Store, Owns, AppliedStand, Standing, Shut, Owns, RowsSound, RunsSound
  <2>5. AnswersStand'
    BY <1>6, RowUpdate DEF Store, Owns, AnswersStand, Standing, Shut, Owns, RowsSound, RunsSound, AnswersOwnCommand
  <2>6. OncePerReservation'
    BY <1>6, RowUpdate DEF Store, Owns, OncePerReservation, AppliedStand, Standing, Owns, RunsSound
  <2>7. OneAnswer'
    <3>1. answer'[r] \in Requests => Owns(answer[r])'
      BY <1>6, RowUpdate DEF Store, Owns, RowsSound, RunsSound
    <3>2. \A q \in Requests \ {r} : answer'[q] = answer[q]
      BY <1>6 DEF Store
    <3>3. released' = released
      BY <1>6 DEF Store
    <3>4. \A o \in Requests : Owns(o)' => row'[KeyOf[o]] # None
      BY DEF Owns
    <3>5. ASSUME NEW q \in Requests, answer'[q] \in Requests \ released,
                 answer'[r] \in Requests, KeyOf[q] = KeyOf[r], KeyOf[r] \in Captured
          PROVE  answer'[q] = answer'[r]
      <4>1. KeyOf[answer'[q]] = KeyOf[q] /\ KeyOf[answer'[r]] = KeyOf[r]
        BY <2>3, <3>5 DEF AnswersOwnCommand
      <4>2. Standing(answer[q])'
        BY <2>5, <3>3, <3>5 DEF AnswersStand
      <4> QED
        BY <3>1, <3>4, <3>5, <4>1, <4>2 DEF Standing, Owns
    <3> QED
      BY <3>2, <3>3, <3>5 DEF OneAnswer
  <2> QED
    BY <2>1, <2>2, <2>3, <2>4, <2>5, <2>6, <2>7
<1>7. ASSUME NEW r \in Requests, Forget(r) PROVE IInv'
  <2>1. RowsSound'
    BY <1>7 DEF Forget, Owns, RowsSound, Shut
  <2>2. RunsSound'
    BY <1>7 DEF Forget, Owns, RunsSound, Owns, RowsSound
  <2>3. AnswersOwnCommand'
    BY <1>7 DEF Forget, Owns, AnswersOwnCommand, RunsSound, RowsSound
  <2>4. AppliedStand'
    BY <1>7 DEF Forget, Owns, AppliedStand, Standing, Shut, Owns, RowsSound, RunsSound
  <2>5. AnswersStand'
    BY <1>7 DEF Forget, Owns, AnswersStand, Standing, Shut, Owns, RowsSound, RunsSound, AnswersOwnCommand
  <2>6. OncePerReservation'
    BY <1>7 DEF Forget, Owns, OncePerReservation, AppliedStand, Standing, Owns, RunsSound
  <2>7. OneAnswer'
    BY <1>7 DEF Forget, Owns, OneAnswer, AnswersStand, Standing, Owns, RowsSound
  <2> QED
    BY <2>1, <2>2, <2>3, <2>4, <2>5, <2>6, <2>7
<1>8. ASSUME NEW r \in Requests, Die(r) PROVE IInv'
  <2>1. RowsSound'
    BY <1>8 DEF Die, RowsSound, Shut
  <2>2. RunsSound'
    BY <1>8 DEF Die, RunsSound, Owns, RowsSound
  <2>3. AnswersOwnCommand'
    BY <1>8 DEF Die, AnswersOwnCommand, RunsSound, RowsSound
  <2>4. AppliedStand'
    BY <1>8 DEF Die, AppliedStand, Standing, Shut, Owns, RowsSound, RunsSound
  <2>5. AnswersStand'
    BY <1>8 DEF Die, AnswersStand, Standing, Shut, Owns, RowsSound, RunsSound, AnswersOwnCommand
  <2>6. OncePerReservation'
    BY <1>8 DEF Die, OncePerReservation, AppliedStand, Standing, Owns, RunsSound
  <2>7. OneAnswer'
    BY <1>8 DEF Die, OneAnswer, AnswersStand, Standing, Owns, RowsSound
  <2> QED
    BY <2>1, <2>2, <2>3, <2>4, <2>5, <2>6, <2>7
<1>9. ASSUME NEW k \in Keys, TurnStale(k) \/ TurnLate(k) \/ Lapse(k) PROVE IInv'
  <2>1. RowsSound'
    <3>1. CASE TurnStale(k)
      <4>1. /\ \A j \in Keys \ {k} : row'[j] = row[j]
            /\ row'[k].owner = row[k].owner /\ row'[k].lapsed = row[k].lapsed /\ row'[k].done = row[k].done
        BY <3>1, RowUpdate DEF TurnStale
      <4> QED
        BY <3>1, <4>1 DEF TurnStale, RowsSound, Shut
    <3>2. CASE TurnLate(k)
      BY <3>2 DEF TurnLate, RowsSound, Shut
    <3>3. CASE Lapse(k)
      <4>1. /\ \A j \in Keys \ {k} : row'[j] = row[j]
            /\ row[k] # None /\ row'[k].owner = row[k].owner /\ row'[k].done = row[k].done
        BY <3>3, RowUpdate DEF Lapse
      <4>2. pc[row[k].owner] = "over"
        BY <3>3, <4>1 DEF Lapse, RowsSound
      <4>3. k \in Captured => Shut(k)
        BY <3>3 DEF Lapse, Shut
      <4> QED
        BY <3>3, <4>1, <4>2, <4>3 DEF Lapse, RowsSound, Shut
    <3> QED
      BY <1>9, <3>1, <3>2, <3>3
  <2>2. RunsSound'
    BY <1>9, RowUpdate DEF TurnStale, TurnLate, Lapse, RunsSound, Owns, RowsSound
  <2>3. AnswersOwnCommand'
    BY <1>9, RowUpdate DEF TurnStale, TurnLate, Lapse, AnswersOwnCommand, RunsSound, RowsSound
  <2>4. AppliedStand'
    BY <1>9, RowUpdate DEF TurnStale, TurnLate, Lapse, AppliedStand, Standing, Shut, Owns, RowsSound, RunsSound
  <2>5. AnswersStand'
    BY <1>9, RowUpdate DEF TurnStale, TurnLate, Lapse, AnswersStand, Standing, Shut, Owns, RowsSound, RunsSound, AnswersOwnCommand
  <2>6. OncePerReservation'
    BY <1>9, RowUpdate DEF TurnStale, TurnLate, Lapse, OncePerReservation, AppliedStand, Standing, Owns, RunsSound
  <2>7. OneAnswer'
    BY <1>9, RowUpdate DEF TurnStale, TurnLate, Lapse, OneAnswer, AnswersStand, Standing, Owns, RowsSound
  <2> QED
    BY <2>1, <2>2, <2>3, <2>4, <2>5, <2>6, <2>7
<1>10. CASE purge
  <2>1. RowsSound'
    BY <1>10 DEF purge, RowsSound, Shut
  <2>2. RunsSound'
    BY <1>10 DEF purge, RunsSound, Owns, RowsSound
  <2>3. AnswersOwnCommand'
    BY <1>10 DEF purge, AnswersOwnCommand, RunsSound, RowsSound
  <2>4. AppliedStand'
    BY <1>10 DEF purge, AppliedStand, Standing, Shut, Owns, RowsSound, RunsSound
  <2>5. AnswersStand'
    BY <1>10 DEF purge, AnswersStand, Standing, Shut, Owns, RowsSound, RunsSound, AnswersOwnCommand
  <2>6. OncePerReservation'
    BY <1>10 DEF purge, OncePerReservation, AppliedStand, Standing, Owns, RunsSound
  <2>7. OneAnswer'
    BY <1>10 DEF purge, OneAnswer, AnswersStand, Standing, Owns, RowsSound
  <2> QED
    BY <2>1, <2>2, <2>3, <2>4, <2>5, <2>6, <2>7
<1>11. CASE UNCHANGED vars
  <2>1. RowsSound'
    BY <1>11 DEF vars, RowsSound, Shut
  <2>2. RunsSound'
    BY <1>11 DEF vars, RunsSound, Owns, RowsSound
  <2>3. AnswersOwnCommand'
    BY <1>11 DEF vars, AnswersOwnCommand, RunsSound, RowsSound
  <2>4. AppliedStand'
    BY <1>11 DEF vars, AppliedStand, Standing, Shut, Owns, RowsSound, RunsSound
  <2>5. AnswersStand'
    BY <1>11 DEF vars, AnswersStand, Standing, Shut, Owns, RowsSound, RunsSound, AnswersOwnCommand
  <2>6. OncePerReservation'
    BY <1>11 DEF vars, OncePerReservation, AppliedStand, Standing, Owns, RunsSound
  <2>7. OneAnswer'
    BY <1>11 DEF vars, OneAnswer, AnswersStand, Standing, Owns, RowsSound
  <2> QED
    BY <2>1, <2>2, <2>3, <2>4, <2>5, <2>6, <2>7
<1> QED
  BY <1>1, <1>2, <1>3, <1>4, <1>5, <1>6, <1>7, <1>8, <1>9, <1>10, <1>11 DEF Next

(***************************************************************************)
(* The first two say what a client may rely on; the last what the server   *)
(* may.                                                                    *)
(***************************************************************************)

\* An answer is only ever given to the command it answers.
THEOREM OwnAnswers == Spec => []AnswersOwnCommand
<1>1. IInv => AnswersOwnCommand
  BY DEF IInv
<1> QED
  BY InitHolds, InvStep, <1>1, PTL DEF Spec

\* Under one captured key every client is given the same answer, released reservations apart.
THEOREM SameAnswer == Spec => []OneAnswer
<1>1. IInv => OneAnswer
  BY DEF IInv
<1> QED
  BY InitHolds, InvStep, <1>1, PTL DEF Spec

\* A captured command is applied once, released reservations apart.
THEOREM AppliedOnce == Spec => []OncePerReservation
<1>1. IInv => OncePerReservation
  BY DEF IInv
<1> QED
  BY InitHolds, InvStep, <1>1, PTL DEF Spec

\* The record of a key, and every request, keep the types run and _execute give them.
THEOREM TypeCorrect == Spec => []TypeOK
<1>1. IInv => TypeOK
  BY DEF IInv
<1> QED BY <1>1, InitHolds, InvStep, PTL DEF Spec
=============================================================================
