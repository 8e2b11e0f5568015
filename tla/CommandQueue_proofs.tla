------------------------ MODULE CommandQueue_proofs -------------------------
(***************************************************************************)
(* Proofs about the queue of pending commands, for any commands, needs,    *)
(* workspaces and numbers of attempts and restarts: the types, that a      *)
(* draft stays on the device, that what was accepted is a fact, and that a *)
(* command comes after those it needs.                                     *)
(*                                                                         *)
(* The invariant that carries them ties four places that change at         *)
(* different moments: the list in memory, the store, the request in flight *)
(* and the record of the server.                                           *)
(***************************************************************************)
EXTENDS CommandQueue, TLAPS

\* A sync runs in a session.
OneSync == sync # None => session # None

\* The loop awaits the answer for one command, the only one that is being sent.
OneCall ==
  /\ call # None => sync # None /\ status[call] \in {"sending", "accepted"}
  /\ \A c \in Commands : status[c] = "sending" => c = call
  /\ reply # None => call # None /\ status[call] = "sending"

\* One request at most can still answer the loop, and its answer has not come yet.
WaitsForOne ==
  \A q \in requests : q.live => /\ q.command = call /\ call # None /\ status[call] = "sending" /\ reply = None
                                /\ \A r \in requests : r.live => r = q

\* The list, the store and what the person knows go together; an open command has an attempt left.
Kept ==
  \A c \in Commands :
    /\ disk[c] \notin {"sending", "accepted"}
    /\ told[c] = "" => status[c] = None /\ disk[c] = None /\ attempts[c] = 0
    /\ told[c] = "pending" => status[c] \notin {None, "accepted"}
    /\ status[c] = "queued" \/ status[c] = "sending" \/ disk[c] = "queued" => attempts[c] < MaxAttempts

\* A command is made after those it needs.
NeedsMade == \A c \in Commands : told[c] # "" => \A d \in Needs[c] : told[d] # ""

\* "Accepted" is said, in a record or in an answer on its way, of what the server applied.
Answers ==
  /\ \A k \in Commands \X Workspaces : held[k] = "accepted" => k \in applied
  /\ reply = "accepted" => \E w \in Workspaces : <<call, w>> \in applied

IInv == /\ TypeOK /\ OneSync /\ OneCall /\ WaitsForOne /\ Kept /\ NeedsMade /\ Answers
        /\ DraftKept /\ AcceptedIsFact /\ AfterItsNeeds

----------------------------------------------------------------------------

LEMMA Bounds == MaxAttempts \in Nat \ {0} /\ MaxRestarts \in Nat
BY CommandAssumption

LEMMA BeginSyncType ==
  ASSUME TypeOK, NEW force \in BOOLEAN, BeginSync(force)
  PROVE  sync' \in [workspace : Workspaces, force : BOOLEAN] \cup {None} /\ walk' \subseteq Commands
<1>1. Listed \subseteq Commands
  BY DEF Listed
<1>2. CASE sync = None /\ session # None
  <2>1. session \in Workspaces /\ [workspace |-> session, force |-> force] \in [workspace : Workspaces, force : BOOLEAN]
    BY <1>2 DEF TypeOK
  <2> QED
    BY <1>1, <1>2, <2>1 DEF BeginSync
<1>3. CASE ~(sync = None /\ session # None)
  BY <1>3 DEF BeginSync, TypeOK
<1> QED
  BY <1>2, <1>3

LEMMA OneMoreRestart ==
  ASSUME restarts \in 0..MaxRestarts, restarts < MaxRestarts
  PROVE  restarts + 1 \in 0..MaxRestarts
BY Bounds

LEMMA CountedOnce ==
  ASSUME attempts \in [Commands -> 0..MaxAttempts], NEW c \in Commands, attempts[c] < MaxAttempts,
         attempts' = [attempts EXCEPT ![c] = @ + 1]
  PROVE  attempts' \in [Commands -> 0..MaxAttempts]
<1>1. attempts[c] + 1 \in 0..MaxAttempts
  BY Bounds
<1> QED
  BY <1>1

LEMMA LostType == ASSUME TypeOK PROVE Lost \in [Commands -> {"", "pending", "accepted", "discarded", "wiped"}]
BY DEF TypeOK, Lost

LEMMA AbandonGives ==
  ASSUME requests \subseteq Request, Abandon
  PROVE  /\ requests' \subseteq Request
         /\ \A q \in requests' : ~q.live /\ \E r \in requests : r.command = q.command
BY DEF Abandon, Request

LEMMA TakenGives ==
  ASSUME NEW q \in Request
  PROVE  /\ [q EXCEPT !.taken = TRUE] \in Request
         /\ [q EXCEPT !.taken = TRUE].command = q.command
         /\ [q EXCEPT !.taken = TRUE].workspace = q.workspace
         /\ [q EXCEPT !.taken = TRUE].live = q.live
BY DEF Request

LEMMA KeyType == ASSUME NEW q \in Request PROVE Key(q) \in Commands \X Workspaces
BY DEF Request, Key

LEMMA NeedsType == ASSUME NEW q \in Request, NEW d \in Needs[q.command] PROVE d \in Commands
BY CommandAssumption DEF Request

----------------------------------------------------------------------------
\* Every step keeps the types.
LEMMA TypeStep == TypeOK /\ OneSync /\ OneCall /\ Kept /\ [Next]_vars => TypeOK'
<1> SUFFICES ASSUME TypeOK, OneSync, OneCall, Kept, [Next]_vars PROVE TypeOK'
  OBVIOUS
<1> USE DEF memory, store, loop, person, server
<1>1. ASSUME NEW c \in Commands, retry(c) PROVE TypeOK'
  <2>1. 0 \in 0..MaxAttempts
    BY Bounds
  <2>2. attempts' \in [Commands -> 0..MaxAttempts]
    BY <1>1, <2>1 DEF retry, TypeOK
  <2> QED
    BY <1>1, <2>2, BeginSyncType DEF retry, Keep, TypeOK, Statuses
<1>2. ASSUME NEW w \in Workspaces, chooseWorkspace(w) PROVE TypeOK'
  BY <1>2, OneMoreRestart DEF chooseWorkspace, TypeOK
<1>3. ASSUME NEW force \in BOOLEAN, startSync(force) PROVE TypeOK'
  BY <1>3, BeginSyncType DEF startSync, TypeOK
<1>4. ASSUME NEW c \in Commands, fileMissing(c) PROVE TypeOK'
  <2>1. attempts[c] < MaxAttempts
    BY <1>4 DEF fileMissing, Ready, Due, Open, Kept
  <2>2. attempts' \in [Commands -> 0..MaxAttempts]
    BY <1>4, <2>1, CountedOnce DEF fileMissing, TypeOK
  <2> QED
    BY <1>4, <2>2 DEF fileMissing, Keep, TypeOK, Statuses
<1>5. ASSUME NEW c \in Commands, send(c) PROVE TypeOK'
  <2> DEFINE r == [command |-> c, workspace |-> session, taken |-> FALSE, live |-> TRUE]
  <2>1. r \in Request
    BY <1>5 DEF send, Ready, Due, Visiting, OneSync, TypeOK, Request
  <2> HIDE DEF r
  <2> QED
    BY <1>5, <2>1 DEF send, TypeOK, Statuses, r
<1>6. ASSUME giveUp PROVE TypeOK'
  BY <1>6, AbandonGives DEF giveUp, Keep, Stop, TypeOK, Statuses
<1>7. ASSUME problem PROVE TypeOK'
  <2>1. call \in Commands /\ attempts[call] < MaxAttempts
    BY <1>7 DEF problem, OneCall, Kept, TypeOK
  <2>2. attempts' \in [Commands -> 0..MaxAttempts]
    BY <1>7, <2>1, CountedOnce DEF problem, TypeOK
  <2>3. PICK s \in Statuses : Keep(call, s)
    BY <1>7 DEF problem, TypeOK, Replies, Statuses
  <2>4. UNCHANGED <<files, person, sync, server, late, restarts>> /\ reply' = None /\ call' = None
        /\ walk' = walk \ {call} /\ backoff' \in {backoff, backoff \cup {call}}
    BY <1>7 DEF problem
  <2> QED
    BY <2>1, <2>2, <2>3, <2>4 DEF TypeOK, Keep
<1>8. ASSUME wipe PROVE TypeOK'
  BY <1>8, OneMoreRestart, LostType DEF wipe, TypeOK
<1>9. ASSUME signedOut PROVE TypeOK'
  BY <1>9, AbandonGives, LostType DEF signedOut, Reload, Stop, TypeOK
<1>10. ASSUME restart PROVE TypeOK'
  BY <1>10, AbandonGives, LostType, OneMoreRestart DEF restart, Reload, Stop, TypeOK
<1>11. ASSUME NEW q \in requests, arrive(q) PROVE TypeOK'
  <2>1. q \in Request /\ Key(q) \in Commands \X Workspaces /\ [q EXCEPT !.taken = TRUE] \in Request
    BY TakenGives, KeyType DEF TypeOK
  <2>2. requests' \subseteq Request
    BY <1>11, <2>1, ZenonT(60) DEF arrive, Answer, TypeOK
  <2>3. reply' \in Replies \cup {None} /\ held' \in [Commands \X Workspaces -> Replies \cup {None}]
    BY <1>11, <2>1, ZenonT(60) DEF arrive, Answer, TypeOK, Replies
  <2> QED
    BY <1>11, <2>2, <2>3 DEF arrive, TypeOK
<1>12. ASSUME NEW q \in requests, finish(q) PROVE TypeOK'
  BY <1>12, KeyType, ZenonT(60) DEF finish, Answer, TypeOK, Replies
<1>13. ASSUME NEW q \in requests, die(q) PROVE TypeOK'
  <2>1. Key(q) \in Commands \X Workspaces
    BY KeyType DEF TypeOK
  <2> QED
    <3>1. applied' \subseteq Commands \X Workspaces /\ requests' \subseteq Request
      BY <1>13, <2>1 DEF die, TypeOK
    <3>2. UNCHANGED <<memory, store, backoff, person, loop, reply, held, late, restarts>>
      BY <1>13 DEF die
    <3> QED
      BY <3>1, <3>2, Zenon DEF TypeOK
<1>14. ASSUME NEW c \in Commands, enqueue(c) \/ discard(c) \/ passOver(c) PROVE TypeOK'
  BY <1>14 DEF enqueue, Keep, discard, NeedsPerson, passOver, Visiting, TypeOK, Statuses
<1>15. ASSUME NEW c \in Commands, expire(c) \/ refuseDependent(c) \/ backoffOver(c) PROVE TypeOK'
  BY <1>15 DEF expire, Keep, Due, Visiting, Open, refuseDependent, backoffOver, TypeOK, Statuses
<1>16. ASSUME NEW c \in Commands, turnLate(c) PROVE TypeOK'
  BY <1>16 DEF turnLate, TypeOK, Statuses
<1>17. ASSUME accept \/ removeEntry \/ endSync PROVE TypeOK'
  BY <1>17 DEF accept, removeEntry, endSync, TypeOK, Statuses
<1>18. ASSUME NEW w \in Workspaces, signIn(w) PROVE TypeOK'
  BY <1>18 DEF signIn, TypeOK, Statuses
<1>19. ASSUME NEW k \in Commands \X Workspaces, release(k) PROVE TypeOK'
  BY <1>19 DEF release, TypeOK, Statuses
<1>20. ASSUME NEW q \in requests, lose(q) PROVE TypeOK'
  BY <1>20 DEF lose, TypeOK, Statuses
<1>21. CASE UNCHANGED vars
  BY <1>21 DEF vars, TypeOK, Statuses
<1> QED
  BY <1>1, <1>2, <1>3, <1>4, <1>5, <1>6, <1>7, <1>8, <1>9, <1>10, <1>11, <1>12, <1>13, <1>14,
     <1>15, <1>16, <1>17, <1>18, <1>19, <1>20, <1>21 DEF Next, Loop

\* A sync runs in a session.
LEMMA OneSyncStep == TypeOK /\ OneSync /\ [Next]_vars => OneSync'
<1> SUFFICES ASSUME TypeOK, OneSync, [Next]_vars PROVE OneSync'
  OBVIOUS
<1> USE DEF memory, store, loop, person, server
<1>1. ASSUME NEW c \in Commands,
              enqueue(c) \/ retry(c) \/ discard(c) \/ passOver(c) \/ expire(c) \/ refuseDependent(c)
      PROVE  OneSync'
  BY <1>1, NoneAssumption
     DEF enqueue, Keep, retry, BeginSync, Listed, discard, NeedsPerson, passOver, Visiting, expire,
         Due, Open, refuseDependent, TypeOK, OneSync
<1>2. ASSUME NEW c \in Commands,
              fileMissing(c) \/ send(c) \/ backoffOver(c) \/ turnLate(c)
      PROVE  OneSync'
  BY <1>2, NoneAssumption
     DEF fileMissing, Keep, Ready, Due, Visiting, Open, send, backoffOver, turnLate, TypeOK, OneSync
<1>3. ASSUME NEW w \in Workspaces, chooseWorkspace(w) \/ signIn(w) PROVE OneSync'
  BY <1>3, NoneAssumption DEF chooseWorkspace, signIn, TypeOK, OneSync
<1>4. ASSUME NEW force \in BOOLEAN, startSync(force) PROVE OneSync'
  BY <1>4, NoneAssumption DEF startSync, BeginSync, Listed, TypeOK, OneSync
<1>5. ASSUME giveUp \/ accept \/ removeEntry \/ problem \/ endSync \/ wipe PROVE OneSync'
  BY <1>5, NoneAssumption
     DEF giveUp, Keep, Stop, Abandon, accept, removeEntry, problem, endSync, wipe, Lost, TypeOK,
         OneSync
<1>6. ASSUME signedOut \/ restart PROVE OneSync'
  BY <1>6, NoneAssumption DEF signedOut, Lost, Reload, Stop, Abandon, restart, TypeOK, OneSync
<1>7. ASSUME NEW q \in requests, arrive(q) \/ finish(q) \/ die(q) \/ lose(q) PROVE OneSync'
  BY <1>7, NoneAssumption DEF arrive, Answer, Key, finish, die, lose, TypeOK, OneSync
<1>8. ASSUME NEW k \in Commands \X Workspaces, release(k) PROVE OneSync'
  BY <1>8, NoneAssumption DEF release, TypeOK, OneSync
<1>9. CASE UNCHANGED vars
  BY <1>9 DEF vars, TypeOK, OneSync
<1> QED
  BY <1>1, <1>2, <1>3, <1>4, <1>5, <1>6, <1>7, <1>8, <1>9 DEF Next, Loop

\* The loop awaits one request, that of the command being sent.
LEMMA OneCallStep == TypeOK /\ OneCall /\ WaitsForOne /\ Kept /\ [Next]_vars => OneCall'
<1> SUFFICES ASSUME TypeOK, OneCall, WaitsForOne, Kept, [Next]_vars PROVE OneCall'
  OBVIOUS
<1> USE DEF memory, store, loop, person, server
<1>1. ASSUME NEW q \in requests, arrive(q) PROVE OneCall'
  BY <1>1 DEF arrive, Answer, OneCall, WaitsForOne
<1>2. ASSUME NEW q \in requests, finish(q) PROVE OneCall'
  BY <1>2 DEF finish, Answer, OneCall, WaitsForOne
<1>3. ASSUME NEW c \in Commands, enqueue(c) PROVE OneCall'
  BY <1>3, NoneAssumption DEF enqueue, Keep, TypeOK, OneCall, Kept, Statuses
<1>4. ASSUME NEW c \in Commands, retry(c) PROVE OneCall'
  BY <1>4, NoneAssumption DEF retry, Keep, BeginSync, Listed, TypeOK, OneCall, Kept, Statuses
<1>5. ASSUME NEW c \in Commands, discard(c) PROVE OneCall'
  BY <1>5, NoneAssumption DEF discard, NeedsPerson, TypeOK, OneCall, Kept, Statuses
<1>6. ASSUME NEW c \in Commands, passOver(c) PROVE OneCall'
  BY <1>6, NoneAssumption DEF passOver, Visiting, TypeOK, OneCall, Kept, Statuses
<1>7. ASSUME NEW c \in Commands, expire(c) PROVE OneCall'
  BY <1>7, NoneAssumption DEF expire, Keep, Due, Visiting, Open, TypeOK, OneCall, Kept, Statuses
<1>8. ASSUME NEW c \in Commands, refuseDependent(c) PROVE OneCall'
  BY <1>8, NoneAssumption
     DEF refuseDependent, Keep, Due, Visiting, Open, TypeOK, OneCall, Kept, Statuses
<1>9. ASSUME NEW c \in Commands, fileMissing(c) PROVE OneCall'
  BY <1>9, NoneAssumption
     DEF fileMissing, Keep, Ready, Due, Visiting, Open, TypeOK, OneCall, Kept, Statuses
<1>10. ASSUME NEW c \in Commands, send(c) PROVE OneCall'
  BY <1>10, NoneAssumption, ZenonT(60) DEF send, Ready, Due, Visiting, Open, TypeOK, OneCall, Kept, Statuses
<1>11. ASSUME NEW c \in Commands, backoffOver(c) PROVE OneCall'
  BY <1>11, NoneAssumption DEF backoffOver, TypeOK, OneCall, Kept, Statuses
<1>12. ASSUME NEW c \in Commands, turnLate(c) PROVE OneCall'
  BY <1>12, NoneAssumption DEF turnLate, TypeOK, OneCall, Kept, Statuses
<1>13. ASSUME NEW w \in Workspaces, chooseWorkspace(w) PROVE OneCall'
  BY <1>13, NoneAssumption DEF chooseWorkspace, TypeOK, OneCall, Kept, Statuses
<1>14. ASSUME NEW w \in Workspaces, signIn(w) PROVE OneCall'
  BY <1>14, NoneAssumption DEF signIn, TypeOK, OneCall, Kept, Statuses
<1>15. ASSUME NEW force \in BOOLEAN, startSync(force) PROVE OneCall'
  BY <1>15, NoneAssumption DEF startSync, BeginSync, Listed, TypeOK, OneCall, Kept, Statuses
<1>16. ASSUME giveUp PROVE OneCall'
  BY <1>16, NoneAssumption DEF giveUp, Keep, Stop, Abandon, TypeOK, OneCall, Kept, Statuses
<1>17. ASSUME accept PROVE OneCall'
  BY <1>17, NoneAssumption DEF accept, TypeOK, OneCall, Kept, Statuses
<1>18. ASSUME removeEntry PROVE OneCall'
  BY <1>18, NoneAssumption DEF removeEntry, TypeOK, OneCall, Kept, Statuses
<1>19. ASSUME problem PROVE OneCall'
  BY <1>19, NoneAssumption DEF problem, Keep, TypeOK, OneCall, Kept, Statuses
<1>20. ASSUME endSync PROVE OneCall'
  BY <1>20, NoneAssumption DEF endSync, TypeOK, OneCall, Kept, Statuses
<1>21. ASSUME wipe PROVE OneCall'
  BY <1>21, NoneAssumption DEF wipe, Lost, TypeOK, OneCall, Kept, Statuses
<1>22. ASSUME signedOut PROVE OneCall'
  BY <1>22, NoneAssumption
     DEF signedOut, Lost, Reload, Stop, Abandon, TypeOK, OneCall, Kept, Statuses
<1>23. ASSUME restart PROVE OneCall'
  BY <1>23, NoneAssumption DEF restart, Lost, Reload, Stop, Abandon, TypeOK, OneCall, Kept, Statuses
<1>24. ASSUME NEW q \in requests, die(q) PROVE OneCall'
  BY <1>24, NoneAssumption DEF die, Key, TypeOK, OneCall, Kept, Statuses
<1>25. ASSUME NEW q \in requests, lose(q) PROVE OneCall'
  BY <1>25, NoneAssumption DEF lose, TypeOK, OneCall, Kept, Statuses
<1>26. ASSUME NEW k \in Commands \X Workspaces, release(k) PROVE OneCall'
  BY <1>26, NoneAssumption DEF release, TypeOK, OneCall, Kept, Statuses
<1>27. CASE UNCHANGED vars
  BY <1>27 DEF vars, TypeOK, OneCall, Kept, Statuses
<1> QED
  BY <1>1, <1>2, <1>3, <1>4, <1>5, <1>6, <1>7, <1>8, <1>9, <1>10, <1>11, <1>12, <1>13, <1>14,
     <1>15, <1>16, <1>17, <1>18, <1>19, <1>20, <1>21, <1>22, <1>23, <1>24, <1>25, <1>26, <1>27
     DEF Next, Loop

\* At most one request may still answer the loop.
LEMMA WaitsForOneStep == TypeOK /\ OneCall /\ WaitsForOne /\ Kept /\ [Next]_vars => WaitsForOne'
<1> SUFFICES ASSUME TypeOK, OneCall, WaitsForOne, Kept, [Next]_vars PROVE WaitsForOne'
  OBVIOUS
<1> USE DEF memory, store, loop, person, server
<1>1. ASSUME NEW c \in Commands, enqueue(c) PROVE WaitsForOne'
  BY <1>1, NoneAssumption, ZenonT(60) DEF enqueue, Keep, TypeOK, OneCall, WaitsForOne, Kept, Statuses
<1>2. ASSUME NEW c \in Commands, retry(c) PROVE WaitsForOne'
  BY <1>2, NoneAssumption
     DEF retry, Keep, BeginSync, Listed, TypeOK, OneCall, WaitsForOne, Kept, Statuses
<1>3. ASSUME NEW c \in Commands, discard(c) PROVE WaitsForOne'
  BY <1>3, NoneAssumption DEF discard, NeedsPerson, TypeOK, OneCall, WaitsForOne, Kept, Statuses
<1>4. ASSUME NEW c \in Commands, send(c) PROVE WaitsForOne'
  <2> DEFINE r == [command |-> c, workspace |-> session, taken |-> FALSE, live |-> TRUE]
  <2>1. r.command = c /\ call' = c /\ status'[c] = "sending" /\ reply' = None /\ c # None
    BY <1>4, NoneAssumption DEF send, Ready, Due, Visiting, OneCall, TypeOK
  <2>2. \A q \in requests : ~q.live
    BY <1>4 DEF send, Ready, Due, Visiting, WaitsForOne
  <2>3. requests' = requests \cup {r}
    BY <1>4 DEF send
  <2> HIDE DEF r
  <2> QED
    BY <2>1, <2>2, <2>3 DEF WaitsForOne
<1>5. ASSUME giveUp PROVE WaitsForOne'
  BY <1>5, AbandonGives DEF giveUp, WaitsForOne, TypeOK
<1>6. ASSUME signedOut PROVE WaitsForOne'
  BY <1>6, AbandonGives DEF signedOut, Reload, WaitsForOne, TypeOK
<1>7. ASSUME restart PROVE WaitsForOne'
  BY <1>7, AbandonGives DEF restart, Reload, WaitsForOne, TypeOK
<1>8. ASSUME NEW q \in requests, arrive(q) PROVE WaitsForOne'
  <2>1. q \in Request
    BY DEF TypeOK
  <2> DEFINE r == [q EXCEPT !.taken = TRUE]
  <2>2. r.command = q.command /\ r.live = q.live
    BY <2>1, TakenGives
  <2>3. CASE requests' = requests \ {q} /\ reply' = IF q.live THEN reply' ELSE reply
    BY <1>8, <2>3 DEF arrive, WaitsForOne
  <2>4. CASE requests' = (requests \ {q}) \cup {r} /\ reply' = reply
    <3> HIDE DEF r
    <3> QED
      BY <1>8, <2>2, <2>4 DEF arrive, WaitsForOne
  <2> QED
    BY <1>8, <2>3, <2>4 DEF arrive, Answer
<1>9. ASSUME NEW q \in requests, finish(q) PROVE WaitsForOne'
  BY <1>9 DEF finish, Answer, WaitsForOne
<1>10. ASSUME NEW q \in requests, die(q) PROVE WaitsForOne'
  BY <1>10, NoneAssumption DEF die, Key, TypeOK, OneCall, WaitsForOne, Kept, Statuses
<1>11. ASSUME NEW q \in requests, lose(q) PROVE WaitsForOne'
  BY <1>11, NoneAssumption DEF lose, TypeOK, OneCall, WaitsForOne, Kept, Statuses
<1>12. ASSUME NEW w \in Workspaces, chooseWorkspace(w) \/ signIn(w) PROVE WaitsForOne'
  BY <1>12, NoneAssumption DEF chooseWorkspace, signIn, TypeOK, OneCall, WaitsForOne, Kept, Statuses
<1>13. ASSUME NEW force \in BOOLEAN, startSync(force) PROVE WaitsForOne'
  BY <1>13, NoneAssumption
     DEF startSync, BeginSync, Listed, TypeOK, OneCall, WaitsForOne, Kept, Statuses
<1>14. ASSUME NEW c \in Commands, passOver(c) \/ expire(c) \/ refuseDependent(c) PROVE WaitsForOne'
  BY <1>14, NoneAssumption
     DEF passOver, Visiting, expire, Keep, Due, Open, refuseDependent, TypeOK, OneCall,
         WaitsForOne, Kept, Statuses
<1>15. ASSUME NEW c \in Commands, fileMissing(c) \/ backoffOver(c) \/ turnLate(c) PROVE WaitsForOne'
  BY <1>15, NoneAssumption
     DEF fileMissing, Keep, Ready, Due, Visiting, Open, backoffOver, turnLate, TypeOK, OneCall,
         WaitsForOne, Kept, Statuses
<1>16. ASSUME accept \/ removeEntry \/ problem PROVE WaitsForOne'
  BY <1>16, NoneAssumption
     DEF accept, removeEntry, problem, Keep, TypeOK, OneCall, WaitsForOne, Kept, Statuses
<1>17. ASSUME endSync \/ wipe PROVE WaitsForOne'
  BY <1>17, NoneAssumption DEF endSync, wipe, Lost, TypeOK, OneCall, WaitsForOne, Kept, Statuses
<1>18. ASSUME NEW k \in Commands \X Workspaces, release(k) PROVE WaitsForOne'
  BY <1>18, NoneAssumption DEF release, TypeOK, OneCall, WaitsForOne, Kept, Statuses
<1>19. CASE UNCHANGED vars
  BY <1>19 DEF vars, TypeOK, OneCall, WaitsForOne, Kept, Statuses
<1> QED
  BY <1>1, <1>2, <1>3, <1>4, <1>5, <1>6, <1>7, <1>8, <1>9, <1>10, <1>11, <1>12, <1>13, <1>14,
     <1>15, <1>16, <1>17, <1>18, <1>19 DEF Next, Loop

\* The list and the store go together.
LEMMA KeptStep == TypeOK /\ OneCall /\ Kept /\ DraftKept /\ [Next]_vars => Kept'
<1> SUFFICES ASSUME TypeOK, OneCall, Kept, DraftKept, [Next]_vars PROVE Kept'
  OBVIOUS
<1> USE DEF memory, store, loop, person, server
<1>1. ASSUME NEW c \in Commands, enqueue(c) PROVE Kept'
  <2>1. attempts[c] < MaxAttempts
    <3>1. attempts[c] = 0
      BY <1>1 DEF enqueue, Kept
    <3> QED
      BY <3>1, Bounds
  <2> QED
    BY <1>1, <2>1, NoneAssumption DEF enqueue, Keep, TypeOK, Kept, Statuses
<1>2. ASSUME NEW c \in Commands, retry(c) PROVE Kept'
  <2>1. attempts'[c] < MaxAttempts /\ \A d \in Commands \ {c} : attempts'[d] = attempts[d]
    <3>1. attempts'[c] = 0 /\ \A d \in Commands \ {c} : attempts'[d] = attempts[d]
      BY <1>2 DEF retry, TypeOK
    <3> QED
      BY <3>1, Bounds
  <2>2. told[c] # ""
    BY <1>2, NoneAssumption DEF retry, Kept, Statuses
  <2>3. status' = [status EXCEPT ![c] = "queued"] /\ disk' = [disk EXCEPT ![c] = "queued"] /\ told' = told
    BY <1>2 DEF retry, Keep
  <2> QED
    BY <2>1, <2>2, <2>3, NoneAssumption DEF TypeOK, Kept, Statuses
<1>3. ASSUME restart PROVE Kept'
  <2>1. status' = disk /\ disk' = disk /\ attempts' = attempts
    BY <1>3 DEF restart, Reload
  <2>2. told' \in {told, Lost}
    BY <1>3 DEF restart
  <2>3. \A c \in Commands : told'[c] = told[c] \/ (told[c] = "pending" /\ told'[c] = "wiped")
    BY <2>2 DEF Lost, TypeOK
  <2> QED
    BY <2>1, <2>3 DEF Kept, DraftKept
<1>4. ASSUME NEW c \in Commands, discard(c) PROVE Kept'
  BY <1>4, NoneAssumption DEF discard, NeedsPerson, TypeOK, Kept, OneCall, Statuses
<1>5. ASSUME NEW c \in Commands, passOver(c) PROVE Kept'
  BY <1>5, NoneAssumption DEF passOver, Visiting, TypeOK, Kept, OneCall, Statuses
<1>6. ASSUME NEW c \in Commands, expire(c) PROVE Kept'
  BY <1>6, NoneAssumption DEF expire, Keep, Due, Visiting, Open, TypeOK, Kept, OneCall, Statuses
<1>7. ASSUME NEW c \in Commands, refuseDependent(c) PROVE Kept'
  BY <1>7, NoneAssumption
     DEF refuseDependent, Keep, Due, Visiting, Open, TypeOK, Kept, OneCall, Statuses
<1>8. ASSUME NEW c \in Commands, fileMissing(c) PROVE Kept'
  BY <1>8, NoneAssumption, ZenonT(60)
     DEF fileMissing, Keep, Ready, Due, Visiting, Open, TypeOK, Kept, OneCall, Statuses
<1>9. ASSUME NEW c \in Commands, send(c) PROVE Kept'
  BY <1>9, NoneAssumption DEF send, Ready, Due, Visiting, Open, TypeOK, Kept, OneCall, Statuses
<1>10. ASSUME NEW c \in Commands, backoffOver(c) PROVE Kept'
  BY <1>10, NoneAssumption DEF backoffOver, TypeOK, Kept, OneCall, Statuses
<1>11. ASSUME NEW c \in Commands, turnLate(c) PROVE Kept'
  BY <1>11, NoneAssumption DEF turnLate, TypeOK, Kept, OneCall, Statuses
<1>12. ASSUME NEW w \in Workspaces, chooseWorkspace(w) PROVE Kept'
  BY <1>12, NoneAssumption DEF chooseWorkspace, TypeOK, Kept, OneCall, Statuses
<1>13. ASSUME NEW w \in Workspaces, signIn(w) PROVE Kept'
  BY <1>13, NoneAssumption DEF signIn, TypeOK, Kept, OneCall, Statuses
<1>14. ASSUME NEW force \in BOOLEAN, startSync(force) PROVE Kept'
  BY <1>14, NoneAssumption DEF startSync, BeginSync, Listed, TypeOK, Kept, OneCall, Statuses
<1>15. ASSUME giveUp PROVE Kept'
  BY <1>15, NoneAssumption DEF giveUp, Keep, Stop, Abandon, TypeOK, Kept, OneCall, Statuses
<1>16. ASSUME accept PROVE Kept'
  BY <1>16, NoneAssumption DEF accept, TypeOK, Kept, OneCall, Statuses
<1>17. ASSUME removeEntry PROVE Kept'
  BY <1>17, NoneAssumption DEF removeEntry, TypeOK, Kept, OneCall, Statuses
<1>18. ASSUME problem PROVE Kept'
  BY <1>18, NoneAssumption DEF problem, Keep, TypeOK, Kept, OneCall, Statuses
<1>19. ASSUME endSync PROVE Kept'
  BY <1>19, NoneAssumption DEF endSync, TypeOK, Kept, OneCall, Statuses
<1>20. ASSUME wipe PROVE Kept'
  BY <1>20, NoneAssumption DEF wipe, Lost, TypeOK, Kept, OneCall, Statuses
<1>21. ASSUME signedOut PROVE Kept'
  BY <1>21, NoneAssumption
     DEF signedOut, Lost, Reload, Stop, Abandon, TypeOK, Kept, OneCall, Statuses
<1>22. ASSUME NEW q \in requests, arrive(q) PROVE Kept'
  BY <1>22, NoneAssumption DEF arrive, Answer, Key, TypeOK, Kept, OneCall, Statuses
<1>23. ASSUME NEW q \in requests, finish(q) PROVE Kept'
  BY <1>23, NoneAssumption DEF finish, Answer, Key, TypeOK, Kept, OneCall, Statuses
<1>24. ASSUME NEW q \in requests, die(q) PROVE Kept'
  BY <1>24, NoneAssumption DEF die, Key, TypeOK, Kept, OneCall, Statuses
<1>25. ASSUME NEW q \in requests, lose(q) PROVE Kept'
  BY <1>25, NoneAssumption DEF lose, TypeOK, Kept, OneCall, Statuses
<1>26. ASSUME NEW k \in Commands \X Workspaces, release(k) PROVE Kept'
  BY <1>26, NoneAssumption DEF release, TypeOK, Kept, OneCall, Statuses
<1>27. CASE UNCHANGED vars
  BY <1>27 DEF vars, TypeOK, Kept, OneCall, Statuses
<1> QED
  BY <1>1, <1>2, <1>3, <1>4, <1>5, <1>6, <1>7, <1>8, <1>9, <1>10, <1>11, <1>12, <1>13, <1>14,
     <1>15, <1>16, <1>17, <1>18, <1>19, <1>20, <1>21, <1>22, <1>23, <1>24, <1>25, <1>26, <1>27
     DEF Next, Loop

\* A draft stays.
LEMMA DraftKeptStep == TypeOK /\ OneCall /\ Kept /\ DraftKept /\ [Next]_vars => DraftKept'
<1> SUFFICES ASSUME TypeOK, OneCall, Kept, DraftKept, [Next]_vars PROVE DraftKept'
  OBVIOUS
<1> USE DEF memory, store, loop, person, server
<1>1. ASSUME NEW c \in Commands, enqueue(c) PROVE DraftKept'
  BY <1>1, NoneAssumption DEF enqueue, Keep, TypeOK, OneCall, Kept, DraftKept, Statuses
<1>2. ASSUME NEW c \in Commands, retry(c) PROVE DraftKept'
  BY <1>2, NoneAssumption
     DEF retry, Keep, BeginSync, Listed, TypeOK, OneCall, Kept, DraftKept, Statuses
<1>3. ASSUME giveUp PROVE DraftKept'
  BY <1>3, NoneAssumption
     DEF giveUp, Keep, Stop, Abandon, TypeOK, OneCall, Kept, DraftKept, Statuses
<1>4. ASSUME accept PROVE DraftKept'
  BY <1>4, NoneAssumption DEF accept, TypeOK, OneCall, Kept, DraftKept, Statuses
<1>5. ASSUME removeEntry PROVE DraftKept'
  BY <1>5, NoneAssumption DEF removeEntry, TypeOK, OneCall, Kept, DraftKept, Statuses
<1>6. ASSUME problem PROVE DraftKept'
  BY <1>6, NoneAssumption DEF problem, Keep, TypeOK, OneCall, Kept, DraftKept, Statuses
<1>7. ASSUME wipe PROVE DraftKept'
  BY <1>7, NoneAssumption DEF wipe, Lost, TypeOK, OneCall, Kept, DraftKept, Statuses
<1>8. ASSUME signedOut PROVE DraftKept'
  BY <1>8, NoneAssumption
     DEF signedOut, Lost, Reload, Stop, Abandon, TypeOK, OneCall, Kept, DraftKept, Statuses
<1>9. ASSUME restart PROVE DraftKept'
  BY <1>9, NoneAssumption
     DEF restart, Lost, Reload, Stop, Abandon, TypeOK, OneCall, Kept, DraftKept, Statuses
<1>10. ASSUME NEW c \in Commands, discard(c) \/ passOver(c) \/ expire(c) PROVE DraftKept'
  <2>1. CASE discard(c)
    BY <2>1, NoneAssumption DEF discard, NeedsPerson, TypeOK, OneCall, Kept, DraftKept, Statuses
  <2>2. CASE passOver(c)
    BY <2>2, NoneAssumption DEF passOver, Visiting, TypeOK, OneCall, Kept, DraftKept, Statuses
  <2>3. CASE expire(c)
    BY <2>3, NoneAssumption
       DEF expire, Keep, Due, Visiting, Open, TypeOK, OneCall, Kept, DraftKept, Statuses
  <2> QED BY <1>10, <2>1, <2>2, <2>3
<1>11. ASSUME NEW c \in Commands, refuseDependent(c) \/ fileMissing(c) \/ send(c) PROVE DraftKept'
  <2>1. CASE refuseDependent(c)
    BY <2>1, NoneAssumption
       DEF refuseDependent, Keep, Due, Visiting, Open, TypeOK, OneCall, Kept, DraftKept, Statuses
  <2>2. CASE fileMissing(c)
    BY <2>2, NoneAssumption
       DEF fileMissing, Keep, Ready, Due, Visiting, Open, TypeOK, OneCall, Kept, DraftKept, Statuses
  <2>3. CASE send(c)
    BY <2>3, NoneAssumption
       DEF send, Ready, Due, Visiting, Open, TypeOK, OneCall, Kept, DraftKept, Statuses
  <2> QED BY <1>11, <2>1, <2>2, <2>3
<1>12. ASSUME NEW c \in Commands, backoffOver(c) \/ turnLate(c) PROVE DraftKept'
  BY <1>12, NoneAssumption DEF backoffOver, turnLate, TypeOK, OneCall, Kept, DraftKept, Statuses
<1>13. ASSUME NEW w \in Workspaces, chooseWorkspace(w) \/ signIn(w) PROVE DraftKept'
  BY <1>13, NoneAssumption DEF chooseWorkspace, signIn, TypeOK, OneCall, Kept, DraftKept, Statuses
<1>14. ASSUME NEW force \in BOOLEAN, startSync(force) PROVE DraftKept'
  BY <1>14, NoneAssumption
     DEF startSync, BeginSync, Listed, TypeOK, OneCall, Kept, DraftKept, Statuses
<1>15. ASSUME endSync PROVE DraftKept'
  BY <1>15, NoneAssumption DEF endSync, TypeOK, OneCall, Kept, DraftKept, Statuses
<1>16. ASSUME NEW q \in requests, arrive(q) \/ finish(q) \/ die(q) PROVE DraftKept'
  BY <1>16, NoneAssumption
     DEF arrive, Answer, Key, finish, die, TypeOK, OneCall, Kept, DraftKept, Statuses
<1>17. ASSUME NEW q \in requests, lose(q) PROVE DraftKept'
  BY <1>17, NoneAssumption DEF lose, TypeOK, OneCall, Kept, DraftKept, Statuses
<1>18. ASSUME NEW k \in Commands \X Workspaces, release(k) PROVE DraftKept'
  BY <1>18, NoneAssumption DEF release, TypeOK, OneCall, Kept, DraftKept, Statuses
<1>19. CASE UNCHANGED vars
  BY <1>19 DEF vars, TypeOK, OneCall, Kept, DraftKept, Statuses
<1> QED
  BY <1>1, <1>2, <1>3, <1>4, <1>5, <1>6, <1>7, <1>8, <1>9, <1>10, <1>11, <1>12, <1>13, <1>14,
     <1>15, <1>16, <1>17, <1>18, <1>19 DEF Next, Loop

\* A command is made after those it needs.
LEMMA NeedsMadeStep == TypeOK /\ OneCall /\ Kept /\ NeedsMade /\ [Next]_vars => NeedsMade'
<1> SUFFICES ASSUME TypeOK, OneCall, Kept, NeedsMade, [Next]_vars PROVE NeedsMade'
  OBVIOUS
<1> USE DEF memory, store, loop, person, server
<1>1. ASSUME NEW c \in Commands, discard(c) PROVE NeedsMade'
  <2>1. told[c] # ""
    BY <1>1, NoneAssumption DEF discard, NeedsPerson, Kept, Statuses
  <2> QED
    BY <1>1, <2>1, CommandAssumption DEF discard, NeedsMade, TypeOK
<1>2. ASSUME accept PROVE NeedsMade'
  <2>1. call \in Commands /\ told[call] # ""
    BY <1>2, NoneAssumption DEF accept, OneCall, Kept, Statuses, TypeOK
  <2> QED
    BY <1>2, <2>1, CommandAssumption DEF accept, NeedsMade, TypeOK
<1>3. ASSUME NEW c \in Commands, enqueue(c) \/ retry(c) \/ passOver(c) \/ expire(c) PROVE NeedsMade'
  <2>1. CASE enqueue(c)
    BY <2>1, CommandAssumption DEF enqueue, Keep, TypeOK, NeedsMade
  <2>2. CASE retry(c)
    BY <2>2, CommandAssumption DEF retry, Keep, BeginSync, Listed, TypeOK, NeedsMade
  <2>3. CASE passOver(c)
    BY <2>3, CommandAssumption DEF passOver, Visiting, TypeOK, NeedsMade
  <2>4. CASE expire(c)
    BY <2>4, CommandAssumption DEF expire, Keep, Due, Visiting, Open, TypeOK, NeedsMade
  <2> QED BY <1>3, <2>1, <2>2, <2>3, <2>4
<1>4. ASSUME NEW c \in Commands,
              refuseDependent(c) \/ fileMissing(c) \/ send(c) \/ backoffOver(c)
      PROVE  NeedsMade'
  BY <1>4, CommandAssumption
     DEF refuseDependent, Keep, Due, Visiting, Open, fileMissing, Ready, send, backoffOver, TypeOK,
         NeedsMade
<1>5. ASSUME NEW c \in Commands, turnLate(c) PROVE NeedsMade'
  BY <1>5, CommandAssumption DEF turnLate, TypeOK, NeedsMade
<1>6. ASSUME NEW w \in Workspaces, chooseWorkspace(w) \/ signIn(w) PROVE NeedsMade'
  BY <1>6, CommandAssumption DEF chooseWorkspace, signIn, TypeOK, NeedsMade
<1>7. ASSUME NEW force \in BOOLEAN, startSync(force) PROVE NeedsMade'
  BY <1>7, CommandAssumption DEF startSync, BeginSync, Listed, TypeOK, NeedsMade
<1>8. ASSUME giveUp \/ removeEntry \/ problem \/ endSync PROVE NeedsMade'
  BY <1>8, CommandAssumption
     DEF giveUp, Keep, Stop, Abandon, removeEntry, problem, endSync, TypeOK, NeedsMade
<1>9. ASSUME wipe \/ signedOut \/ restart PROVE NeedsMade'
  BY <1>9, CommandAssumption
     DEF wipe, Lost, signedOut, Reload, Stop, Abandon, restart, TypeOK, NeedsMade
<1>10. ASSUME NEW q \in requests, arrive(q) \/ finish(q) \/ die(q) \/ lose(q) PROVE NeedsMade'
  BY <1>10, CommandAssumption DEF arrive, Answer, Key, finish, die, lose, TypeOK, NeedsMade
<1>11. ASSUME NEW k \in Commands \X Workspaces, release(k) PROVE NeedsMade'
  BY <1>11, CommandAssumption DEF release, TypeOK, NeedsMade
<1>12. CASE UNCHANGED vars
  BY <1>12 DEF vars, TypeOK, NeedsMade
<1> QED
  BY <1>1, <1>2, <1>3, <1>4, <1>5, <1>6, <1>7, <1>8, <1>9, <1>10, <1>11, <1>12 DEF Next, Loop

\* It is kept by a step that makes no request and leaves what is over as it is.
LEMMA AfterItsNeedsStays ==
  ASSUME TypeOK, AfterItsNeeds,
         \A q \in requests' : \E r \in requests : r.command = q.command,
         \A d \in Commands : told[d] \in {"accepted", "discarded", "wiped"}
                              => told'[d] \in {"accepted", "discarded", "wiped"}
  PROVE  AfterItsNeeds'
BY NeedsType DEF AfterItsNeeds, TypeOK

\* A request comes after those of the commands it needs.
LEMMA AfterItsNeedsStep == TypeOK /\ Kept /\ NeedsMade /\ AfterItsNeeds /\ [Next]_vars => AfterItsNeeds'
<1> SUFFICES ASSUME TypeOK, Kept, NeedsMade, AfterItsNeeds, [Next]_vars PROVE AfterItsNeeds'
  OBVIOUS
<1> USE DEF memory, store, loop, person, server
<1>1. ASSUME NEW c \in Commands, enqueue(c) PROVE AfterItsNeeds'
  BY <1>1, AfterItsNeedsStays DEF enqueue, Keep, TypeOK
<1>2. ASSUME NEW c \in Commands, discard(c) PROVE AfterItsNeeds'
  BY <1>2, AfterItsNeedsStays DEF discard, NeedsPerson, TypeOK
<1>3. ASSUME NEW c \in Commands, send(c) PROVE AfterItsNeeds'
  <2> DEFINE r == [command |-> c, workspace |-> session, taken |-> FALSE, live |-> TRUE]
  <2>1. r.command = c /\ requests' = requests \cup {r} /\ told' = told
    BY <1>3 DEF send
  <2>2. told[c] # "" /\ \A d \in Needs[c] : d \in Commands /\ told[d] # ""
    BY <1>3, CommandAssumption, NoneAssumption DEF send, Ready, Due, Open, Kept, NeedsMade, Statuses
  <2>3. \A d \in Needs[c] : status[d] \in {None, "accepted"}
    BY <1>3, <2>2 DEF send, Ready, NeedOpen, NeedFailed, Open, NeedsPerson, TypeOK, Statuses
  <2>4. \A d \in Needs[c] : told[d] \in {"accepted", "discarded", "wiped"}
    BY <2>2, <2>3 DEF Kept, TypeOK
  <2> HIDE DEF r
  <2> QED
    BY <2>1, <2>4 DEF AfterItsNeeds
<1>4. ASSUME giveUp PROVE AfterItsNeeds'
  <2>1. \A q \in requests' : \E r \in requests : r.command = q.command
    BY <1>4, AbandonGives DEF giveUp, TypeOK
  <2> QED
    BY <1>4, <2>1, AfterItsNeedsStays DEF giveUp
<1>5. ASSUME accept PROVE AfterItsNeeds'
  BY <1>5, AfterItsNeedsStays DEF accept, TypeOK
<1>6. ASSUME wipe PROVE AfterItsNeeds'
  <2>1. \A d \in Commands : told[d] \in {"accepted", "discarded", "wiped"} => told'[d] = told[d]
    BY <1>6 DEF wipe, Lost
  <2> QED
    BY <1>6, <2>1, AfterItsNeedsStays DEF wipe
<1>7. ASSUME signedOut \/ restart PROVE AfterItsNeeds'
  <2>1. \A q \in requests' : \E r \in requests : r.command = q.command
    BY <1>7, AbandonGives DEF signedOut, restart, Reload, TypeOK
  <2>2. \A d \in Commands : told[d] \in {"accepted", "discarded", "wiped"} => told'[d] = told[d]
    BY <1>7 DEF signedOut, restart, Lost
  <2> QED
    BY <2>1, <2>2, AfterItsNeedsStays
<1>8. ASSUME NEW q \in requests, arrive(q) PROVE AfterItsNeeds'
  <2>1. \A r \in requests' : \E p \in requests : r.command = p.command
    <3>1. [q EXCEPT !.taken = TRUE].command = q.command
      BY TakenGives DEF TypeOK
    <3>2. requests' \subseteq requests \cup {[q EXCEPT !.taken = TRUE]}
      BY <1>8 DEF arrive, Answer
    <3> QED
      BY <3>1, <3>2
  <2> QED
    BY <1>8, <2>1 DEF arrive, AfterItsNeeds
<1>9. ASSUME NEW c \in Commands,
              retry(c) \/ passOver(c) \/ expire(c) \/ refuseDependent(c)
      PROVE  AfterItsNeeds'
  BY <1>9, AfterItsNeedsStays
     DEF retry, Keep, BeginSync, Listed, passOver, Visiting, expire, Due, Open, refuseDependent,
         TypeOK
<1>10. ASSUME NEW c \in Commands,
              fileMissing(c) \/ backoffOver(c) \/ turnLate(c)
      PROVE  AfterItsNeeds'
  BY <1>10, AfterItsNeedsStays
     DEF fileMissing, Keep, Ready, Due, Visiting, Open, backoffOver, turnLate, TypeOK
<1>11. ASSUME NEW w \in Workspaces, chooseWorkspace(w) \/ signIn(w) PROVE AfterItsNeeds'
  BY <1>11, AfterItsNeedsStays DEF chooseWorkspace, signIn, TypeOK
<1>12. ASSUME NEW force \in BOOLEAN, startSync(force) PROVE AfterItsNeeds'
  BY <1>12, AfterItsNeedsStays DEF startSync, BeginSync, Listed, TypeOK
<1>13. ASSUME removeEntry \/ problem \/ endSync PROVE AfterItsNeeds'
  BY <1>13, AfterItsNeedsStays DEF removeEntry, problem, Keep, endSync, TypeOK
<1>14. ASSUME NEW q \in requests, finish(q) \/ die(q) \/ lose(q) PROVE AfterItsNeeds'
  BY <1>14, AfterItsNeedsStays DEF finish, Answer, Key, die, lose, TypeOK
<1>15. ASSUME NEW k \in Commands \X Workspaces, release(k) PROVE AfterItsNeeds'
  BY <1>15, AfterItsNeedsStays DEF release, TypeOK
<1>16. CASE UNCHANGED vars
  BY <1>16 DEF vars, TypeOK, AfterItsNeeds
<1> QED
  BY <1>1, <1>2, <1>3, <1>4, <1>5, <1>6, <1>7, <1>8, <1>9, <1>10, <1>11, <1>12, <1>13, <1>14,
     <1>15, <1>16 DEF Next, Loop

\* An answer says what the server did.
LEMMA AnswersStep == TypeOK /\ OneCall /\ WaitsForOne /\ Answers /\ [Next]_vars => Answers'
<1> SUFFICES ASSUME TypeOK, OneCall, WaitsForOne, Answers, [Next]_vars PROVE Answers'
  OBVIOUS
<1> USE DEF memory, store, loop, person, server
<1>1. ASSUME giveUp PROVE Answers'
  <2>1. reply' = None /\ held' = held /\ applied' = applied
    BY <1>1 DEF giveUp
  <2> QED
    BY <2>1, NoneAssumption DEF Answers, Statuses
<1>2. ASSUME removeEntry PROVE Answers'
  <2>1. reply' = reply /\ held' = held /\ applied' = applied /\ reply # "accepted"
    BY <1>2, NoneAssumption DEF removeEntry, OneCall, Statuses
  <2> QED
    BY <2>1 DEF Answers
<1>3. ASSUME problem PROVE Answers'
  <2>1. reply' # "accepted" /\ held' = held /\ applied' = applied
    BY <1>3, NoneAssumption DEF problem, Statuses
  <2> QED
    BY <2>1 DEF Answers
<1>4. ASSUME NEW q \in requests, arrive(q) PROVE Answers'
  BY <1>4, NoneAssumption
     DEF arrive, Answer, Key, TypeOK, OneCall, WaitsForOne, Answers, Request, Replies
<1>5. ASSUME NEW q \in requests, finish(q) PROVE Answers'
  <2>1. q \in Request /\ Key(q) \in Commands \X Workspaces /\ q.workspace \in Workspaces
    BY KeyType DEF TypeOK, Request
  <2>2. applied \subseteq applied' /\ call' = call
    BY <1>5 DEF finish
  <2>3. ASSUME NEW k \in Commands \X Workspaces, held'[k] = "accepted" PROVE k \in applied'
    <3>1. CASE k # Key(q)
      <4>1. held'[k] = held[k]
        BY <1>5, <2>1, <3>1 DEF finish, TypeOK
      <4> QED
        BY <2>2, <2>3, <4>1 DEF Answers
    <3>2. CASE k = Key(q)
      BY <1>5, <2>1, <2>3, <3>2, NoneAssumption DEF finish, TypeOK, Statuses
    <3> QED
      BY <3>1, <3>2
  <2>4. CASE reply' = reply
    BY <2>2, <2>3, <2>4 DEF Answers
  <2>5. CASE q.live /\ reply' = "accepted" /\ Key(q) \in applied'
    BY <2>1, <2>2, <2>3, <2>5 DEF Answers, WaitsForOne, Key
  <2>6. CASE reply' \notin {reply, "accepted"}
    BY <2>3, <2>6 DEF Answers
  <2> QED
    BY <1>5, <2>4, <2>5, <2>6, NoneAssumption DEF finish, Answer, Statuses
<1>6. ASSUME NEW q \in requests, die(q) PROVE Answers'
  BY <1>6, NoneAssumption DEF die, Key, TypeOK, OneCall, WaitsForOne, Answers, Statuses
<1>7. ASSUME NEW k \in Commands \X Workspaces, release(k) PROVE Answers'
  <2>1. held' = [held EXCEPT ![k] = None] /\ reply' = reply /\ call' = call /\ applied' = applied
    BY <1>7 DEF release
  <2>2. \A j \in Commands \X Workspaces : held'[j] \in {held[j], None}
    BY <2>1 DEF TypeOK
  <2> QED
    BY <2>1, <2>2, NoneAssumption DEF Answers, Statuses
<1>8. ASSUME NEW q \in requests, lose(q) PROVE Answers'
  BY <1>8, NoneAssumption DEF lose, TypeOK, OneCall, WaitsForOne, Answers, Statuses
<1>9. ASSUME NEW c \in Commands, enqueue(c) \/ retry(c) \/ discard(c) PROVE Answers'
  BY <1>9, NoneAssumption
     DEF enqueue, Keep, retry, BeginSync, Listed, discard, NeedsPerson, TypeOK, OneCall,
         WaitsForOne, Answers, Statuses
<1>10. ASSUME NEW c \in Commands, passOver(c) \/ expire(c) \/ refuseDependent(c) PROVE Answers'
  BY <1>10, NoneAssumption
     DEF passOver, Visiting, expire, Keep, Due, Open, refuseDependent, TypeOK, OneCall,
         WaitsForOne, Answers, Statuses
<1>11. ASSUME NEW c \in Commands, fileMissing(c) \/ send(c) \/ backoffOver(c) PROVE Answers'
  BY <1>11, NoneAssumption
     DEF fileMissing, Keep, Ready, Due, Visiting, Open, send, backoffOver, TypeOK, OneCall,
         WaitsForOne, Answers, Statuses
<1>12. ASSUME NEW c \in Commands, turnLate(c) PROVE Answers'
  BY <1>12, NoneAssumption DEF turnLate, TypeOK, OneCall, WaitsForOne, Answers, Statuses
<1>13. ASSUME NEW w \in Workspaces, chooseWorkspace(w) \/ signIn(w) PROVE Answers'
  BY <1>13, NoneAssumption
     DEF chooseWorkspace, signIn, TypeOK, OneCall, WaitsForOne, Answers, Statuses
<1>14. ASSUME NEW force \in BOOLEAN, startSync(force) PROVE Answers'
  BY <1>14, NoneAssumption
     DEF startSync, BeginSync, Listed, TypeOK, OneCall, WaitsForOne, Answers, Statuses
<1>15. ASSUME accept \/ endSync \/ wipe PROVE Answers'
  BY <1>15, NoneAssumption
     DEF accept, endSync, wipe, Lost, TypeOK, OneCall, WaitsForOne, Answers, Statuses
<1>16. ASSUME signedOut \/ restart PROVE Answers'
  BY <1>16, NoneAssumption
     DEF signedOut, Lost, Reload, Stop, Abandon, restart, TypeOK, OneCall, WaitsForOne, Answers,
         Statuses
<1>17. CASE UNCHANGED vars
  BY <1>17 DEF vars, TypeOK, OneCall, WaitsForOne, Answers, Statuses
<1> QED
  BY <1>1, <1>2, <1>3, <1>4, <1>5, <1>6, <1>7, <1>8, <1>9, <1>10, <1>11, <1>12, <1>13, <1>14,
     <1>15, <1>16, <1>17 DEF Next, Loop

\* What was accepted stays a fact.
LEMMA AcceptedIsFactStep == TypeOK /\ OneCall /\ Answers /\ AcceptedIsFact /\ [Next]_vars => AcceptedIsFact'
<1> SUFFICES ASSUME TypeOK, OneCall, Answers, AcceptedIsFact, [Next]_vars PROVE AcceptedIsFact'
  OBVIOUS
<1> USE DEF memory, store, loop, person, server
<1>1. ASSUME accept PROVE AcceptedIsFact'
  BY <1>1 DEF accept, TypeOK, OneCall, Answers, AcceptedIsFact
<1>2. ASSUME signedOut PROVE AcceptedIsFact'
  BY <1>2 DEF signedOut, Lost, Reload, Stop, Abandon, TypeOK, OneCall, Answers, AcceptedIsFact
<1>3. ASSUME restart PROVE AcceptedIsFact'
  BY <1>3 DEF restart, Lost, Reload, Stop, Abandon, TypeOK, OneCall, Answers, AcceptedIsFact
<1>4. ASSUME NEW c \in Commands, enqueue(c) \/ retry(c) \/ discard(c) PROVE AcceptedIsFact'
  <2>1. CASE enqueue(c)
    BY <2>1 DEF enqueue, Keep, TypeOK, OneCall, Answers, AcceptedIsFact
  <2>2. CASE retry(c)
    BY <2>2 DEF retry, Keep, BeginSync, Listed, TypeOK, OneCall, Answers, AcceptedIsFact
  <2>3. CASE discard(c)
    BY <2>3 DEF discard, NeedsPerson, TypeOK, OneCall, Answers, AcceptedIsFact
  <2> QED BY <1>4, <2>1, <2>2, <2>3
<1>5. ASSUME NEW c \in Commands,
              passOver(c) \/ expire(c) \/ refuseDependent(c)
      PROVE  AcceptedIsFact'
  BY <1>5
     DEF passOver, Visiting, expire, Keep, Due, Open, refuseDependent, TypeOK, OneCall, Answers,
         AcceptedIsFact
<1>6. ASSUME NEW c \in Commands, fileMissing(c) \/ send(c) \/ backoffOver(c) PROVE AcceptedIsFact'
  BY <1>6
     DEF fileMissing, Keep, Ready, Due, Visiting, Open, send, backoffOver, TypeOK, OneCall,
         Answers, AcceptedIsFact
<1>7. ASSUME NEW c \in Commands, turnLate(c) PROVE AcceptedIsFact'
  BY <1>7 DEF turnLate, TypeOK, OneCall, Answers, AcceptedIsFact
<1>8. ASSUME NEW w \in Workspaces, chooseWorkspace(w) \/ signIn(w) PROVE AcceptedIsFact'
  BY <1>8 DEF chooseWorkspace, signIn, TypeOK, OneCall, Answers, AcceptedIsFact
<1>9. ASSUME NEW force \in BOOLEAN, startSync(force) PROVE AcceptedIsFact'
  BY <1>9 DEF startSync, BeginSync, Listed, TypeOK, OneCall, Answers, AcceptedIsFact
<1>10. ASSUME giveUp \/ removeEntry \/ problem PROVE AcceptedIsFact'
  BY <1>10
     DEF giveUp, Keep, Stop, Abandon, removeEntry, problem, TypeOK, OneCall, Answers, AcceptedIsFact
<1>11. ASSUME endSync \/ wipe PROVE AcceptedIsFact'
  BY <1>11 DEF endSync, wipe, Lost, TypeOK, OneCall, Answers, AcceptedIsFact
<1>12. ASSUME NEW q \in requests, arrive(q) \/ finish(q) \/ die(q) PROVE AcceptedIsFact'
  BY <1>12 DEF arrive, Answer, Key, finish, die, TypeOK, OneCall, Answers, AcceptedIsFact
<1>13. ASSUME NEW q \in requests, lose(q) PROVE AcceptedIsFact'
  BY <1>13 DEF lose, TypeOK, OneCall, Answers, AcceptedIsFact
<1>14. ASSUME NEW k \in Commands \X Workspaces, release(k) PROVE AcceptedIsFact'
  BY <1>14 DEF release, TypeOK, OneCall, Answers, AcceptedIsFact
<1>15. CASE UNCHANGED vars
  BY <1>15 DEF vars, TypeOK, OneCall, Answers, AcceptedIsFact
<1> QED
  BY <1>1, <1>2, <1>3, <1>4, <1>5, <1>6, <1>7, <1>8, <1>9, <1>10, <1>11, <1>12, <1>13, <1>14, <1>15
     DEF Next, Loop

----------------------------------------------------------------------------

LEMMA InitIInv == Init => IInv
<1> SUFFICES ASSUME Init PROVE IInv
  OBVIOUS
<1>1. TypeOK
  <2>1. 0 \in 0..MaxAttempts /\ 0 \in 0..MaxRestarts
    BY Bounds
  <2> QED
    BY <2>1 DEF Init, TypeOK, memory, store, loop, person, server
<1>2. OneSync /\ OneCall /\ WaitsForOne
  BY NoneAssumption DEF Init, OneSync, OneCall, WaitsForOne, Statuses
<1>3. Kept
  BY NoneAssumption DEF Init, Kept, Statuses
<1>4. NeedsMade /\ DraftKept /\ AcceptedIsFact /\ AfterItsNeeds
  BY CommandAssumption DEF Init, NeedsMade, DraftKept, AcceptedIsFact, AfterItsNeeds
<1>5. Answers
  BY NoneAssumption DEF Init, Answers, Statuses
<1> QED
  BY <1>1, <1>2, <1>3, <1>4, <1>5 DEF IInv

LEMMA StepIInv == IInv /\ [Next]_vars => IInv'
BY TypeStep, OneSyncStep, OneCallStep, WaitsForOneStep, KeptStep, DraftKeptStep, NeedsMadeStep,
   AfterItsNeedsStep, AnswersStep, AcceptedIsFactStep DEF IInv

LEMMA Invariant == Spec => []IInv
BY InitIInv, StepIInv, PTL DEF Spec

\* The state of the queue and of the server keeps its types: no command is attempted more often
\* than the cap (outcomeOf), whatever is restarted, refused or tried again.
THEOREM TypeCorrect == Spec => []TypeOK
BY Invariant, PTL DEF IInv

\* For every interleaving of the loop with the person, a sign-out and the end of the app: a draft
\* and its attachment are on the device until its command was accepted, discarded or wiped.
THEOREM DraftsAreKept == Spec => []DraftKept
BY Invariant, PTL DEF IInv

\* However often requests are lost or repeated and the server dies: what the person is told was
\* accepted was applied.
THEOREM AcceptedIsTrue == Spec => []AcceptedIsFact
BY Invariant, PTL DEF IInv

\* No request is at the server, or on its way, before each command it needs was accepted or given
\* up.
THEOREM NeedsComeFirst == Spec => []AfterItsNeeds
BY Invariant, PTL DEF IInv
=============================================================================
