---------------------------- MODULE CommandQueue ----------------------------
(***************************************************************************)
(* The queue of pending commands of the field client and the server that   *)
(* answers it: src/mobile/app/lib/app/queue.dart and                       *)
(* data/command_queue.dart, with the signing in, out and between           *)
(* workspaces of app/providers.dart.                                       *)
(*                                                                         *)
(* Every change a person makes is kept on the device, then sent in         *)
(* dependency order by sync(), a loop with an await at each request: the   *)
(* person, the timers, a sign-out and the end of the app come between.     *)
(* The server is the one of Idempotency, seen from one client: a key is    *)
(* reserved, an answer is stored, and a reservation left behind by a dead  *)
(* process is released after a while.  A command that makes several        *)
(* requests, each with a key derived from its own, is one request here.    *)
(***************************************************************************)
EXTENDS Integers

CONSTANTS Commands, Workspaces,
          CreatedAt,    \* [Commands -> Nat]: createdAt, the order they are sent in
          HomeOf,       \* [Commands -> Workspaces]: workspaceId
          Needs,        \* [Commands -> SUBSET Commands]: dependsOn
          WithFile,     \* commands that carry an attachment
          MaxAttempts,
          MaxRestarts,  \* bound: ends of the app, and moves between workspaces
          None

\* A command is made after those it needs (on the device it depends on), so that the order of
\* making is the one _ordered() gives.
ASSUME CommandAssumption ==
  /\ CreatedAt \in [Commands -> Nat]
  /\ HomeOf \in [Commands -> Workspaces] /\ Needs \in [Commands -> SUBSET Commands]
  /\ \A c \in Commands : \A d \in Needs[c] : CreatedAt[d] < CreatedAt[c]
  /\ WithFile \subseteq Commands
  /\ MaxAttempts \in Nat \ {0} /\ MaxRestarts \in Nat

Statuses == {"queued", "sending", "accepted", "rejected", "conflict", "expired"}

ASSUME NoneAssumption == None \notin Statuses /\ None \notin Workspaces /\ None \notin Commands

VARIABLES status,    \* status of each command in memory, None when the list has no such command
          attempts,  \* its failed attempts
          disk,      \* the status saved in its entry of the store, None without one
          files,     \* commands whose attachment is on the device
          backoff,   \* commands whose nextAttemptAt is not reached
          told,      \* what became of it for the person: "" before it is made, "pending",
                     \* "accepted", "discarded" or "wiped"
          session,   \* the workspace of the session, None when signed out
          leaving,   \* a sign-out has wiped the store and not yet ended the session
          sync,      \* the running sync: its session and force, None when there is none
          walk,      \* the commands it has yet to visit, the one it is at among them
          call,      \* the command whose request it awaits
          reply,     \* the answer on its way to it
          requests,  \* requests not answered yet, at the server or before it
          held,      \* the idempotency record of each command in each workspace
          applied,   \* what the server applied: commands, with the workspace
          late,      \* commands captured longer ago than the offline retention
          restarts

memory == <<status, attempts>>
store == <<disk, files>>
loop == <<sync, walk, call>>
person == <<told, session, leaving>>
server == <<requests, held, applied>>
vars == <<memory, store, backoff, person, loop, reply, server, late, restarts>>

Replies == {"accepted", "busy", "unknown", "conflict", "expired", "rejected"}

Request == [command : Commands, workspace : Workspaces,
            taken : BOOLEAN,   \* the server is at it
            live : BOOLEAN]    \* the client still waits for it

TypeOK ==
  /\ status \in [Commands -> Statuses \cup {None}]
  /\ attempts \in [Commands -> 0..MaxAttempts]
  /\ disk \in [Commands -> Statuses \cup {None}]
  /\ files \subseteq Commands /\ backoff \subseteq Commands /\ late \subseteq Commands
  /\ told \in [Commands -> {"", "pending", "accepted", "discarded", "wiped"}]
  /\ session \in Workspaces \cup {None} /\ leaving \in BOOLEAN
  /\ sync \in [workspace : Workspaces, force : BOOLEAN] \cup {None}
  /\ walk \subseteq Commands
  /\ call \in Commands \cup {None}
  /\ reply \in Replies \cup {None}
  /\ requests \subseteq Request
  /\ held \in [Commands \X Workspaces -> Replies \cup {None}]
  /\ applied \subseteq Commands \X Workspaces
  /\ restarts \in 0..MaxRestarts

Init ==
  /\ status = [c \in Commands |-> None] /\ attempts = [c \in Commands |-> 0]
  /\ disk = [c \in Commands |-> None] /\ files = {} /\ backoff = {}
  /\ told = [c \in Commands |-> ""]
  /\ session \in Workspaces /\ leaving = FALSE
  /\ sync = None /\ walk = {} /\ call = None /\ reply = None
  /\ requests = {} /\ held = [k \in Commands \X Workspaces |-> None] /\ applied = {}
  /\ late = {} /\ restarts = 0

----------------------------------------------------------------------------

Open(c) == status[c] \in {"queued", "sending"}

NeedsPerson(c) == status[c] \in {"rejected", "conflict", "expired"}

Waiting == {c \in Commands : Open(c)}

\* A command with a new status, kept.
Keep(c, s) == status' = [status EXCEPT ![c] = s] /\ disk' = [disk EXCEPT ![c] = s]

Listed == {c \in Commands : status[c] # None}

\* What sync() does before its loop; a sync that runs already has the word.
BeginSync(force) ==
  IF sync = None /\ session # None
  THEN sync' = [workspace |-> session, force |-> force] /\ walk' = Listed
  ELSE UNCHANGED <<sync, walk>>

----------------------------------------------------------------------------
\* The person

\* The attachment is saved before the entry, and the command joins the list after both.
enqueue(c) ==
  /\ told[c] = "" /\ session = HomeOf[c] /\ \A d \in Needs[c] : told[d] # ""
  /\ told' = [told EXCEPT ![c] = "pending"]
  /\ Keep(c, "queued")
  /\ files' = files \cup ({c} \cap WithFile)
  /\ UNCHANGED <<attempts, backoff, session, leaving, loop, reply, server, late, restarts>>

\* Offered for a rejected command.  It ends with a forced sync.
retry(c) ==
  /\ status[c] = "rejected"
  /\ Keep(c, "queued")
  /\ attempts' = [attempts EXCEPT ![c] = 0]
  /\ backoff' = backoff \ {c}
  /\ BeginSync(TRUE)
  /\ UNCHANGED <<files, person, call, reply, server, late, restarts>>

\* Offered for a command that needs the person, with the words "It was not applied in ARGUS".
discard(c) ==
  /\ NeedsPerson(c)
  /\ status' = [status EXCEPT ![c] = None] /\ disk' = [disk EXCEPT ![c] = None]
  /\ files' = files \ {c}
  /\ told' = [told EXCEPT ![c] = "discarded"]
  /\ UNCHANGED <<attempts, backoff, session, leaving, loop, reply, server, late, restarts>>

chooseWorkspace(w) ==
  /\ session # None /\ session # w /\ restarts < MaxRestarts
  /\ session' = w /\ restarts' = restarts + 1
  /\ UNCHANGED <<memory, store, backoff, told, leaving, loop, reply, server, late>>

----------------------------------------------------------------------------
\* sync(): at start, on return to the app, when the server answers again, every minute while
\* something waits, or when the person asks (force)

startSync(force) ==
  /\ sync = None /\ session # None /\ Waiting # {}
  /\ BeginSync(force)
  /\ UNCHANGED <<memory, store, backoff, person, call, reply, server, late, restarts>>

\* The next in the order of _ordered().
Visiting(c) == sync # None /\ call = None /\ c \in walk /\ \A d \in walk : CreatedAt[c] <= CreatedAt[d]

\* The command is this sync's to send or to end.
Due(c) == Visiting(c) /\ Open(c) /\ HomeOf[c] = sync.workspace

NeedOpen(c) == \E d \in Needs[c] : Open(d)
NeedFailed(c) == \E d \in Needs[c] : NeedsPerson(d)

\* Not open, of another workspace, or to wait for what it needs or for its next attempt.
passOver(c) ==
  /\ Visiting(c)
  /\ Due(c) => /\ c \notin late
               /\ NeedOpen(c) \/ (~NeedFailed(c) /\ ~sync.force /\ c \in backoff)
  /\ walk' = walk \ {c}
  /\ UNCHANGED <<memory, store, backoff, person, sync, call, reply, server, late, restarts>>

\* Too old: "Nothing was applied; do it again if it still holds."
expire(c) ==
  /\ Due(c) /\ c \in late
  /\ Keep(c, "expired")
  /\ walk' = walk \ {c}
  /\ UNCHANGED <<attempts, files, backoff, person, sync, call, reply, server, late, restarts>>

refuseDependent(c) ==
  /\ Due(c) /\ c \notin late /\ ~NeedOpen(c) /\ NeedFailed(c)
  /\ Keep(c, "rejected")
  /\ walk' = walk \ {c}
  /\ UNCHANGED <<attempts, files, backoff, person, sync, call, reply, server, late, restarts>>

\* Mutant of Ready: a command is ready whatever became of what it needs.
ReadyAlone(c) == Due(c) /\ c \notin late /\ (sync.force \/ c \notin backoff)

Ready(c) == /\ Due(c) /\ c \notin late /\ ~NeedOpen(c) /\ ~NeedFailed(c)
            /\ sync.force \/ c \notin backoff

\* "The file is no longer on this device": a problem of its own, without a request.
fileMissing(c) ==
  /\ Ready(c) /\ c \in WithFile \ files
  /\ Keep(c, "rejected")
  /\ attempts' = [attempts EXCEPT ![c] = @ + 1]
  /\ walk' = walk \ {c}
  /\ UNCHANGED <<files, backoff, person, sync, call, reply, server, late, restarts>>

\* Mutant of send: the draft leaves the device when it is sent.
sendAndForget(c) ==
  /\ Ready(c) /\ c \notin WithFile \ files
  /\ status' = [status EXCEPT ![c] = "sending"] /\ disk' = [disk EXCEPT ![c] = None]
  /\ call' = c
  /\ requests' = requests \cup {[command |-> c, workspace |-> session, taken |-> FALSE, live |-> TRUE]}
  /\ UNCHANGED <<attempts, files, backoff, person, sync, walk, reply, held, applied, late, restarts>>

\* The headers are those of the session when the request is made.
send(c) ==
  /\ Ready(c) /\ c \notin WithFile \ files
  /\ status' = [status EXCEPT ![c] = "sending"]
  /\ call' = c
  /\ requests' = requests \cup {[command |-> c, workspace |-> session, taken |-> FALSE, live |-> TRUE]}
  /\ UNCHANGED <<attempts, store, backoff, person, sync, walk, reply, held, applied, late, restarts>>

\* The client no longer waits for any request.
Abandon == requests' = {[q EXCEPT !.live = FALSE] : q \in requests}

\* Mutant of Stop: the sync that stops early still counts as running.
StopLocked == UNCHANGED sync /\ walk' = {} /\ call' = call

Stop == sync' = None /\ walk' = {} /\ call' = None

\* stopSync: no answer came, or one about the session or the version of the app.
giveUp ==
  /\ call # None /\ status[call] = "sending" /\ reply = None
  /\ Keep(call, "queued")
  /\ Stop /\ Abandon
  /\ UNCHANGED <<attempts, files, backoff, person, reply, held, applied, late, restarts>>

\* Accepted: the files go, then the entry.
accept ==
  /\ reply = "accepted"
  /\ status' = [status EXCEPT ![call] = "accepted"]
  /\ told' = [told EXCEPT ![call] = "accepted"]
  /\ files' = files \ {call}
  /\ reply' = None
  /\ UNCHANGED <<attempts, disk, backoff, session, leaving, loop, server, late, restarts>>

removeEntry ==
  /\ call # None /\ status[call] = "accepted"
  /\ disk' = [disk EXCEPT ![call] = None]
  /\ call' = None /\ walk' = walk \ {call}
  /\ UNCHANGED <<memory, files, backoff, person, sync, reply, server, late, restarts>>

\* Mutant of problem: the cap on attempts is checked before the attempt is counted.
problemUncapped ==
  /\ reply \notin {None, "accepted"}
  /\ attempts' = [attempts EXCEPT ![call] = @ + 1]
  /\ LET retryLater == reply \in {"busy", "unknown"} /\ attempts[call] <= MaxAttempts
     IN  /\ Keep(call, IF retryLater THEN "queued"
                       ELSE IF reply \in {"conflict", "expired"} THEN reply ELSE "rejected")
         /\ backoff' = IF retryLater THEN backoff \cup {call} ELSE backoff
  /\ reply' = None /\ call' = None /\ walk' = walk \ {call}
  /\ UNCHANGED <<files, person, sync, server, late, restarts>>

\* Any other answer: outcomeOf.
problem ==
  /\ reply \notin {None, "accepted"}
  /\ attempts' = [attempts EXCEPT ![call] = @ + 1]
  /\ LET retryLater == reply \in {"busy", "unknown"} /\ attempts[call] + 1 < MaxAttempts
     IN  /\ Keep(call, IF retryLater THEN "queued"
                       ELSE IF reply \in {"conflict", "expired"} THEN reply ELSE "rejected")
         /\ backoff' = IF retryLater THEN backoff \cup {call} ELSE backoff
  /\ reply' = None /\ call' = None /\ walk' = walk \ {call}
  /\ UNCHANGED <<files, person, sync, server, late, restarts>>

endSync ==
  /\ sync # None /\ walk = {} /\ call = None
  /\ sync' = None
  /\ UNCHANGED <<memory, store, backoff, person, walk, call, reply, server, late, restarts>>

----------------------------------------------------------------------------
\* Signing out and in, and the end of the app

\* The list as it is read from the store, with no sync and no request of its own.
Reload == /\ status' = disk
          /\ Stop /\ reply' = None /\ Abandon
          /\ UNCHANGED <<attempts, backoff, held, applied, late>>

\* The person is told that what was not sent is removed from the device.
Lost == [c \in Commands |-> IF told[c] = "pending" THEN "wiped" ELSE told[c]]

\* The person signs out, or any request finds the session revoked or expired: the store is wiped
\* first.
wipe ==
  /\ session # None /\ ~leaving /\ restarts < MaxRestarts
  /\ leaving' = TRUE /\ restarts' = restarts + 1
  /\ disk' = [c \in Commands |-> None]
  /\ told' = Lost
  /\ UNCHANGED <<memory, files, backoff, session, loop, reply, server, late>>

\* Then the copies and the files; then the session ends and the list is read anew.
signedOut ==
  /\ leaving
  /\ leaving' = FALSE /\ session' = None /\ files' = {} /\ told' = Lost
  /\ Reload
  /\ UNCHANGED <<disk, restarts>>

signIn(w) ==
  /\ session = None
  /\ session' = w
  /\ UNCHANGED <<memory, store, backoff, told, leaving, loop, reply, server, late, restarts>>

\* The app is ended by the person or the system and started again.
restart ==
  /\ restarts < MaxRestarts /\ restarts' = restarts + 1
  /\ session' = IF leaving THEN None ELSE session
  /\ leaving' = FALSE
  /\ told' = IF leaving THEN Lost ELSE told
  /\ Reload
  /\ UNCHANGED store

----------------------------------------------------------------------------
\* The server

Answer(q, a) == requests' = requests \ {q} /\ reply' = IF q.live THEN a ELSE reply

Key(q) == <<q.command, q.workspace>>

\* Mutant of arrive: a request that runs already counts as done.
arriveTwice(q) ==
  /\ ~q.taken
  /\ IF held[Key(q)] # None THEN Answer(q, "accepted") /\ UNCHANGED held
     ELSE IF q.command \in late THEN Answer(q, "expired") /\ UNCHANGED held
     ELSE /\ held' = [held EXCEPT ![Key(q)] = "busy"]
          /\ requests' = (requests \ {q}) \cup {[q EXCEPT !.taken = TRUE]}
          /\ UNCHANGED reply
  /\ UNCHANGED <<memory, store, backoff, person, loop, applied, late, restarts>>

\* A request arrives: the record of its key answers it, or it is run.
arrive(q) ==
  /\ ~q.taken
  /\ IF held[Key(q)] # None THEN Answer(q, held[Key(q)]) /\ UNCHANGED held
     ELSE IF q.command \in late THEN Answer(q, "expired") /\ UNCHANGED held
     ELSE /\ held' = [held EXCEPT ![Key(q)] = "busy"]
          /\ requests' = (requests \ {q}) \cup {[q EXCEPT !.taken = TRUE]}
          /\ UNCHANGED reply
  /\ UNCHANGED <<memory, store, backoff, person, loop, applied, late, restarts>>

\* The command is applied, refused, or fails in a way that is not stored.
finish(q) ==
  /\ q.taken
  /\ \/ /\ applied' = applied \cup {Key(q)}
        /\ held' = [held EXCEPT ![Key(q)] = "accepted"] /\ Answer(q, "accepted")
     \/ \E a \in {"rejected", "conflict"} :
          held' = [held EXCEPT ![Key(q)] = a] /\ Answer(q, a) /\ UNCHANGED applied
     \/ held' = [held EXCEPT ![Key(q)] = None] /\ Answer(q, "unknown") /\ UNCHANGED applied
  /\ UNCHANGED <<memory, store, backoff, person, loop, late, restarts>>

\* The server process dies before or after the commit, and the key stays reserved.
die(q) ==
  /\ q.taken
  /\ requests' = requests \ {q}
  /\ applied' \in {applied, applied \cup {Key(q)}}
  /\ UNCHANGED <<memory, store, backoff, person, loop, reply, held, late, restarts>>

\* STALE_AFTER.
release(k) ==
  /\ held[k] = "busy" /\ \A q \in requests : q.taken => Key(q) # k
  /\ held' = [held EXCEPT ![k] = None]
  /\ UNCHANGED <<memory, store, backoff, person, loop, reply, requests, applied, late, restarts>>

\* A request is lost before it reaches the server.
lose(q) ==
  /\ ~q.taken
  /\ requests' = requests \ {q}
  /\ UNCHANGED <<memory, store, backoff, person, loop, reply, held, applied, late, restarts>>

----------------------------------------------------------------------------
\* Time

backoffOver(c) ==
  /\ c \in backoff
  /\ backoff' = backoff \ {c}
  /\ UNCHANGED <<memory, store, person, loop, reply, server, late, restarts>>

turnLate(c) ==
  /\ told[c] # "" /\ c \notin late
  /\ late' = late \cup {c}
  /\ UNCHANGED <<memory, store, backoff, person, loop, reply, server, restarts>>

Loop == \/ \E c \in Commands : passOver(c) \/ expire(c) \/ refuseDependent(c) \/ fileMissing(c) \/ send(c)
        \/ accept \/ removeEntry \/ problem \/ endSync

Next ==
  \/ \E c \in Commands : enqueue(c) \/ retry(c) \/ discard(c) \/ backoffOver(c) \/ turnLate(c)
  \/ \E w \in Workspaces : chooseWorkspace(w) \/ signIn(w)
  \/ \E force \in BOOLEAN : startSync(force)
  \/ Loop \/ giveUp \/ wipe \/ signedOut \/ restart
  \/ \E q \in requests : arrive(q) \/ finish(q) \/ die(q) \/ lose(q)
  \/ \E k \in Commands \X Workspaces : release(k)

Spec == Init /\ [][Next]_vars

\* The loop runs on, a request ends with an answer or with its connection, the timer ticks every
\* minute, a sign-out completes, and time passes.  Nothing is assumed of the network or the server.
Fairness ==
  /\ WF_vars(Loop) /\ WF_vars(giveUp) /\ WF_vars(startSync(FALSE)) /\ WF_vars(signedOut)
  /\ \A c \in Commands : WF_vars(turnLate(c))

FairSpec == Spec /\ Fairness

----------------------------------------------------------------------------
\* Properties

\* A draft and its attachment stay on the device until the command is accepted, discarded or wiped
\* by a sign-out, across syncs, refusals and ends of the app (docs/flutter-app-design.md 5.3,
\* step 8).
DraftKept ==
  \A c \in Commands : told[c] = "pending" => disk[c] # None /\ (c \in WithFile => c \in files)

\* What the person is told was accepted is a fact in ARGUS, whatever was lost or repeated on the
\* way.
AcceptedIsFact ==
  \A c \in Commands : told[c] = "accepted" => \E w \in Workspaces : <<c, w>> \in applied

\* A command reaches the server only after each one it needs was accepted or given up.
AfterItsNeeds ==
  \A q \in requests : \A d \in Needs[q.command] : told[d] \in {"accepted", "discarded", "wiped"}

\* Nothing waits for ever: with the person in its workspace, a command ends as accepted or needs the
\* person, however the network behaves.
Settles ==
  \A c \in Commands : <>[](session = HomeOf[c]) => (Open(c) ~> ~Open(c))

\* queue.dart:110 has a command sent only in the workspace it was made in.  The check uses the
\* session the sync began with, the request the session of the moment.
HomeOnly == \A k \in applied : k[2] = HomeOf[k[1]]

\* A65 and the words of expire: an expired command was not applied.  One sent in time whose answer
\* was lost may have been.
ExpiredNotApplied ==
  \A c \in Commands : status[c] = "expired" => \A w \in Workspaces : <<c, w>> \notin applied

\* The words of discard for a command the server accepted: the app ended between the removal of its
\* files and of its entry, and it comes back as rejected.
AcceptedStays == \A c \in Commands : told[c] = "accepted" => ~NeedsPerson(c)

\* 5.2: dependsOn are commands that must succeed first.  One that was discarded is gone from the
\* list, which counts as success.
NeedsSucceeded ==
  \A q \in requests : \A d \in Needs[q.command] : told[d] # "discarded"

\* queue.dart:181 offers a retry "after the person fixed what was wrong": it should not meet the stored
\* answer of the refused attempt.  The key is the same for every attempt, and the server stores
\* refusals, so it does.
RetryStartsAnew ==
  [][\A c \in Commands : status[c] = "rejected" /\ status'[c] = "queued"
                         => held[<<c, HomeOf[c]>>] # "rejected"]_vars

\* A71: a sign-out leaves nothing of the commands on the device.  An answer that arrives while it
\* clears the files saves its command again.
WipedIsGone == \A c \in Commands : told[c] = "wiped" => disk[c] = None

=============================================================================
