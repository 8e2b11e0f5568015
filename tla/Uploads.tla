------------------------------- MODULE Uploads -------------------------------
(***************************************************************************)
(* One resumable upload: src/backend/app/routers/uploads.py, as the field  *)
(* client drives it (UploadRepository.uploadAndAttach in                   *)
(* src/mobile/app/lib/data/capture_repositories.dart).                     *)
(*                                                                         *)
(* upload_piece checks the offset, then awaits the body of the piece, then *)
(* writes and commits what it computes from the row it read before.  It    *)
(* runs on the event loop; complete and attach run in threads beside it.   *)
(* The client repeats an attempt with the same keys: the answer stored for *)
(* its create gives it offset 0 again, and the answers stored for its      *)
(* complete and its attach are those of every later attempt                *)
(* (idempotency.py).  The person keeps the permission to read.             *)
(*                                                                         *)
(* The file is a sequence of pieces: i for the i-th as the device hashed   *)
(* it, i + size for the i-th once location metadata is removed, 0 for      *)
(* bytes that were damaged on the way or that a write left as a hole.      *)
(*                                                                         *)
(* A file ends in a revision of a document, and the theorems of both are   *)
(* in DocumentControl_proofs: no name here is one of DocumentControl.      *)
(***************************************************************************)
EXTENDS Integers, Sequences

CONSTANTS Puts,         \* pieces that can be on their way at once
          MaxSize,      \* bound: pieces of the file
          MaxAttempts,  \* bound: times the client starts over without waiting
          MaxFaults,    \* bound: damaged pieces and crashes of the server
          Nil

ASSUME UploadAssumption ==
  MaxSize \in Nat \ {0} /\ MaxAttempts \in Nat /\ MaxFaults \in Nat

VARIABLES size, gps,   \* declared: how many pieces; the image carries a location
          state, received,   \* the row of the upload
          file,        \* what is at its storage path, Nil when nothing is
          final,       \* what was moved to the path of the attachment
          puts,        \* [Puts -> the upload_piece under way]
          pc,          \* where complete or attach is; the key lets one of each run
          stored,      \* the answer stored for the client's complete
          barred,      \* the record it is for is gone, closed or not the person's to change
          denied,      \* a refusal is stored for the client's attach
          at,          \* where the client is in the file
          mine,        \* the piece it waits for
          attempts, faults,
          late,        \* a piece was written that the check would have refused by then,
          overrun      \* and after complete had begun to read the file

row == <<state, received>>
client == <<at, mine, attempts>>
uploadVars == <<size, gps, row, file, final, puts, pc, stored, barred, denied, client, faults, late, overrun>>

Piece == [offset : 0..(MaxSize - 1), data : 0..MaxSize, wrote : BOOLEAN]
Content == UNION {[1..n -> 0..(2 * MaxSize)] : n \in 0..MaxSize}

ASSUME NilAssumption == Nil \notin Content \cup Piece \cup {"ok", "refused"}

UploadTypeOK ==
  /\ size \in 1..MaxSize /\ {gps, late, overrun, barred, denied} \subseteq BOOLEAN
  /\ state \in {"open", "complete", "attached", "gone"} /\ received \in 0..size
  /\ {file, final} \subseteq Content \cup {Nil}
  /\ puts \in [Puts -> Piece \cup {Nil}]
  /\ pc \in {"idle", "read", "good", "bad", "cleaned", "emptied", "accepted", "rejected", "moved"}
  /\ stored \in {Nil, "ok", "refused"}
  /\ at \in 0..size /\ mine \in Puts \cup {Nil}
  /\ attempts \in 0..MaxAttempts /\ faults \in 0..MaxFaults

\* create_upload makes an empty file before the row.
UploadInit ==
  /\ size \in 1..MaxSize /\ gps \in BOOLEAN
  /\ state = "open" /\ received = 0
  /\ file = <<>> /\ final = Nil
  /\ puts = [p \in Puts |-> Nil] /\ pc = "idle" /\ stored = Nil
  /\ at = 0 /\ mine = Nil /\ attempts = 0 /\ faults = 0
  /\ late = FALSE /\ overrun = FALSE /\ barred = FALSE /\ denied = FALSE

Sent == [i \in 1..size |-> i]
Cleaned == [i \in 1..size |-> i + size]
Verified == IF gps THEN Cleaned ELSE Sent

----------------------------------------------------------------------------
(* The pieces *)

\* Mutant of MayPut: a piece that was received already is taken again, at the end.
MayPutAgain(offset) == state = "open" /\ offset <= received

\* A piece is accepted only at the current offset.
MayPut(offset) == state = "open" /\ offset = received

\* Mutant of ResumeAt: the client starts over on a conflict.
ResumeAtStart == 0

\* "Another attempt got further: resume where the server is."
ResumeAt == received

\* The client's loop, while offset < length: the answer to a conflict moves it, and it tries
\* again.  A piece that is taken is written at the offset of the row that was read.
PutPiece(p) ==
  /\ at < size /\ mine = Nil /\ puts[p] = Nil /\ stored # "refused" /\ state # "gone"
  /\ \/ /\ ~MayPut(at)
        /\ at' = ResumeAt
        /\ UNCHANGED <<puts, mine, faults>>
     \/ /\ MayPut(at)
        /\ \/ puts' = [puts EXCEPT ![p] = [offset |-> received, data |-> at + 1, wrote |-> FALSE]]
              /\ UNCHANGED faults
           \/ puts' = [puts EXCEPT ![p] = [offset |-> received, data |-> 0, wrote |-> FALSE]]
              /\ faults < MaxFaults /\ faults' = faults + 1
        /\ mine' = p /\ UNCHANGED at
  /\ UNCHANGED <<size, gps, barred, denied, row, file, final, pc, stored, attempts, late, overrun>>

\* seek, write and truncate; a gap is filled with zeros.
Written(q) ==
  [i \in 1..(q.offset + 1) |->
     IF i = q.offset + 1 THEN q.data ELSE IF i <= Len(file) THEN file[i] ELSE 0]

\* Request p of the client ends; the one it waited for puts it at offset next.
End(p, next) ==
  /\ puts' = [puts EXCEPT ![p] = Nil]
  /\ IF mine = p THEN at' = next /\ mine' = Nil ELSE UNCHANGED <<at, mine>>

\* The body has arrived.  Without a file at the path the request fails.
PutWrite(p) ==
  /\ puts[p] # Nil /\ \A x \in Puts : puts[x] # Nil => ~puts[x].wrote
  /\ IF file = Nil
     THEN End(p, 0) /\ UNCHANGED <<file, late, overrun>>
     ELSE /\ file' = Written(puts[p])
          /\ puts' = [puts EXCEPT ![p].wrote = TRUE]
          /\ late' = (late \/ ~MayPut(puts[p].offset))
          /\ overrun' = (overrun \/ state # "open" \/ pc # "idle")
          /\ UNCHANGED <<at, mine>>
  /\ UNCHANGED <<size, gps, barred, denied, row, final, pc, stored, attempts, faults>>

\* u.received += len(piece), of the row read before the body.
PutCommit(p) ==
  /\ puts[p] # Nil /\ puts[p].wrote
  /\ IF state = "gone" THEN End(p, 0) /\ UNCHANGED received
     ELSE End(p, puts[p].offset + 1) /\ received' = puts[p].offset + 1
  /\ UNCHANGED <<size, gps, barred, denied, state, file, final, pc, stored, attempts, faults, late, overrun>>

----------------------------------------------------------------------------
(* complete_upload and _attach *)

AtEnd == at = size /\ mine = Nil /\ pc = "idle"

\* A refusal, this one of the offset included, is stored under the key.
Complete ==
  /\ AtEnd /\ stored = Nil /\ state # "gone"
  /\ \/ state # "open" /\ stored' = "ok" /\ UNCHANGED pc
     \/ state = "open" /\ received # size /\ stored' = "refused" /\ UNCHANGED pc
     \/ state = "open" /\ received = size /\ pc' = "read" /\ UNCHANGED stored
  /\ UNCHANGED <<size, gps, barred, denied, row, file, final, puts, client, faults, late, overrun>>

\* Mutant of Matches: the length is compared only.
MatchesLength == file # Nil /\ Len(file) = size

\* The SHA-256 of what was read is the one that was declared.
Matches == file = Sent

\* The steps of complete_upload: read, rewrite, commit; then the middleware stores the answer.
Completing ==
  /\ \/ /\ pc = "read" /\ file = Nil          \* purged meanwhile: the read fails
        /\ pc' = "idle" /\ UNCHANGED <<row, file, stored>>
     \/ /\ pc = "read" /\ file # Nil
        /\ pc' = IF Matches THEN "good" ELSE "bad"
        /\ UNCHANGED <<row, file, stored>>
     \/ /\ pc = "good"
        /\ file' = IF gps THEN Cleaned ELSE file
        /\ pc' = "cleaned" /\ UNCHANGED <<row, stored>>
     \/ /\ pc = "bad"
        /\ file' = <<>>
        /\ pc' = "emptied" /\ UNCHANGED <<row, stored>>
     \/ /\ pc \in {"cleaned", "emptied"} /\ state = "gone"
        /\ pc' = "idle" /\ UNCHANGED <<row, file, stored>>
     \/ /\ pc = "cleaned" /\ state # "gone"
        /\ state' = "complete" /\ pc' = "accepted" /\ UNCHANGED <<received, file, stored>>
     \/ /\ pc = "emptied" /\ state # "gone"
        /\ received' = 0 /\ pc' = "rejected" /\ UNCHANGED <<state, file, stored>>
     \/ /\ pc \in {"accepted", "rejected"}
        /\ stored' = IF pc = "accepted" THEN "ok" ELSE "refused"
        /\ pc' = "idle" /\ UNCHANGED <<row, file>>
  /\ UNCHANGED <<size, gps, barred, denied, final, puts, client, faults, late, overrun>>

\* The first request of the client with the key of the attach that is answered at all.
Attaches == AtEnd /\ stored = "ok" /\ ~denied /\ state = "complete"

\* os.replace; a path with nothing on it is an error.
AttachMove ==
  /\ Attaches /\ ~barred /\ file # Nil
  /\ final' = file /\ file' = Nil /\ pc' = "moved"
  /\ UNCHANGED <<size, gps, barred, denied, row, puts, stored, client, faults, late, overrun>>

\* 404 for a ticket or an asset that is gone, 403, 409 for a closed revision.  The refusal is stored under
\* the key, and is the answer of every later attempt.
AttachRefused ==
  /\ Attaches /\ barred
  /\ denied' = TRUE
  /\ UNCHANGED <<size, gps, barred, row, file, final, puts, pc, stored, client, faults, late, overrun>>

\* The attachment and the state of the upload, in one commit.
AttachCommit ==
  /\ pc = "moved"
  /\ state' = IF state = "gone" THEN state ELSE "attached"
  /\ pc' = "idle"
  /\ UNCHANGED <<size, gps, barred, denied, received, file, final, puts, stored, client, faults, late, overrun>>

----------------------------------------------------------------------------
(* What goes wrong *)

\* The client stops waiting, or is started again; what it sent may still arrive.
StartOver ==
  /\ attempts < MaxAttempts /\ state \notin {"attached", "gone"}
  /\ attempts' = attempts + 1 /\ at' = 0 /\ mine' = Nil
  /\ UNCHANGED <<size, gps, barred, denied, row, file, final, puts, pc, stored, faults, late, overrun>>

\* The server stops; the reservation of a key is given up after a time.
Crash ==
  /\ faults < MaxFaults
  /\ faults' = faults + 1
  /\ puts' = [p \in Puts |-> Nil] /\ pc' = "idle"
  /\ at' = 0 /\ mine' = Nil
  /\ UNCHANGED <<size, gps, barred, denied, row, file, final, stored, attempts, late, overrun>>

\* The ticket or asset is deleted, the revision closed, the permission to change it withdrawn.  That it
\* may be given back changes nothing for a refusal that was stored.
Bar ==
  /\ ~barred
  /\ barred' = TRUE
  /\ UNCHANGED <<size, gps, denied, row, file, final, puts, pc, stored, client, faults, late, overrun>>

\* An upload that is not attached at its expiry.
Purge ==
  /\ state \in {"open", "complete"}
  /\ state' = "gone" /\ file' = Nil
  /\ UNCHANGED <<size, gps, barred, denied, received, final, puts, pc, stored, client, faults, late, overrun>>

UploadNext ==
  \/ \E p \in Puts : PutPiece(p) \/ PutWrite(p) \/ PutCommit(p)
  \/ Complete \/ Completing \/ AttachMove \/ AttachRefused \/ AttachCommit
  \/ StartOver \/ Crash \/ Bar \/ Purge

\* The queue of the client tries again whenever it is online, and a request that has begun ends.
Fairness ==
  /\ WF_uploadVars(\E p \in Puts : PutPiece(p))
  /\ \A p \in Puts : WF_uploadVars(PutWrite(p)) /\ WF_uploadVars(PutCommit(p))
  /\ WF_uploadVars(Complete) /\ WF_uploadVars(Completing) /\ WF_uploadVars(AttachMove \/ AttachRefused)
  /\ WF_uploadVars(AttachCommit)

UploadSpec == UploadInit /\ [][UploadNext]_uploadVars /\ Fairness

----------------------------------------------------------------------------
(* Properties *)

\* What can be attached, or is, is the file the device hashed, without its location: through
\* damaged pieces, pieces that overlap, attempts that start over and crashes between a write and
\* its commit; except where a late piece is written over a file that is being, or was, verified.
WholeFile ==
  /\ state = "attached" => final = Verified \/ overrun
  /\ state = "complete" /\ file # Nil => file = Verified \/ overrun

\* The four ends a person has to repair, each with the only cause it may have.  A file is refused
\* for good that was damaged, whose server crashed or over which a late piece was written.
Refused == stored = "refused" /\ (faults > 0 \/ late)

\* The attach moved the file and its server crashed before its commit: the next one finds nothing to move.
Lost == state = "complete" /\ final # Nil /\ pc = "idle" /\ faults > 0

\* A piece overran the verification and the upload is closed at an offset before the end: the client is
\* told 409 with that offset, sends its piece again, and so on.
Spins == state \in {"complete", "attached"} /\ received < size /\ overrun

\* The record did not take the file when it was asked: the file stays, complete and attached nowhere.
Denied == state = "complete" /\ denied /\ barred

\* Every upload comes to an end: attached, expired, or one of those four.
Arrives == <>[](state \in {"attached", "gone"} \/ Refused \/ Lost \/ Spins \/ Denied)

(* A statement the code does not keep *)

\* models/device.py: the server "accepts pieces only at the current offset, recomputes the hash at
\* the end, and removes location metadata from images.  Only then can the file be attached".
\* A piece whose body comes late is written over the verified file.
AttachedAsHashed == state = "attached" => final = Verified
=============================================================================
