-------------------------------- MODULE AuditLog --------------------------------
(***************************************************************************)
(* The audit log (internal/server/audit.go): JSONL files that are the      *)
(* source of truth, and an optional SQLite index that answers queries      *)
(* while it is known to be complete.                                       *)
(*                                                                         *)
(* Actors: every request that writes an event (Write), one index worker,   *)
(* a reader (Query), the restore of a backup (ResetIndex), and the start   *)
(* of the process (NewAuditLog). Write appends under mu, and only after it *)
(* has released mu raises indexPending and hands the event to the worker   *)
(* through a bounded channel; a full channel makes the writer insert the   *)
(* event itself. Events are numbered in the order of their time stamps,    *)
(* which are taken under mu.                                               *)
(*                                                                         *)
(* Of a backup restore only ResetIndex is here; that it may exchange the   *)
(* audit files beforehand (backup.go) is not part of this module.          *)
(*                                                                         *)
(* A failed sqlite3 command may have inserted any part of its events: the  *)
(* script goes on after a BEGIN that was refused. Whoever ran it notes the *)
(* failure in indexReady only after it has released indexMu, which is a    *)
(* step of its own.                                                        *)
(***************************************************************************)
EXTENDS Naturals, FiniteSets

CONSTANTS
    MaxEvents,        \* bound: events written in one behaviour
    MaxCrashes,       \* bound: stops of the web process
    MaxResets,        \* bound: backup restores
    auditRotateFiles, \* rotated files kept (6 in the code)
    QueueCap,         \* capacity of indexCh (512)
    BatchMax,         \* events the worker inserts at once (64)
    RebuildMax,       \* events a rebuild inserts per transaction (500)
    QueryMax          \* events a query of the files reads (50000)

ASSUME AuditAssumption ==
    /\ MaxEvents \in Nat /\ MaxCrashes \in Nat /\ MaxResets \in Nat
    /\ auditRotateFiles \in Nat \ {0}
    /\ QueueCap \in Nat \ {0} /\ BatchMax \in Nat \ {0}
    /\ RebuildMax \in Nat \ {0} /\ QueryMax \in Nat \ {0}

Events == 1..MaxEvents
Nowhere == auditRotateFiles + 1

VARIABLES
    phase,     \* "down", "rebuild" (NewAuditLog), "up", "reset" (ResetIndex)
    file,      \* the file an event's line can be read from: 0 is audit.jsonl,
               \* i is audit.jsonl.i, Nowhere is none
    torn,      \* audit.jsonl ends in an incomplete line
    at,        \* where the Write of an event, then the event itself, is
    db,        \* audit.sqlite3 exists and has its tables
    index,     \* rows of audit_events per event
    sqlite,    \* AuditLog.sqlite # "", which is when indexCh # nil
    indexReady,
    indexPending,
    todo,      \* events a rebuild has still to insert
    q,         \* the reader
    crashes,
    resets,
    raced      \* history: events in flight when a rebuild read the files

vars == <<phase, file, torn, at, db, index, sqlite, indexReady, indexPending,
          todo, q, crashes, resets, raced>>

Places == {"new", "added", "counted", "queued", "sync", "unsynced", "synced",
           "batch", "unflushed", "flushed", "done", "past"}
In(places) == {e \in Events : at[e] \in places}

(* Events that indexPending counts, events a worker or writer has yet to   *)
(* insert, and events whose Write has returned to its caller. "unsynced"   *)
(* and "unflushed" follow a failure that indexReady does not show yet.     *)
Counted  == In({"counted", "queued", "sync", "unsynced", "synced",
                "batch", "unflushed", "flushed"})
InFlight == In({"added", "counted", "queued", "sync", "batch"})
Returned == In({"queued", "batch", "unflushed", "flushed", "done"})

Readable == {e \in Events : file[e] <= auditRotateFiles}
Queries  == [pc : {"idle", "pending", "sqlite", "failed", "files", "answered"},
             due : SUBSET Events, missed : SUBSET Events, spoiled : BOOLEAN]
NoQuery  == [pc |-> "idle", due |-> {}, missed |-> {}, spoiled |-> FALSE]

TypeOK ==
    /\ phase \in {"down", "rebuild", "up", "reset"}
    /\ file \in [Events -> 0..Nowhere]
    /\ torn \in BOOLEAN /\ db \in BOOLEAN
    /\ at \in [Events -> Places]
    /\ index \in [Events -> Nat]
    /\ sqlite \in BOOLEAN /\ indexReady \in BOOLEAN
    /\ indexPending \in Nat
    /\ todo \subseteq Events /\ raced \subseteq Events
    /\ q \in Queries
    /\ crashes \in 0..MaxCrashes /\ resets \in 0..MaxResets

Init ==
    /\ phase = "down"
    /\ file = [e \in Events |-> Nowhere] /\ torn = FALSE
    /\ at = [e \in Events |-> "new"]
    /\ db = FALSE /\ index = [e \in Events |-> 0]
    /\ sqlite = FALSE /\ indexReady = FALSE /\ indexPending = 0
    /\ todo = {} /\ raced = {}
    /\ q = NoQuery
    /\ crashes = 0 /\ resets = 0

----------------------------------------------------------------------------
(* insertBatchLocked: the sqlite3 command succeeds, or fails with part of  *)
(* the events inserted.                                                    *)

WithRows(S) == [e \in Events |-> index[e] + (IF e \in S THEN 1 ELSE 0)]

inserted(S) == db /\ index' = WithRows(S)

insertFailed(S) == \E T \in SUBSET S : (T # {} => db) /\ index' = WithRows(T)

(* History: a query that is past its first check does not notice that the  *)
(* index is given up now.                                                  *)
Spoil == IF q.pc \in {"pending", "sqlite"}
           THEN q' = [q EXCEPT !.spoiled = TRUE] ELSE UNCHANGED q

(* insertBatch of a writer's event or of the worker's batch; where the     *)
(* events are afterwards says whether it failed.                           *)
insertBatch(S, ok, failed) ==
    /\ phase # "reset"
    /\ \/ inserted(S) /\ at' = [e \in Events |-> IF e \in S THEN ok ELSE at[e]]
       \/ insertFailed(S) /\ at' = [e \in Events |-> IF e \in S THEN failed ELSE at[e]]
    /\ UNCHANGED <<phase, file, torn, db, sqlite, indexReady, indexPending, todo,
                   q, crashes, resets, raced>>

Move(from, to) == at' = [e \in Events |-> IF at[e] = from THEN to ELSE at[e]]

----------------------------------------------------------------------------
(* Write. *)

(* rotateIfNeeded: audit.jsonl.i becomes audit.jsonl.(i+1), from the       *)
(* oldest down to number stop, where an error ends the loop; 0 is a        *)
(* complete rotation, Nowhere is none. The oldest file is deleted first.   *)
rotateIfNeeded(stop) ==
    [e \in Events |-> IF file[e] \in stop..auditRotateFiles THEN file[e] + 1
                      ELSE file[e]]

RotationDue(stop) == stop # Nowhere => \E e \in Events : file[e] = 0

IsNext(e) == at[e] = "new" /\ \A f \in Events : f < e => at[f] # "new"

(* Write, under mu: rotate, open, append. The encoder's error is ignored,  *)
(* so an event of which nothing or only a part was written goes on to the  *)
(* index like any other; a line appended to an incomplete one is lost.     *)
Append(e, stop, written) ==
    /\ phase = "up" /\ IsNext(e) /\ RotationDue(stop)
    /\ LET torn1 == torn /\ stop # 0
       IN  /\ file' = [rotateIfNeeded(stop) EXCEPT ![e] =
                         IF written = "line" /\ ~torn1 THEN 0 ELSE Nowhere]
           /\ torn' = CASE written = "line" -> FALSE
                        [] written = "part" -> TRUE
                        [] OTHER -> torn1
    /\ at' = [at EXCEPT ![e] = IF sqlite THEN "added" ELSE "done"]
    /\ UNCHANGED <<phase, db, index, sqlite, indexReady, indexPending, todo, q,
                   crashes, resets, raced>>

(* The file cannot be opened: the event is dropped. *)
AppendUnopened(e, stop) ==
    /\ phase = "up" /\ IsNext(e) /\ RotationDue(stop)
    /\ file' = rotateIfNeeded(stop)
    /\ torn' = (torn /\ stop # 0)
    /\ at' = [at EXCEPT ![e] = "past"]
    /\ UNCHANGED <<phase, db, index, sqlite, indexReady, indexPending, todo, q,
                   crashes, resets, raced>>

(* indexPending.Add(1), after mu has been released. *)
Count(e) ==
    /\ at[e] = "added"
    /\ indexPending' = indexPending + 1
    /\ at' = [at EXCEPT ![e] = "counted"]
    /\ UNCHANGED <<phase, file, torn, db, index, sqlite, indexReady, todo, q,
                   crashes, resets, raced>>

SendUncounted(e) ==
    /\ at[e] = "added"
    /\ at' = [at EXCEPT ![e] = IF Cardinality(In({"queued"})) < QueueCap
                                 THEN "queued" ELSE "sync"]
    /\ UNCHANGED <<phase, file, torn, db, index, sqlite, indexReady,
                   indexPending, todo, q, crashes, resets, raced>>

(* The channel takes the event, or the writer will insert it itself. *)
Send(e) ==
    /\ at[e] = "counted"
    /\ at' = [at EXCEPT ![e] = IF Cardinality(In({"queued"})) < QueueCap
                                 THEN "queued" ELSE "sync"]
    /\ UNCHANGED <<phase, file, torn, db, index, sqlite, indexReady,
                   indexPending, todo, q, crashes, resets, raced>>

SyncInsert(e) == at[e] = "sync" /\ insertBatch({e}, "synced", "unsynced")

(* The writer notes the failure. *)
SyncFailed(e) ==
    /\ at[e] = "unsynced"
    /\ indexReady' = FALSE /\ Spoil
    /\ at' = [at EXCEPT ![e] = "synced"]
    /\ UNCHANGED <<phase, file, torn, db, index, sqlite, indexPending, todo,
                   crashes, resets, raced>>

SyncDoneUncounted(e) ==
    /\ at[e] = "synced"
    /\ at' = [at EXCEPT ![e] = "done"]
    /\ UNCHANGED <<phase, file, torn, db, index, sqlite, indexReady,
                   indexPending, todo, q, crashes, resets, raced>>

SyncDone(e) ==
    /\ at[e] = "synced"
    /\ indexPending' = indexPending - 1
    /\ at' = [at EXCEPT ![e] = "done"]
    /\ UNCHANGED <<phase, file, torn, db, index, sqlite, indexReady, todo, q,
                   crashes, resets, raced>>

----------------------------------------------------------------------------
(* indexWorker. *)

Collect(e) ==
    /\ at[e] = "queued" /\ In({"unflushed", "flushed"}) = {}
    /\ Cardinality(In({"batch"})) < BatchMax
    /\ at' = [at EXCEPT ![e] = "batch"]
    /\ UNCHANGED <<phase, file, torn, db, index, sqlite, indexReady,
                   indexPending, todo, q, crashes, resets, raced>>

(* flush, on a tick or on a full batch, ... *)
Flush == In({"batch"}) # {} /\ insertBatch(In({"batch"}), "flushed", "unflushed")

(* ... which notes a failure, ... *)
FlushFailed ==
    /\ In({"unflushed"}) # {}
    /\ indexReady' = FALSE /\ Spoil
    /\ Move("unflushed", "flushed")
    /\ UNCHANGED <<phase, file, torn, db, index, sqlite, indexPending, todo,
                   crashes, resets, raced>>

FlushDoneFullBatch ==
    /\ In({"flushed"}) # {}
    /\ indexPending' = indexPending - BatchMax
    /\ Move("flushed", "done")
    /\ UNCHANGED <<phase, file, torn, db, index, sqlite, indexReady, todo, q,
                   crashes, resets, raced>>

(* ... and its last statements. *)
FlushDone ==
    /\ In({"flushed"}) # {}
    /\ indexPending' = indexPending - Cardinality(In({"flushed"}))
    /\ Move("flushed", "done")
    /\ UNCHANGED <<phase, file, torn, db, index, sqlite, indexReady, todo, q,
                   crashes, resets, raced>>

----------------------------------------------------------------------------
(* NewAuditLog and rebuildIfNeeded: an index without rows is built from    *)
(* the files, any other is taken as it is.                                 *)

StartUnindexed ==
    /\ phase = "down"
    /\ phase' = "up" /\ sqlite' = FALSE
    /\ UNCHANGED <<file, torn, at, db, index, indexReady, indexPending, todo,
                   q, crashes, resets, raced>>

AlwaysRebuild == TRUE

rebuildIfNeeded == \A e \in Events : index[e] = 0

StartIndexed ==
    /\ phase = "down"
    /\ db' = TRUE /\ sqlite' = TRUE
    /\ IF rebuildIfNeeded
         THEN phase' = "rebuild" /\ todo' = Readable /\ UNCHANGED indexReady
         ELSE phase' = "up" /\ indexReady' = TRUE /\ UNCHANGED todo
    /\ UNCHANGED <<file, torn, at, index, indexPending, q, crashes, resets,
                   raced>>

(* The next transaction of rebuildFromFilesLocked: the oldest events. *)
RebuildBatch == {e \in todo : Cardinality({f \in todo : f < e}) < RebuildMax}

RebuildInsert ==
    /\ phase \in {"rebuild", "reset"} /\ todo # {}
    /\ inserted(RebuildBatch)
    /\ todo' = todo \ RebuildBatch
    /\ UNCHANGED <<phase, file, torn, at, db, sqlite, indexReady, indexPending,
                   q, crashes, resets, raced>>

(* NewAuditLog gives the index up; ResetIndex returns the error. *)
RebuildFails ==
    /\ phase \in {"rebuild", "reset"} /\ todo # {}
    /\ insertFailed(RebuildBatch) /\ Spoil
    /\ todo' = {}
    /\ phase' = "up"
    /\ sqlite' = (phase = "reset")
    /\ UNCHANGED <<file, torn, at, db, indexReady, indexPending, crashes,
                   resets, raced>>

RebuildDone ==
    /\ phase \in {"rebuild", "reset"} /\ todo = {}
    /\ phase' = "up" /\ indexReady' = TRUE
    /\ UNCHANGED <<file, torn, at, db, index, sqlite, indexPending, todo, q,
                   crashes, resets, raced>>

(* ResetIndex holds mu and indexMu to its end. The index is removed, ... *)
ResetIndex ==
    /\ phase = "up" /\ sqlite
    /\ resets < MaxResets /\ resets' = resets + 1
    /\ phase' = "reset"
    /\ db' = TRUE /\ index' = [e \in Events |-> 0]
    /\ indexReady' = FALSE
    /\ todo' = Readable
    /\ raced' = raced \cup InFlight
    /\ UNCHANGED <<file, torn, at, sqlite, indexPending, q, crashes>>

(* ... or removing it fails, early or late, or creating it anew fails.     *)
ResetFails ==
    /\ phase = "up" /\ sqlite
    /\ resets < MaxResets /\ resets' = resets + 1
    /\ \/ UNCHANGED <<db, index, indexReady>>
       \/ /\ db' = FALSE /\ index' = [e \in Events |-> 0]
          /\ indexReady' \in {indexReady, FALSE}
    /\ IF indexReady' # indexReady THEN Spoil ELSE UNCHANGED q
    /\ UNCHANGED <<phase, file, torn, at, sqlite, indexPending, todo, crashes,
                   raced>>

----------------------------------------------------------------------------
(* Query. *)

QueryReady ==
    /\ phase \in {"up", "reset"} /\ q.pc = "idle"
    /\ q' = [NoQuery EXCEPT !.pc = IF sqlite /\ indexReady THEN "pending"
                                   ELSE "files",
                            !.due = Returned]
    /\ UNCHANGED <<phase, file, torn, at, db, index, sqlite, indexReady,
                   indexPending, todo, crashes, resets, raced>>

QueryAnyPending ==
    /\ q.pc = "pending"
    /\ q' = [q EXCEPT !.pc = "sqlite"]
    /\ UNCHANGED <<phase, file, torn, at, db, index, sqlite, indexReady,
                   indexPending, todo, crashes, resets, raced>>

QueryPending ==
    /\ q.pc = "pending"
    /\ q' = [q EXCEPT !.pc = IF indexPending = 0 THEN "sqlite" ELSE "files"]
    /\ UNCHANGED <<phase, file, torn, at, db, index, sqlite, indexReady,
                   indexPending, todo, crashes, resets, raced>>

(* querySQLite, under indexMu. *)
QuerySqlite ==
    /\ q.pc = "sqlite" /\ phase = "up" /\ db
    /\ q' = [q EXCEPT !.pc = "answered",
                      !.missed = {e \in q.due \cap Readable : index[e] = 0}]
    /\ UNCHANGED <<phase, file, torn, at, db, index, sqlite, indexReady,
                   indexPending, todo, crashes, resets, raced>>

QuerySqliteFails ==
    /\ q.pc = "sqlite" /\ phase = "up"
    /\ q' = [q EXCEPT !.pc = "failed"]
    /\ UNCHANGED <<phase, file, torn, at, db, index, sqlite, indexReady,
                   indexPending, todo, crashes, resets, raced>>

(* The reader notes the failure and turns to the files. *)
QueryGivesUp ==
    /\ q.pc = "failed"
    /\ indexReady' = FALSE
    /\ q' = [q EXCEPT !.pc = "files"]
    /\ UNCHANGED <<phase, file, torn, at, db, index, sqlite, indexPending,
                   todo, crashes, resets, raced>>

(* The order in which queryFiles reads: file by file from the newest, and  *)
(* each file from its end.                                                 *)
OldestFileFirst(e, f) == file[e] > file[f] \/ (file[e] = file[f] /\ e > f)

ReadBefore(e, f) == file[e] < file[f] \/ (file[e] = file[f] /\ e > f)

(* What queryFiles finds before it has read QueryMax events. *)
queryFiles ==
    {e \in Readable : Cardinality({f \in Readable : ReadBefore(f, e)}) < QueryMax}

QueryFiles ==
    /\ q.pc = "files" /\ phase = "up"
    /\ q' = NoQuery
    /\ UNCHANGED <<phase, file, torn, at, db, index, sqlite, indexReady,
                   indexPending, todo, crashes, resets, raced>>

QueryEnd ==
    /\ q.pc = "answered"
    /\ q' = NoQuery
    /\ UNCHANGED <<phase, file, torn, at, db, index, sqlite, indexReady,
                   indexPending, todo, crashes, resets, raced>>

----------------------------------------------------------------------------
(* The process stops, at any moment and without flushing: nothing closes   *)
(* indexCh. What was committed to the files and to SQLite stays.           *)
Crash ==
    /\ phase # "down" /\ crashes < MaxCrashes
    /\ crashes' = crashes + 1
    /\ phase' = "down"
    /\ at' = [e \in Events |-> IF at[e] = "new" THEN "new" ELSE "past"]
    /\ sqlite' = FALSE /\ indexReady' = FALSE /\ indexPending' = 0
    /\ todo' = {}
    /\ q' = NoQuery
    /\ UNCHANGED <<file, torn, db, index, resets, raced>>

Writer(e) == Count(e) \/ Send(e) \/ SyncInsert(e) \/ SyncFailed(e) \/ SyncDone(e)
Worker == (\E e \in Events : Collect(e)) \/ Flush \/ FlushFailed \/ FlushDone
Rebuilder == RebuildInsert \/ RebuildFails \/ RebuildDone
Reader == \/ QueryReady \/ QueryPending \/ QuerySqlite \/ QuerySqliteFails
          \/ QueryGivesUp \/ QueryFiles \/ QueryEnd

Next ==
    \/ \E e \in Events, stop \in 0..Nowhere, w \in {"line", "part", "nothing"} :
         Append(e, stop, w)
    \/ \E e \in Events, stop \in 0..Nowhere : AppendUnopened(e, stop)
    \/ \E e \in Events : Writer(e)
    \/ Worker
    \/ StartUnindexed \/ StartIndexed
    \/ Rebuilder
    \/ ResetIndex \/ ResetFails
    \/ Reader
    \/ Crash

Spec == Init /\ [][Next]_vars

(* A goroutine that can run does run, sqlite3 commands come to an end and  *)
(* the worker's ticker keeps ticking; nobody has to write, query or start. *)
FairSpec ==
    /\ Spec
    /\ \A e \in Events : WF_vars(Writer(e))
    /\ WF_vars(Worker) /\ WF_vars(Rebuilder)

----------------------------------------------------------------------------
(* indexPending is exactly the number of events between their Add(1) and   *)
(* their Add(-1), wherever they are: channel, batch or synchronous insert  *)
(* (audit.go:97, 107, 186). A lost decrement would switch the index off    *)
(* for good, a lost increment would let queries read an index that lags.   *)
PendingCounts == indexPending = Cardinality(Counted)

(* Read your writes through the index (audit.go:124-127): an answer from   *)
(* SQLite contains every event of this process that is still in the files  *)
(* and whose Write had returned when the query began, unless the index was *)
(* given up while the query was already past its first check: indexReady   *)
(* cleared after a failed insertion (105, 184) or a failed restore. The    *)
(* command itself may have failed before that check, since Query looks at  *)
(* indexReady and at indexPending one after the other and a failure is     *)
(* noted between: 127 is weaker than its comment by just this. A failure   *)
(* not noted yet cannot reach a query: its event is still counted.         *)
FreshIndexedAnswer == q.pc = "answered" => q.missed = {} \/ q.spoiled

(* What the comment at audit.go:124 claims without these reservations: an  *)
(* index that queries would use now holds every event of the files.        *)
UsableIndexComplete ==
    phase = "up" /\ sqlite /\ indexReady /\ indexPending = 0 /\ In({"added"}) = {}
      => \A e \in Readable : index[e] > 0

(* Only a backup restore that rebuilds the index while events are in       *)
(* flight can list an event twice; a start never does (audit.go:214).      *)
OnlyRacedTwice == \A e \in Events : index[e] > 1 => e \in raced

(* The files keep the order of the events through every rotation, also one *)
(* that fails half way: reading newest first up to the limit never returns *)
(* an event while leaving out a newer one (audit.go:377-392, 447-454).     *)
NewestFirst == \A e \in queryFiles, f \in Readable : f > e => f \in queryFiles

(* The counter comes back to zero after a burst of writes, so that the     *)
(* index is used again (audit.go:127).                                     *)
PendingDrains == indexPending # 0 ~> indexPending = 0
=============================================================================
