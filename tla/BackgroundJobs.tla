---------------------------- MODULE BackgroundJobs ----------------------------
(***************************************************************************)
(* The agent's background jobs: the JobManager of internal/agent/jobs.go,  *)
(* the handler that starts jobs (internal/agent/server.go) and the job     *)
(* bodies it starts: the APT actions of internal/aptadmin and Docker's     *)
(* image build.                                                            *)
(*                                                                         *)
(* A job passes through the hands of three actors: the HTTP handler stamps *)
(* it with its creation time BEFORE it takes the manager's mutex and       *)
(* inserts it afterwards; the goroutine the handler spawns reports         *)
(* "running", executes the job's commands and reports the result; and any  *)
(* later handler may prune the table while the goroutine is at work.       *)
(*                                                                         *)
(* A job's identity is its creation stamp: rand.Read gives every job       *)
(* another id and CreatedAt orders them, and the table only ever compares  *)
(* ids for equality and creation times for order.                          *)
(***************************************************************************)
EXTENDS Naturals, FiniteSets, Sequences

CONSTANTS
    MaxStarts,          \* bound: jobs submitted in one behaviour
    JobKinds,           \* the kinds of job the clients ask for
    maxBackgroundJobs,  \* rows kept before a new job prunes the table
    MaxRestarts         \* bound: restarts of the agent process

Kinds == {"apt.download", "apt.upgrade", "apt.install", "apt.remove",
          "docker.image.build"}

ASSUME JobsAssumption ==
    /\ MaxStarts \in Nat
    /\ JobKinds \subseteq Kinds
    /\ maxBackgroundJobs \in Nat \ {0}
    /\ MaxRestarts \in Nat

Ids == 1..MaxStarts

VARIABLES
    stamp,     \* creation stamps handed out so far
    kind,      \* [Ids -> Kinds], of the jobs that were stamped
    status,    \* JobManager.jobs: [Ids -> Status], "absent" = no such row
    pc,        \* where the handler, then the goroutine, of a job is
    at,        \* the command of the job body that runs now
    result,    \* what the job body returned
    restarts   \* restarts of the agent so far

vars == <<stamp, kind, status, pc, at, result, restarts>>

Status == {"absent", "queued", "running", "success", "failed"}
Places == {"idle", "stamped", "aborted", "spawned", "fn", "repair",
           "returned", "done", "dead"}

Table    == {i \in Ids : status[i] # "absent"}
Active   == {i \in Ids : status[i] \in {"queued", "running"}}
Finished == {i \in Ids : status[i] \in {"success", "failed"}}

(***************************************************************************)
(* The bodies: the commands of each job, in order. Every one can fail, and *)
(* every one runs under a context with a deadline.                         *)
(***************************************************************************)
Download      == <<"check", "update", "fetch">>
Upgrade       == <<"check", "snapshot", "audit", "update", "fetch", "apply">>
packageAction == <<"check", "snapshot", "apply">>
BuildImage    == <<"check", "build">>

Body(k) == CASE k = "apt.download"       -> Download
             [] k = "apt.upgrade"        -> Upgrade
             [] k = "docker.image.build" -> BuildImage
             [] OTHER                    -> packageAction

(* A failed dist-upgrade is followed by dpkg --configure -a and apt-get -f. *)
NeedsRepair(id) == kind[id] = "apt.upgrade" /\ Upgrade[at[id]] = "apply"

TypeOK ==
    /\ stamp \in 0..MaxStarts
    /\ kind \in [Ids -> Kinds]
    /\ status \in [Ids -> Status]
    /\ pc \in [Ids -> Places]
    /\ at \in [Ids -> 0..6]
    /\ result \in [Ids -> {"none", "ok", "err"}]
    /\ restarts \in 0..MaxRestarts

Init ==
    /\ stamp = 0
    /\ kind = [i \in Ids |-> "apt.download"]
    /\ status = [i \in Ids |-> "absent"]
    /\ pc = [i \in Ids |-> "idle"]
    /\ at = [i \in Ids |-> 0]
    /\ result = [i \in Ids |-> "none"]
    /\ restarts = 0

----------------------------------------------------------------------------
(* pruneLocked with a bug: it takes any row, or one row too few. *)

PrunedAnyStatus ==
    {i \in Table : /\ Cardinality(Table) >= maxBackgroundJobs
                   /\ Cardinality({k \in Table : k < i})
                        < Cardinality(Table) - maxBackgroundJobs + 1}

PrunedOneShort ==
    {i \in Finished : /\ Cardinality(Table) >= maxBackgroundJobs
                      /\ Cardinality({k \in Finished : k < i})
                           < Cardinality(Table) - maxBackgroundJobs}

(***************************************************************************)
(* pruneLocked: the rows it deletes, the oldest finished ones, as many as  *)
(* leave room for one more; a queued or running job is skipped.            *)
(***************************************************************************)
pruneLocked ==
    {i \in Finished : /\ Cardinality(Table) >= maxBackgroundJobs
                      /\ Cardinality({k \in Finished : k < i})
                           < Cardinality(Table) - maxBackgroundJobs + 1}

UpdateLosingFailure(id, st) ==
    status' = IF status[id] = "absent" \/ st = "failed" THEN status
              ELSE [status EXCEPT ![id] = st]

(* JobManager.update: a row that is gone stays gone. *)
update(id, st) ==
    status' = IF status[id] = "absent" THEN status
              ELSE [status EXCEPT ![id] = st]

----------------------------------------------------------------------------
(* jobStart and the first half of JobManager.Start: the job gets its id and *)
(* CreatedAt outside the mutex.                                             *)
Stamp(id, k) ==
    /\ pc[id] = "idle" /\ id = stamp + 1
    /\ stamp' = id
    /\ kind' = [kind EXCEPT ![id] = k]
    /\ pc' = [pc EXCEPT ![id] = "stamped"]
    /\ UNCHANGED <<status, at, result, restarts>>

(* The second half of Start: prune and insert under the mutex, then go. *)
Insert(id) ==
    /\ pc[id] = "stamped"
    /\ status' = [i \in Ids |-> IF i = id THEN "queued"
                                ELSE IF i \in pruneLocked THEN "absent"
                                ELSE status[i]]
    /\ pc' = [pc EXCEPT ![id] = "spawned"]
    /\ UNCHANGED <<stamp, kind, at, result, restarts>>

(* The goroutine's first update. *)
Begin(id) ==
    /\ pc[id] = "spawned"
    /\ update(id, "running")
    /\ pc' = [pc EXCEPT ![id] = "fn"]
    /\ at' = [at EXCEPT ![id] = 1]
    /\ UNCHANGED <<stamp, kind, result, restarts>>

StepPastTheEnd(id) ==
    /\ pc[id] = "fn"
    /\ IF at[id] <= Len(Body(kind[id]))
         THEN at' = [at EXCEPT ![id] = @ + 1] /\ UNCHANGED <<pc, result>>
         ELSE /\ pc' = [pc EXCEPT ![id] = "returned"]
              /\ result' = [result EXCEPT ![id] = "ok"]
              /\ UNCHANGED at
    /\ UNCHANGED <<stamp, kind, status, restarts>>

(* A command of the body succeeds; after the last one the body returns. *)
StepOk(id) ==
    /\ pc[id] = "fn"
    /\ IF at[id] < Len(Body(kind[id]))
         THEN at' = [at EXCEPT ![id] = @ + 1] /\ UNCHANGED <<pc, result>>
         ELSE /\ pc' = [pc EXCEPT ![id] = "returned"]
              /\ result' = [result EXCEPT ![id] = "ok"]
              /\ UNCHANGED at
    /\ UNCHANGED <<stamp, kind, status, restarts>>

(* A command fails or exceeds its deadline. *)
StepFails(id) ==
    /\ pc[id] = "fn"
    /\ pc' = [pc EXCEPT ![id] = IF NeedsRepair(id) THEN "repair" ELSE "returned"]
    /\ result' = [result EXCEPT ![id] = "err"]
    /\ UNCHANGED <<stamp, kind, status, at, restarts>>

(* The repair commands' own errors are ignored. *)
Repair(id) ==
    /\ pc[id] = "repair"
    /\ pc' = [pc EXCEPT ![id] = "returned"]
    /\ UNCHANGED <<stamp, kind, status, at, result, restarts>>

(* The goroutine's last update. *)
Finish(id) ==
    /\ pc[id] = "returned"
    /\ update(id, IF result[id] = "ok" THEN "success" ELSE "failed")
    /\ pc' = [pc EXCEPT ![id] = "done"]
    /\ at' = [at EXCEPT ![id] = 0]
    /\ result' = [result EXCEPT ![id] = "none"]
    /\ UNCHANGED <<stamp, kind, restarts>>

(* The agent process restarts: the map and every goroutine are gone. *)
Restart ==
    /\ restarts < MaxRestarts
    /\ restarts' = restarts + 1
    /\ status' = [i \in Ids |-> "absent"]
    /\ pc' = [i \in Ids |-> CASE pc[i] = "idle" -> "idle"
                              [] pc[i] \in {"stamped", "aborted"} -> "aborted"
                              [] OTHER -> "dead"]
    /\ at' = [i \in Ids |-> 0]
    /\ result' = [i \in Ids |-> "none"]
    /\ UNCHANGED <<stamp, kind>>

(* What the goroutine of a job does next. *)
Work(id) == Begin(id) \/ StepOk(id) \/ StepFails(id) \/ Repair(id) \/ Finish(id)

Next ==
    \/ \E id \in Ids, k \in JobKinds : Stamp(id, k)
    \/ \E id \in Ids : Insert(id)
    \/ \E id \in Ids : Begin(id)
    \/ \E id \in Ids : StepOk(id)
    \/ \E id \in Ids : StepFails(id)
    \/ \E id \in Ids : Repair(id)
    \/ \E id \in Ids : Finish(id)
    \/ Restart

Spec == Init /\ [][Next]_vars

(* Every command has a deadline and the Go scheduler runs every goroutine, *)
(* so a spawned goroutine keeps moving; nothing makes a client submit.     *)
FairSpec == Spec /\ \A id \in Ids : WF_vars(Work(id))

----------------------------------------------------------------------------
(* A goroutine that is still at work finds its row in the table, with the  *)
(* status its progress says: pruning by other handlers (jobs.go:105) never *)
(* takes the row of an unfinished job, so no result is dropped by update.  *)
RunningJobTracked ==
    \A i \in Ids :
        /\ pc[i] = "spawned" => status[i] = "queued"
        /\ pc[i] \in {"fn", "repair", "returned"} => status[i] = "running"
        /\ status[i] \in {"queued", "running"}
             => pc[i] \in {"spawned", "fn", "repair", "returned"}

(* The table outgrows maxBackgroundJobs only by a job that finds every      *)
(* other row unfinished: whenever a submission makes the table larger, the  *)
(* result is within the limit or consists of active jobs alone (jobs.go:99).*)
TableBound ==
    [][Cardinality(Table') > Cardinality(Table)
         => Cardinality(Table') <= maxBackgroundJobs \/ Table' = Active']_vars

(* The table implements JobLedger: rows are forgotten only oldest-finished *)
(* first, only from a full table or by a restart, and a job once forgotten *)
(* never comes back, however late its goroutine reports (jobs.go:83).      *)
LedgerOf ==
    [i \in Ids |-> IF pc[i] \in {"idle", "stamped", "aborted"} THEN "none"
                   ELSE IF status[i] = "absent" THEN "forgotten"
                   ELSE status[i]]
Ledger == INSTANCE JobLedger WITH Capacity <- maxBackgroundJobs,
                                  ledger <- LedgerOf
ImplementsLedger == Ledger!LedgerSpec

(* A queued job gets its final status, unless the agent restarts: the      *)
(* panel's progress window, which polls the job, always comes to an end.   *)
EveryJobFinishes ==
    \A i \in Ids :
        status[i] = "queued" ~> status[i] \in {"success", "failed", "absent"}
=============================================================================
