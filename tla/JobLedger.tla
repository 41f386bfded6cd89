------------------------------ MODULE JobLedger ------------------------------
(***************************************************************************)
(* What the agent's background-job table promises to the panel, without    *)
(* goroutines, locks or the jobs' own commands: a submitted job is queued, *)
(* then running, then success or failed; a row may only be forgotten when  *)
(* its job is over, oldest first, to make room in a full table, or because *)
(* the agent process restarted and lost the whole table.                   *)
(*                                                                         *)
(* BackgroundJobs implements this specification.                           *)
(***************************************************************************)
EXTENDS Naturals, FiniteSets

CONSTANTS
    Ids,        \* job identities, ordered by creation time
    Capacity    \* rows kept before the table is pruned

VARIABLE ledger \* [Ids -> LedgerStatus]

LedgerStatus ==
    {"none", "queued", "running", "success", "failed", "forgotten"}

Over == {"success", "failed"}
Rows == {i \in Ids : ledger[i] \in {"queued", "running"} \cup Over}
Closed == {i \in Ids : ledger[i] \in Over}

LedgerInit == ledger = [i \in Ids |-> "none"]

(* The rows F that one submission makes room with. *)
MayForget(F) ==
    /\ F \subseteq Closed
    /\ F # {} => Cardinality(Rows) >= Capacity
    /\ \A f \in F, kept \in Closed \ F : f < kept

Submit(id) ==
    /\ ledger[id] = "none"
    /\ \E F \in SUBSET Ids :
         /\ MayForget(F)
         /\ ledger' = [i \in Ids |-> IF i = id THEN "queued"
                                     ELSE IF i \in F THEN "forgotten"
                                     ELSE ledger[i]]

Run(id) ==
    /\ ledger[id] = "queued"
    /\ ledger' = [ledger EXCEPT ![id] = "running"]

Close(id) ==
    /\ ledger[id] = "running"
    /\ \E r \in Over : ledger' = [ledger EXCEPT ![id] = r]

LoseAll ==
    ledger' = [i \in Ids |-> IF ledger[i] = "none" THEN "none" ELSE "forgotten"]

LedgerNext ==
    \/ \E id \in Ids : Submit(id) \/ Run(id) \/ Close(id)
    \/ LoseAll

LedgerSpec == LedgerInit /\ [][LedgerNext]_ledger
=============================================================================
