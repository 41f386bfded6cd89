------------------------ MODULE BackgroundJobs_proofs ------------------------
(***************************************************************************)
(* Proofs about BackgroundJobs for every number of jobs, every table size  *)
(* and every number of restarts: the job table is well typed, tracks every *)
(* unfinished job, and implements JobLedger.                               *)
(***************************************************************************)
EXTENDS BackgroundJobs, FiniteSetTheorems, WellFoundedInduction, TLAPS

(* Every body has between one and six commands. *)
LEMMA BodyLength == \A k \in Kinds : Len(Body(k)) \in 1..6
  BY DEF Body, Download, Upgrade, packageAction, BuildImage, Kinds

(* A finished row belongs to a goroutine that has ended. *)
FinishedRows == \A i \in Ids : status[i] \in {"success", "failed"} => pc[i] = "done"

(* The inductive invariant: types, and the agreement between a goroutine's *)
(* progress and its row in both directions. The second direction for       *)
(* finished rows is what keeps a pruned row from being read as a job that  *)
(* was never submitted.                                                    *)
JobsInv == TypeOK /\ RunningJobTracked /\ FinishedRows

LEMMA InitJobsInv == Init => JobsInv
  BY JobsAssumption DEF Init, JobsInv, TypeOK, RunningJobTracked, FinishedRows, Ids, Status,
     Places, Kinds

LEMMA NextTypeOK == TypeOK /\ [Next]_vars => TypeOK'
<1> SUFFICES ASSUME TypeOK, [Next]_vars PROVE TypeOK'
  OBVIOUS
<1> USE JobsAssumption
<1>1. ASSUME NEW id \in Ids, NEW k \in JobKinds, Stamp(id, k) PROVE TypeOK'
  BY <1>1 DEF TypeOK, Stamp, Ids, Places, Kinds
<1>2. ASSUME NEW id \in Ids, Insert(id) PROVE TypeOK'
  BY <1>2 DEF TypeOK, Insert, Places, Status
<1>3. ASSUME NEW id \in Ids, Begin(id) PROVE TypeOK'
  BY <1>3 DEF TypeOK, Begin, update, Places, Status
<1>4. ASSUME NEW id \in Ids, StepOk(id) PROVE TypeOK'
  <2>1. at[id] < Len(Body(kind[id])) => at[id] + 1 \in 0..6
    <3>1. kind[id] \in Kinds /\ at[id] \in 0..6
      BY DEF TypeOK
    <3>2. Len(Body(kind[id])) \in 1..6
      BY <3>1, BodyLength
    <3>3. \A a \in 0..6, n \in 1..6 : a < n => a + 1 \in 0..6
      OBVIOUS
    <3> QED BY <3>1, <3>2, <3>3, Zenon
  <2> QED BY <1>4, <2>1 DEF TypeOK, StepOk, Places
<1>5. ASSUME NEW id \in Ids, StepFails(id) PROVE TypeOK'
  BY <1>5 DEF TypeOK, StepFails, Places
<1>6. ASSUME NEW id \in Ids, Repair(id) PROVE TypeOK'
  BY <1>6 DEF TypeOK, Repair, Places
<1>7. ASSUME NEW id \in Ids, Finish(id) PROVE TypeOK'
  BY <1>7 DEF TypeOK, Finish, update, Places, Status
<1>8. CASE Restart
  BY <1>8 DEF TypeOK, Restart, Places, Status
<1>9. CASE UNCHANGED vars
  BY <1>9 DEF TypeOK, vars
<1> QED
  BY <1>1, <1>2, <1>3, <1>4, <1>5, <1>6, <1>7, <1>8, <1>9 DEF Next

(* Pruning only ever takes finished rows. *)
LEMMA PrunesFinished == pruneLocked \subseteq Finished
  BY DEF pruneLocked

LEMMA NextTracked ==
  JobsInv /\ [Next]_vars => RunningJobTracked' /\ FinishedRows'
<1> SUFFICES ASSUME JobsInv, [Next]_vars PROVE RunningJobTracked' /\ FinishedRows'
  OBVIOUS
<1> USE DEF JobsInv
<1>1. ASSUME NEW id \in Ids, NEW k \in JobKinds, Stamp(id, k)
      PROVE  RunningJobTracked' /\ FinishedRows'
  BY <1>1 DEF TypeOK, RunningJobTracked, FinishedRows, Stamp
<1>2. ASSUME NEW id \in Ids, Insert(id) PROVE RunningJobTracked' /\ FinishedRows'
  <2>1. \A i \in Ids : i \in pruneLocked => status[i] \in {"success", "failed"}
    BY PrunesFinished DEF Finished
  <2> QED
    BY <1>2, <2>1 DEF TypeOK, RunningJobTracked, FinishedRows, Insert
<1>3. ASSUME NEW id \in Ids, Begin(id) PROVE RunningJobTracked' /\ FinishedRows'
  BY <1>3 DEF TypeOK, RunningJobTracked, FinishedRows, Begin, update
<1>4. ASSUME NEW id \in Ids, StepOk(id) PROVE RunningJobTracked' /\ FinishedRows'
  BY <1>4 DEF TypeOK, RunningJobTracked, FinishedRows, StepOk
<1>5. ASSUME NEW id \in Ids, StepFails(id) PROVE RunningJobTracked' /\ FinishedRows'
  BY <1>5 DEF TypeOK, RunningJobTracked, FinishedRows, StepFails
<1>6. ASSUME NEW id \in Ids, Repair(id) PROVE RunningJobTracked' /\ FinishedRows'
  BY <1>6 DEF TypeOK, RunningJobTracked, FinishedRows, Repair
<1>7. ASSUME NEW id \in Ids, Finish(id) PROVE RunningJobTracked' /\ FinishedRows'
  BY <1>7 DEF TypeOK, RunningJobTracked, FinishedRows, Finish, update
<1>8. CASE Restart
  BY <1>8 DEF TypeOK, RunningJobTracked, FinishedRows, Restart
<1>9. CASE UNCHANGED vars
  BY <1>9 DEF RunningJobTracked, FinishedRows, vars
<1> QED
  BY <1>1, <1>2, <1>3, <1>4, <1>5, <1>6, <1>7, <1>8, <1>9 DEF Next

(* Type correctness of the job manager, for every instance. *)
THEOREM JobsTypeCorrect == Spec => []TypeOK
<1>1. Init => TypeOK
  BY InitJobsInv DEF JobsInv
<1> QED
  BY <1>1, NextTypeOK, PTL DEF Spec

(* No submission, however many, prunes the row of an unfinished job.       *)
THEOREM JobsTracked == Spec => []RunningJobTracked
<1>1. JobsInv /\ [Next]_vars => JobsInv'
  BY NextTypeOK, NextTracked DEF JobsInv
<1>2. JobsInv => RunningJobTracked
  BY DEF JobsInv
<1> QED
  BY InitJobsInv, <1>1, <1>2, PTL DEF Spec

----------------------------------------------------------------------------
(* Refinement: BackgroundJobs implements JobLedger.                        *)

LEMMA IdsFinite == IsFiniteSet(Ids)
  BY JobsAssumption, FS_Interval DEF Ids

(* A pruned row is older than every finished row that is kept: the         *)
(* finished rows before a kept older one would be among those before it.   *)
LEMMA PrunesOldest ==
  ASSUME TypeOK, NEW f \in pruneLocked, NEW g \in Finished \ pruneLocked
  PROVE  f < g
<1> DEFINE Older(i) == {k \in Finished : k < i}
<1>1. f \in Ids /\ g \in Ids /\ f \in Int /\ g \in Int /\ f # g
  BY PrunesFinished DEF Finished, Ids
<1>2. SUFFICES ASSUME g < f PROVE FALSE
  BY <1>1
<1>3. /\ Cardinality(Table) >= maxBackgroundJobs
      /\ Cardinality(Older(f)) < Cardinality(Table) - maxBackgroundJobs + 1
  BY DEF pruneLocked
<1>4. ~(Cardinality(Older(g)) < Cardinality(Table) - maxBackgroundJobs + 1)
  BY <1>3 DEF pruneLocked
<1>5. Older(g) \subseteq Older(f)
  BY <1>1, <1>2 DEF Finished, Ids
<1>6. IsFiniteSet(Older(f))
  BY IdsFinite, FS_Subset DEF Finished
<1>7. /\ Cardinality(Older(g)) <= Cardinality(Older(f))
      /\ Cardinality(Older(g)) \in Nat /\ Cardinality(Older(f)) \in Nat
  BY <1>5, <1>6, FS_Subset, FS_CardinalityType
<1>8. Cardinality(Table) \in Nat
  BY IdsFinite, FS_Subset, FS_CardinalityType DEF Table
<1> HIDE DEF Older
<1> QED
  BY <1>3, <1>4, <1>7, <1>8, JobsAssumption

LEMMA InitRefines == Init => Ledger!LedgerInit
  BY DEF Init, Ledger!LedgerInit, LedgerOf

(* Under the invariant the ledger shows the table row for row. *)
LEMMA LedgerRows ==
  ASSUME JobsInv
  PROVE  /\ \A i \in Ids : status[i] # "absent" => LedgerOf[i] = status[i]
         /\ Ledger!Closed = Finished
         /\ Ledger!Rows = Table
<1>1. \A i \in Ids : status[i] # "absent" => LedgerOf[i] = status[i]
  BY DEF JobsInv, TypeOK, RunningJobTracked, FinishedRows, LedgerOf, Status
<1>2. \A i \in Ids : status[i] = "absent" => LedgerOf[i] \in {"none", "forgotten"}
  BY DEF LedgerOf
<1>3. Ledger!Closed = Finished
  BY <1>1, <1>2 DEF Ledger!Closed, Ledger!Over, Finished
<1>4. Ledger!Rows = Table
  BY <1>1, <1>2 DEF JobsInv, TypeOK, Status, Ledger!Rows, Ledger!Over, Table
<1> QED
  BY <1>1, <1>3, <1>4

(* One step of the manager is one step of the ledger, or leaves it alone.  *)
LEMMA StepRefines ==
  ASSUME JobsInv, JobsInv', [Next]_vars
  PROVE  [Ledger!LedgerNext]_LedgerOf
<1> USE DEF Ledger!LedgerNext
<1>1. ASSUME NEW id \in Ids, NEW k \in JobKinds, Stamp(id, k)
      PROVE  LedgerOf' = LedgerOf
  BY <1>1 DEF Stamp, LedgerOf, JobsInv, TypeOK
<1>2. ASSUME NEW id \in Ids, Insert(id) PROVE Ledger!Submit(id)
  <2>1. LedgerOf[id] = "none"
    BY <1>2 DEF Insert, LedgerOf
  <2>2. Ledger!MayForget(pruneLocked)
    <3>1. pruneLocked # {} => Cardinality(Table) >= maxBackgroundJobs
      BY DEF pruneLocked
    <3>2. \A f \in pruneLocked, g \in Finished \ pruneLocked : f < g
      BY PrunesOldest DEF JobsInv
    <3>3. Ledger!Cardinality(Table) = Cardinality(Table)
      BY DEF Ledger!Cardinality, Cardinality
    <3> QED
      BY <3>1, <3>2, <3>3, PrunesFinished, LedgerRows DEF Ledger!MayForget
  <2>3. LedgerOf' = [i \in Ids |-> IF i = id THEN "queued"
                                   ELSE IF i \in pruneLocked THEN "forgotten"
                                   ELSE LedgerOf[i]]
    <3>1. \A i \in Ids : i \in pruneLocked => pc[i] = "done" /\ i # id
      BY <1>2, PrunesFinished DEF Finished, JobsInv, FinishedRows, Insert
    <3> QED
      BY <1>2, <3>1 DEF Insert, LedgerOf, JobsInv, TypeOK
  <2>4. pruneLocked \in SUBSET Ids
    BY DEF pruneLocked, Finished
  <2> QED
    BY <2>1, <2>2, <2>3, <2>4 DEF Ledger!Submit
<1>3. ASSUME NEW id \in Ids, Begin(id) PROVE Ledger!Run(id)
  BY <1>3 DEF Begin, update, Ledger!Run, LedgerOf, JobsInv, TypeOK, RunningJobTracked
<1>4. ASSUME NEW id \in Ids, StepOk(id) PROVE LedgerOf' = LedgerOf
  BY <1>4 DEF StepOk, LedgerOf, JobsInv, TypeOK
<1>5. ASSUME NEW id \in Ids, StepFails(id) PROVE LedgerOf' = LedgerOf
  BY <1>5 DEF StepFails, LedgerOf, JobsInv, TypeOK
<1>6. ASSUME NEW id \in Ids, Repair(id) PROVE LedgerOf' = LedgerOf
  BY <1>6 DEF Repair, LedgerOf, JobsInv, TypeOK
<1>7. ASSUME NEW id \in Ids, Finish(id) PROVE Ledger!Close(id)
  <2> DEFINE r == IF result[id] = "ok" THEN "success" ELSE "failed"
  <2>1. status[id] = "running" /\ pc[id] = "returned"
    BY <1>7 DEF Finish, JobsInv, RunningJobTracked
  <2>2. /\ status' = [status EXCEPT ![id] = r]
        /\ pc' = [pc EXCEPT ![id] = "done"]
    BY <1>7, <2>1 DEF Finish, update
  <2>3. LedgerOf[id] = "running"
    BY <2>1 DEF LedgerOf
  <2>4. r \in Ledger!Over
    BY DEF Ledger!Over
  <2> HIDE DEF r
  <2>5. r # "absent"
    BY <2>4 DEF Ledger!Over
  <2>6. LedgerOf' = [LedgerOf EXCEPT ![id] = r]
    BY <2>1, <2>2, <2>5 DEF LedgerOf, JobsInv, TypeOK
  <2> QED
    BY <2>3, <2>4, <2>6 DEF Ledger!Close
<1>8. ASSUME Restart PROVE Ledger!LoseAll
  BY <1>8 DEF Restart, Ledger!LoseAll, LedgerOf, JobsInv, TypeOK, Places, Status
<1>9. CASE UNCHANGED vars
  BY <1>9 DEF LedgerOf, vars
<1> QED
  BY <1>1, <1>2, <1>3, <1>4, <1>5, <1>6, <1>7, <1>8, <1>9 DEF Next

(* The job manager implements the abstract ledger, for every instance.     *)
THEOREM JobsImplementLedger == Spec => ImplementsLedger
<1>1. JobsInv /\ [Next]_vars => JobsInv'
  BY NextTypeOK, NextTracked DEF JobsInv
<1> QED
  BY InitJobsInv, InitRefines, StepRefines, <1>1, PTL
     DEF Spec, ImplementsLedger, Ledger!LedgerSpec

----------------------------------------------------------------------------
(* The bound of the table.                                                 *)

(* A set of naturals that is not empty has a smallest member.              *)
LEMMA Smallest ==
  ASSUME NEW S \in SUBSET Nat, S # {}
  PROVE  \E m \in S : \A n \in S : m <= n
<1> DEFINE R == OpToRel(<, Nat)
<1>1. PICK m \in S : \A n \in S : ~(<<n, m>> \in R)
  <2>1. IsWellFoundedOn(R, Nat)
    BY NatLessThanWellFounded
  <2> HIDE DEF R
  <2> QED BY <2>1, WFMin
<1>2. \A n \in S : ~(n < m)
  BY <1>1 DEF OpToRel
<1> HIDE DEF R
<1> QED BY <1>2

(* A full table with a finished row gives one up.                          *)
LEMMA PruneMakesRoom ==
  ASSUME TypeOK, pruneLocked = {}, Finished # {}
  PROVE  Cardinality(Table) < maxBackgroundJobs
<1>1. PICK m \in Finished : \A n \in Finished : m <= n
  <2>1. Finished \in SUBSET Nat
    BY DEF Finished, Ids
  <2> QED BY <2>1, Smallest
<1>2. {k \in Finished : k < m} = {}
  BY <1>1 DEF Finished, Ids
<1>3. Cardinality({k \in Finished : k < m}) = 0
  BY <1>2, FS_EmptySet
<1>4. Cardinality(Table) \in Nat
  BY IdsFinite, FS_Subset, FS_CardinalityType DEF Table
<1> QED BY <1>1, <1>3, <1>4, JobsAssumption DEF pruneLocked

(* Nothing but a submission makes the table larger.                        *)
LEMMA OnlyInsertGrows ==
  ASSUME JobsInv, [Next]_vars, \A id \in Ids : ~Insert(id)
  PROVE  Cardinality(Table') <= Cardinality(Table)
<1>1. Table' \subseteq Table
  <2>1. ASSUME NEW id \in Ids, NEW st \in Status \ {"absent"}, update(id, st)
        PROVE  Table' \subseteq Table
    BY <2>1 DEF update, Table, JobsInv, TypeOK
  <2>2. ASSUME NEW id \in Ids, Begin(id) PROVE Table' \subseteq Table
    BY <2>1, <2>2 DEF Begin, Status
  <2>3. ASSUME NEW id \in Ids, Finish(id) PROVE Table' \subseteq Table
    BY <2>1, <2>3 DEF Finish, Status
  <2>4. CASE Restart
    BY <2>4 DEF Restart, Table
  <2>5. ASSUME status' = status PROVE Table' \subseteq Table
    BY <2>5 DEF Table
  <2> QED
    BY <2>2, <2>3, <2>4, <2>5 DEF Next, Stamp, StepOk, StepFails, Repair, vars
<1>2. IsFiniteSet(Table)
  BY IdsFinite, FS_Subset DEF Table
<1> QED BY <1>1, <1>2, FS_Subset

(* A submission adds its own row to what pruning leaves.                   *)
LEMMA InsertKeepsBound ==
  ASSUME JobsInv, NEW id \in Ids, Insert(id),
         Cardinality(Table') > Cardinality(Table)
  PROVE  Cardinality(Table') <= maxBackgroundJobs \/ Table' = Active'
<1>1. status[id] = "absent" /\ id \notin Table
  BY DEF Insert, JobsInv, TypeOK, RunningJobTracked, FinishedRows, Status, Table
<1>2. Table' = (Table \ pruneLocked) \cup {id}
  BY <1>1 DEF Insert, Table, JobsInv, TypeOK, pruneLocked, Finished
<1>3. IsFiniteSet(Table) /\ Cardinality(Table) \in Nat
  BY IdsFinite, FS_Subset, FS_CardinalityType DEF Table
<1>4. pruneLocked = {}
  <2>1. SUFFICES ASSUME NEW p \in pruneLocked PROVE FALSE
    OBVIOUS
  <2>2. p \in Table
    BY DEF pruneLocked, Finished, Table
  <2>3. Cardinality(Table \ {p}) = Cardinality(Table) - 1 /\ IsFiniteSet(Table \ {p})
    BY <1>3, <2>2, FS_RemoveElement
  <2>4. Cardinality((Table \ {p}) \cup {id}) = Cardinality(Table) - 1 + 1
        /\ IsFiniteSet((Table \ {p}) \cup {id})
    BY <1>1, <2>3, FS_AddElement
  <2>5. Table' \subseteq (Table \ {p}) \cup {id}
    BY <1>2
  <2>6. Cardinality(Table') <= Cardinality(Table)
    BY <1>3, <2>4, <2>5, FS_Subset
  <2>7. Cardinality(Table') \in Nat
    BY <2>4, <2>5, FS_Subset, FS_CardinalityType
  <2> QED BY <1>3, <2>6, <2>7
<1>5. Cardinality(Table') = Cardinality(Table) + 1
  BY <1>1, <1>2, <1>3, <1>4, FS_AddElement
<1>6. CASE Finished = {}
  <2>1. \A i \in Table : status[i] \in {"queued", "running"}
    BY <1>6 DEF Table, Finished, JobsInv, TypeOK, Status
  <2> QED BY <1>4, <2>1 DEF Insert, Table, Active
<1>7. CASE Finished # {}
  <2>1. Cardinality(Table) < maxBackgroundJobs
    BY <1>4, <1>7, PruneMakesRoom DEF JobsInv
  <2> QED BY <1>3, <1>5, <2>1, JobsAssumption
<1> QED BY <1>6, <1>7

(* The table stays within its bound, for any size and any submissions: it  *)
(* grows past it only when every row is an unfinished job's.               *)
THEOREM JobsTableBound == Spec => TableBound
<1> DEFINE Bounded ==
      Cardinality(Table') > Cardinality(Table)
        => Cardinality(Table') <= maxBackgroundJobs \/ Table' = Active'
<1>1. JobsInv /\ [Next]_vars => JobsInv'
  BY NextTypeOK, NextTracked DEF JobsInv
<1>2. JobsInv /\ [Next]_vars => [Bounded]_vars
  <2> SUFFICES ASSUME JobsInv, [Next]_vars, Cardinality(Table') > Cardinality(Table)
               PROVE  Cardinality(Table') <= maxBackgroundJobs \/ Table' = Active'
    OBVIOUS
  <2>1. CASE \E id \in Ids : Insert(id)
    BY <2>1, InsertKeepsBound
  <2>2. CASE \A id \in Ids : ~Insert(id)
    <3>1. Table \subseteq Ids /\ Table' \subseteq Ids
      BY DEF Table
    <3>2. Cardinality(Table) \in Nat /\ Cardinality(Table') \in Nat
      BY <3>1, IdsFinite, FS_Subset, FS_CardinalityType
    <3> QED BY <2>2, <3>2, OnlyInsertGrows
  <2> QED BY <2>1, <2>2
<1> QED
  BY InitJobsInv, <1>1, <1>2, PTL DEF Spec, TableBound
=============================================================================
