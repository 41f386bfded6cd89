---------------------------- MODULE AuditLog_proofs ----------------------------
(***************************************************************************)
(* Proofs about AuditLog for every number of events, files, crashes and    *)
(* restores and every size of the channel, the batches and the rebuild's   *)
(* transactions. The invariant has five parts, each with a lemma that says *)
(* that a step preserves it:                                               *)
(*   Counts   indexPending is the number of events being indexed;          *)
(*   Phases   what is known while the index is not in use;                 *)
(*   Covered  what the index holds when it is in use;                      *)
(*   Asked    what a query under way may rely on;                          *)
(*   Raced    which events can have two rows;                              *)
(* and a sixth, Ordered, about the files.                                  *)
(***************************************************************************)
EXTENDS AuditLog, FiniteSetTheorems, TLAPS

Counts == TypeOK /\ PendingCounts

Phases ==
    /\ phase \in {"down", "rebuild"}
         => q = NoQuery /\ \A e \in Events : at[e] \in {"new", "past"}
    /\ phase = "down" => ~sqlite
    /\ phase # "up" => ~indexReady
    /\ phase \in {"rebuild", "reset"} => sqlite /\ db /\ todo \subseteq Readable

Covered ==
    /\ phase = "up" /\ sqlite /\ indexReady /\ db
         => \A e \in Readable :
              at[e] \in {"synced", "flushed", "done"} => index[e] > 0
    /\ phase = "reset" => \A e \in Readable \ todo : index[e] > 0

Asked ==
    /\ q.pc \in {"pending", "sqlite"}
         => q.spoiled \/ (sqlite /\ (indexReady \/ phase = "reset"))
    /\ q.pc = "pending" => q.due \subseteq Returned
    /\ q.pc = "sqlite" => \A e \in q.due : at[e] = "done"
    /\ FreshIndexedAnswer

Raced ==
    /\ \A e \in Events :
         at[e] \in {"new", "added", "counted", "queued", "sync", "batch"}
           => e \in raced \/ index[e] = 0
    /\ \A e \in Events : at[e] = "new" => file[e] = Nowhere
    /\ phase = "reset" => InFlight \subseteq raced
    /\ phase \in {"rebuild", "reset"} => \A e \in todo : index[e] = 0
    /\ OnlyRacedTwice

(* Older events are in older files, and events are written in order. *)
Ordered ==
    /\ \A e, f \in Events : e < f => file[e] >= file[f] \/ file[f] = Nowhere
    /\ \A e, f \in Events : e < f /\ at[e] = "new" => at[f] = "new"

AuditInv == Counts /\ Phases /\ Covered /\ Asked /\ Raced

----------------------------------------------------------------------------
LEMMA EventsFinite == IsFiniteSet(Events) /\ \A S \in SUBSET Events : IsFiniteSet(S)
<1>1. IsFiniteSet(Events)
  BY AuditAssumption, FS_Interval DEF Events
<1> QED
  BY <1>1, FS_Subset

(* The set of counted events is finite, so its size is a number. *)
LEMMA CountedSize == IsFiniteSet(Counted) /\ Cardinality(Counted) \in Nat
  BY EventsFinite, FS_CardinalityType DEF Counted, In

LEMMA RowsAreNumbers ==
  ASSUME TypeOK, NEW S \in SUBSET Events
  PROVE  WithRows(S) \in [Events -> Nat]
  BY DEF TypeOK, WithRows

LEMMA SpoilTyped == TypeOK /\ (Spoil \/ UNCHANGED q) => q' \in Queries
<1>1. TypeOK => q \in Queries /\ [q EXCEPT !.spoiled = TRUE] \in Queries
  BY DEF TypeOK, Queries
<1> QED
  BY <1>1 DEF Spoil

(* A sqlite3 command leaves the table of rows with the right type. *)
LEMMA InsertTyped ==
  ASSUME TypeOK, NEW S \in SUBSET Events, inserted(S) \/ insertFailed(S)
  PROVE  index' \in [Events -> Nat]
  BY RowsAreNumbers DEF inserted, insertFailed

(* The events of an insertion go from one place to one of two others, and  *)
(* each has at most one row more; every other variable keeps its value.    *)
LEMMA BatchFacts ==
  ASSUME TypeOK, NEW S \in SUBSET Events, NEW ok \in Places, NEW failed \in Places,
         insertBatch(S, ok, failed)
  PROVE  /\ phase # "reset"
         /\ UNCHANGED <<phase, file, torn, db, sqlite, indexReady, indexPending,
                       todo, q, crashes, resets, raced>>
         /\ index' \in [Events -> Nat] /\ at' \in [Events -> Places]
         /\ \A f \in Events : f \notin S => at'[f] = at[f] /\ index'[f] = index[f]
         /\ \A f \in S : /\ at'[f] = failed \/ (at'[f] = ok /\ index'[f] = index[f] + 1)
                         /\ index'[f] \in {index[f], index[f] + 1}
<1>1. /\ phase # "reset"
      /\ UNCHANGED <<phase, file, torn, db, sqlite, indexReady, indexPending,
                    todo, q, crashes, resets, raced>>
  BY DEF insertBatch
<1>2. CASE inserted(S) /\ at' = [e \in Events |-> IF e \in S THEN ok ELSE at[e]]
  BY <1>1, <1>2, RowsAreNumbers DEF inserted, WithRows, TypeOK
<1>3. CASE insertFailed(S) /\ at' = [e \in Events |-> IF e \in S THEN failed ELSE at[e]]
  <2>1. PICK T \in SUBSET S : index' = WithRows(T)
    BY <1>3 DEF insertFailed
  <2> QED
    BY <1>1, <1>3, <2>1, RowsAreNumbers DEF WithRows, TypeOK
<1> QED
  BY <1>2, <1>3 DEF insertBatch

(* The insertion of one writer, and that of the worker. *)
LEMMA SyncFacts ==
  ASSUME TypeOK, NEW e \in Events, SyncInsert(e)
  PROVE  /\ at[e] = "sync" /\ phase # "reset"
         /\ UNCHANGED <<phase, file, torn, db, sqlite, indexReady, indexPending,
                       todo, q, crashes, resets, raced>>
         /\ index' \in [Events -> Nat] /\ at' \in [Events -> Places]
         /\ \A f \in Events : f # e => at'[f] = at[f] /\ index'[f] = index[f]
         /\ at'[e] = "unsynced" \/ (at'[e] = "synced" /\ index'[e] = index[e] + 1)
         /\ index'[e] \in {index[e], index[e] + 1}
<1>1. insertBatch({e}, "synced", "unsynced") /\ at[e] = "sync"
  BY DEF SyncInsert
<1>2. {e} \in SUBSET Events /\ "synced" \in Places /\ "unsynced" \in Places
  BY DEF Places
<1>3. /\ phase # "reset"
      /\ UNCHANGED <<phase, file, torn, db, sqlite, indexReady, indexPending,
                    todo, q, crashes, resets, raced>>
      /\ index' \in [Events -> Nat] /\ at' \in [Events -> Places]
  BY <1>1, <1>2, BatchFacts, Zenon
<1>4. /\ \A f \in Events : f \notin {e} => at'[f] = at[f] /\ index'[f] = index[f]
      /\ \A f \in {e} : /\ at'[f] = "unsynced" \/ (at'[f] = "synced" /\ index'[f] = index[f] + 1)
                        /\ index'[f] \in {index[f], index[f] + 1}
  BY <1>1, <1>2, BatchFacts, Zenon
<1> QED
  BY <1>1, <1>3, <1>4

LEMMA FlushFacts ==
  ASSUME TypeOK, Flush
  PROVE  /\ phase # "reset"
         /\ UNCHANGED <<phase, file, torn, db, sqlite, indexReady, indexPending,
                       todo, q, crashes, resets, raced>>
         /\ index' \in [Events -> Nat] /\ at' \in [Events -> Places]
         /\ \A f \in Events : at[f] # "batch" => at'[f] = at[f] /\ index'[f] = index[f]
         /\ \A f \in Events : at[f] = "batch" =>
               /\ at'[f] = "unflushed" \/ (at'[f] = "flushed" /\ index'[f] = index[f] + 1)
               /\ index'[f] \in {index[f], index[f] + 1}
<1>1. insertBatch(In({"batch"}), "flushed", "unflushed")
  BY DEF Flush
<1>2. /\ In({"batch"}) \in SUBSET Events
      /\ "flushed" \in Places /\ "unflushed" \in Places
      /\ \A f \in Events : f \in In({"batch"}) <=> at[f] = "batch"
  BY DEF Places, In
<1> QED
  BY <1>1, <1>2, BatchFacts

(* Types: the counter stays a number because it counts something. *)
LEMMA NextTypeOK == Counts /\ [Next]_vars => TypeOK'
<1> SUFFICES ASSUME Counts, [Next]_vars PROVE TypeOK'
  OBVIOUS
<1> USE AuditAssumption DEF Counts
<1>1. ASSUME NEW e \in Events, NEW stop \in 0..Nowhere,
             NEW w \in {"line", "part", "nothing"},
             Append(e, stop, w)
      PROVE  TypeOK'
  <2>1. rotateIfNeeded(stop) \in [Events -> 0..Nowhere]
    BY DEF TypeOK, rotateIfNeeded, Nowhere
  <2>2. file' \in [Events -> 0..Nowhere]
    BY <1>1, <2>1 DEF Append, Nowhere
  <2>3. torn' \in BOOLEAN
    BY <1>1 DEF Append, TypeOK
  <2> QED
    BY <1>1, <2>2, <2>3 DEF TypeOK, Places, Append
<1>2. ASSUME NEW e \in Events, NEW stop \in 0..Nowhere, AppendUnopened(e, stop)
      PROVE  TypeOK'
  <2>1. file' \in [Events -> 0..Nowhere]
    BY <1>2 DEF TypeOK, AppendUnopened, rotateIfNeeded, Nowhere
  <2>2. torn' \in BOOLEAN
    BY <1>2 DEF AppendUnopened, TypeOK
  <2> QED
    BY <1>2, <2>1, <2>2 DEF TypeOK, Places, AppendUnopened
<1>3. ASSUME NEW e \in Events, Count(e) PROVE TypeOK'
  BY <1>3 DEF TypeOK, Places, Queries, Count
<1>4. ASSUME NEW e \in Events, Send(e) PROVE TypeOK'
  BY <1>4 DEF TypeOK, Places, Queries, Send
<1>5. ASSUME NEW e \in Events, SyncInsert(e) PROVE TypeOK'
  BY <1>5, SyncFacts DEF TypeOK
<1>6. ASSUME NEW e \in Events, SyncDone(e) PROVE TypeOK'
  <2>1. Cardinality(Counted) # 0
    BY <1>6, CountedSize, FS_EmptySet DEF SyncDone, Counted, In
  <2>2. indexPending - 1 \in Nat
    BY <2>1, CountedSize DEF PendingCounts
  <2> QED
    BY <1>6, <2>2 DEF TypeOK, Places, SyncDone
<1>7. ASSUME NEW e \in Events, Collect(e) PROVE TypeOK'
  BY <1>7 DEF TypeOK, Places, Collect
<1>8. CASE Flush
  BY <1>8, FlushFacts DEF TypeOK
<1>9. CASE FlushDone
  <2>1. In({"flushed"}) \in SUBSET Counted
    BY DEF In, Counted
  <2>2. Cardinality(In({"flushed"})) <= Cardinality(Counted)
    BY <2>1, CountedSize, FS_Subset
  <2>3. Cardinality(In({"flushed"})) \in Nat
    BY EventsFinite, FS_CardinalityType DEF In
  <2>4. indexPending - Cardinality(In({"flushed"})) \in Nat
    BY <2>2, <2>3, CountedSize DEF PendingCounts
  <2> QED
    BY <1>9, <2>4 DEF TypeOK, Places, FlushDone, Move
<1>10. CASE StartUnindexed
  BY <1>10 DEF TypeOK, Places, Queries, StartUnindexed
<1>11. CASE StartIndexed
  BY <1>11 DEF TypeOK, Places, StartIndexed, Readable
<1>12. CASE RebuildInsert
  <2>1. RebuildBatch \in SUBSET Events
    BY DEF RebuildBatch, TypeOK
  <2> QED
    BY <1>12, <2>1, InsertTyped DEF TypeOK, RebuildInsert
<1>13. CASE RebuildFails
  <2>1. RebuildBatch \in SUBSET Events
    BY DEF RebuildBatch, TypeOK
  <2> QED
    BY <1>13, <2>1, InsertTyped, SpoilTyped DEF TypeOK, RebuildFails
<1>14. CASE RebuildDone
  BY <1>14 DEF TypeOK, Places, Queries, RebuildDone
<1>15. CASE ResetIndex
  <2>1. resets' \in 0..MaxResets
    BY <1>15 DEF ResetIndex, TypeOK
  <2>2. todo' \subseteq Events /\ raced' \subseteq Events
    BY <1>15 DEF ResetIndex, TypeOK, Readable, InFlight, In
  <2> QED
    BY <1>15, <2>1, <2>2 DEF TypeOK, Places, ResetIndex
<1>16. CASE ResetFails
  <2>1. resets' \in 0..MaxResets
    BY <1>16 DEF ResetFails, TypeOK
  <2>2. index' \in [Events -> Nat] /\ db' \in BOOLEAN /\ indexReady' \in BOOLEAN
    <3>1. CASE UNCHANGED <<db, index, indexReady>>
      BY <3>1 DEF TypeOK
    <3>2. CASE /\ db' = FALSE /\ index' = [e \in Events |-> 0]
               /\ indexReady' \in {indexReady, FALSE}
      BY <3>2 DEF TypeOK
    <3> QED
      BY <1>16, <3>1, <3>2 DEF ResetFails
  <2>3. q' \in Queries
    BY <1>16, SpoilTyped DEF ResetFails
  <2> QED
    BY <1>16, <2>1, <2>2, <2>3 DEF TypeOK, Places, ResetFails
<1>17. CASE QueryReady
  BY <1>17 DEF TypeOK, Places, QueryReady, NoQuery, Queries, Returned, In
<1>18. CASE QueryPending
  BY <1>18 DEF TypeOK, Places, Queries, QueryPending
<1>19. CASE QuerySqlite
  BY <1>19 DEF TypeOK, Places, Queries, QuerySqlite
<1>20. CASE QuerySqliteFails
  BY <1>20 DEF TypeOK, Places, Queries, QuerySqliteFails
<1>21. CASE QueryFiles
  BY <1>21 DEF TypeOK, Places, QueryFiles, NoQuery, Queries
<1>22. CASE QueryEnd
  BY <1>22 DEF TypeOK, Places, QueryEnd, NoQuery, Queries
<1>23. CASE Crash
  <2>1. crashes' \in 0..MaxCrashes
    BY <1>23 DEF Crash, TypeOK
  <2> QED
    BY <1>23, <2>1 DEF TypeOK, Places, Crash, NoQuery, Queries
<1>24. CASE UNCHANGED vars
  BY <1>24 DEF TypeOK, vars
<1>25. ASSUME NEW e \in Events, SyncFailed(e) PROVE TypeOK'
  BY <1>25, SpoilTyped DEF TypeOK, Places, SyncFailed
<1>26. CASE FlushFailed
  BY <1>26, SpoilTyped DEF TypeOK, Places, FlushFailed, Move
<1>27. CASE QueryGivesUp
  BY <1>27 DEF TypeOK, Queries, QueryGivesUp
<1> QED
  BY <1>1, <1>2, <1>3, <1>4, <1>5, <1>6, <1>7, <1>8, <1>9, <1>10, <1>11,
     <1>12, <1>13, <1>14, <1>15, <1>16, <1>17, <1>18, <1>19, <1>20, <1>21,
     <1>22, <1>23, <1>24, <1>25, <1>26, <1>27 DEF Next, Writer, Worker, Rebuilder, Reader

(* Every Add(1) has its Add(-1), whichever way the event takes. *)
LEMMA NextPendingCounts == Counts /\ [Next]_vars => PendingCounts'
<1> SUFFICES ASSUME Counts, [Next]_vars PROVE PendingCounts'
  OBVIOUS
<1> USE DEF Counts
<1>0. ASSUME Counted' = Counted, indexPending' = indexPending
      PROVE  PendingCounts'
  BY <1>0 DEF PendingCounts
<1>1. ASSUME NEW e \in Events, NEW stop \in 0..Nowhere,
             NEW w \in {"line", "part", "nothing"},
             Append(e, stop, w)
      PROVE  PendingCounts'
  BY <1>1, <1>0 DEF Append, IsNext, TypeOK, Counted, In
<1>2. ASSUME NEW e \in Events, NEW stop \in 0..Nowhere, AppendUnopened(e, stop)
      PROVE  PendingCounts'
  BY <1>2, <1>0 DEF AppendUnopened, IsNext, TypeOK, Counted, In
<1>3. ASSUME NEW e \in Events, Count(e) PROVE PendingCounts'
  <2>1. Counted' = Counted \cup {e} /\ e \notin Counted
    BY <1>3 DEF Count, TypeOK, Counted, In
  <2> QED
    BY <1>3, <2>1, CountedSize, FS_AddElement DEF Count, PendingCounts
<1>4. ASSUME NEW e \in Events, Send(e) PROVE PendingCounts'
  BY <1>4, <1>0 DEF Send, TypeOK, Counted, In
<1>5. ASSUME NEW e \in Events, SyncInsert(e) PROVE PendingCounts'
  BY <1>5, <1>0, SyncFacts DEF Counted, In
<1>6. ASSUME NEW e \in Events, SyncDone(e) PROVE PendingCounts'
  <2>1. Counted' = Counted \ {e} /\ e \in Counted
    BY <1>6 DEF SyncDone, TypeOK, Counted, In
  <2> QED
    BY <1>6, <2>1, CountedSize, FS_RemoveElement DEF SyncDone, PendingCounts
<1>7. ASSUME NEW e \in Events, Collect(e) PROVE PendingCounts'
  BY <1>7, <1>0 DEF Collect, TypeOK, Counted, In
<1>8. CASE Flush
  BY <1>8, <1>0, FlushFacts DEF Counted, In
<1>9. CASE FlushDone
  <2>1. Counted' = Counted \ In({"flushed"})
    BY <1>9 DEF FlushDone, Move, TypeOK, Counted, In
  <2>2. Counted \cap In({"flushed"}) = In({"flushed"})
    BY DEF Counted, In
  <2> QED
    BY <1>9, <2>1, <2>2, CountedSize, FS_Difference DEF FlushDone,
       PendingCounts
<1>10. CASE StartUnindexed
  BY <1>10, <1>0 DEF StartUnindexed, TypeOK, Counted, In
<1>11. CASE StartIndexed
  BY <1>11, <1>0 DEF StartIndexed, TypeOK, Counted, In
<1>12. CASE RebuildInsert
  BY <1>12, <1>0 DEF RebuildInsert, TypeOK, Counted, In
<1>13. CASE RebuildFails
  BY <1>13, <1>0 DEF RebuildFails, TypeOK, Counted, In
<1>14. CASE RebuildDone
  BY <1>14, <1>0 DEF RebuildDone, TypeOK, Counted, In
<1>15. CASE ResetIndex
  BY <1>15, <1>0 DEF ResetIndex, TypeOK, Counted, In
<1>16. CASE ResetFails
  BY <1>16, <1>0 DEF ResetFails, TypeOK, Counted, In
<1>17. CASE QueryReady
  BY <1>17, <1>0 DEF QueryReady, TypeOK, Counted, In
<1>18. CASE QueryPending
  BY <1>18, <1>0 DEF QueryPending, TypeOK, Counted, In
<1>19. CASE QuerySqlite
  BY <1>19, <1>0 DEF QuerySqlite, TypeOK, Counted, In
<1>20. CASE QuerySqliteFails
  BY <1>20, <1>0 DEF QuerySqliteFails, TypeOK, Counted, In
<1>21. CASE QueryFiles
  BY <1>21, <1>0 DEF QueryFiles, TypeOK, Counted, In
<1>22. CASE QueryEnd
  BY <1>22, <1>0 DEF QueryEnd, TypeOK, Counted, In
<1>23. CASE Crash
  <2>1. Counted' = {}
    BY <1>23 DEF Crash, TypeOK, Counted, In
  <2> QED
    BY <1>23, <2>1, FS_EmptySet DEF Crash, PendingCounts
<1>24. CASE UNCHANGED vars
  BY <1>24, <1>0 DEF vars, Counted, In
<1>25. ASSUME NEW e \in Events, SyncFailed(e) PROVE PendingCounts'
  BY <1>25, <1>0 DEF SyncFailed, TypeOK, Counted, In
<1>26. CASE FlushFailed
  BY <1>26, <1>0 DEF FlushFailed, Move, TypeOK, Counted, In
<1>27. CASE QueryGivesUp
  BY <1>27, <1>0 DEF QueryGivesUp, Counted, In
<1> QED
  BY <1>1, <1>2, <1>3, <1>4, <1>5, <1>6, <1>7, <1>8, <1>9, <1>10, <1>11,
     <1>12, <1>13, <1>14, <1>15, <1>16, <1>17, <1>18, <1>19, <1>20, <1>21,
     <1>22, <1>23, <1>24, <1>25, <1>26, <1>27 DEF Next, Writer, Worker, Rebuilder, Reader

(* What holds while the index is not in use. *)
LEMMA NextPhases == Counts /\ Phases /\ [Next]_vars => Phases'
<1> SUFFICES ASSUME Counts /\ Phases, [Next]_vars PROVE Phases'
  OBVIOUS
<1> USE DEF Counts
<1>1. ASSUME NEW e \in Events, NEW stop \in 0..Nowhere,
             NEW w \in {"line", "part", "nothing"},
             Append(e, stop, w)
      PROVE  Phases'
  BY <1>1 DEF Append, TypeOK, Phases
<1>2. ASSUME NEW e \in Events, NEW stop \in 0..Nowhere, AppendUnopened(e, stop)
      PROVE  Phases'
  BY <1>2 DEF AppendUnopened, TypeOK, Phases
<1>3. ASSUME NEW e \in Events, Count(e) PROVE Phases'
  BY <1>3 DEF Count, TypeOK, Phases, Readable
<1>4. ASSUME NEW e \in Events, Send(e) PROVE Phases'
  BY <1>4 DEF Send, TypeOK, Phases, Readable
<1>5. ASSUME NEW e \in Events, SyncInsert(e) PROVE Phases'
  BY <1>5, SyncFacts DEF Phases, Readable
<1>6. ASSUME NEW e \in Events, SyncDone(e) PROVE Phases'
  BY <1>6 DEF SyncDone, TypeOK, Phases, Readable
<1>7. ASSUME NEW e \in Events, Collect(e) PROVE Phases'
  BY <1>7 DEF Collect, TypeOK, Phases, Readable
<1>8. CASE Flush
  <2>1. phase \notin {"down", "rebuild"}
    BY <1>8 DEF Flush, In, Phases
  <2> QED
    BY <1>8, <2>1, FlushFacts DEF Phases, Readable
<1>9. CASE FlushDone
  BY <1>9 DEF FlushDone, Move, In, TypeOK, Phases, Readable
<1>10. CASE StartUnindexed
  BY <1>10 DEF StartUnindexed, TypeOK, Phases, Readable
<1>11. CASE StartIndexed
  BY <1>11 DEF StartIndexed, TypeOK, Phases, Readable
<1>12. CASE RebuildInsert
  BY <1>12 DEF RebuildInsert, RebuildBatch, inserted, TypeOK, Phases, Readable
<1>13. CASE RebuildFails
  BY <1>13 DEF RebuildFails, TypeOK, Phases, Readable
<1>14. CASE RebuildDone
  BY <1>14 DEF RebuildDone, TypeOK, Phases, Readable
<1>15. CASE ResetIndex
  BY <1>15 DEF ResetIndex, TypeOK, Phases, Readable
<1>16. CASE ResetFails
  BY <1>16 DEF ResetFails, TypeOK, Phases, Readable
<1>17. CASE QueryReady
  BY <1>17 DEF QueryReady, TypeOK, Phases, Readable
<1>18. CASE QueryPending
  BY <1>18 DEF QueryPending, TypeOK, Phases, Readable, NoQuery
<1>19. CASE QuerySqlite
  BY <1>19 DEF QuerySqlite, TypeOK, Phases, Readable
<1>20. CASE QuerySqliteFails
  BY <1>20 DEF QuerySqliteFails, TypeOK, Phases, Readable
<1>21. CASE QueryFiles
  BY <1>21 DEF QueryFiles, TypeOK, Phases, Readable
<1>22. CASE QueryEnd
  BY <1>22 DEF QueryEnd, TypeOK, Phases, Readable
<1>23. CASE Crash
  BY <1>23 DEF Crash, TypeOK, Phases, NoQuery
<1>24. CASE UNCHANGED vars
  BY <1>24 DEF vars, Phases, Readable
<1>25. ASSUME NEW e \in Events, SyncFailed(e) PROVE Phases'
  <2>1. phase \notin {"down", "rebuild"}
    BY <1>25 DEF SyncFailed, Phases
  <2> QED
    BY <1>25, <2>1 DEF SyncFailed, Phases, Readable
<1>26. CASE FlushFailed
  <2>1. phase \notin {"down", "rebuild"}
    BY <1>26 DEF FlushFailed, In, Phases
  <2> QED
    BY <1>26, <2>1 DEF FlushFailed, Phases, Readable
<1>27. CASE QueryGivesUp
  <2>1. phase \notin {"down", "rebuild"}
    BY <1>27 DEF QueryGivesUp, Phases, NoQuery
  <2> QED
    BY <1>27, <2>1 DEF QueryGivesUp, Phases, Readable
<1> QED
  BY <1>1, <1>2, <1>3, <1>4, <1>5, <1>6, <1>7, <1>8, <1>9, <1>10, <1>11,
     <1>12, <1>13, <1>14, <1>15, <1>16, <1>17, <1>18, <1>19, <1>20, <1>21,
     <1>22, <1>23, <1>24, <1>25, <1>26, <1>27 DEF Next, Writer, Worker, Rebuilder, Reader

(* The index holds every event that has been through the worker. *)
LEMMA NextCovered == Counts /\ Phases /\ Covered /\ [Next]_vars => Covered'
<1> SUFFICES ASSUME Counts /\ Phases /\ Covered, [Next]_vars PROVE Covered'
  OBVIOUS
<1> USE AuditAssumption DEF Counts
<1>1. ASSUME NEW e \in Events, NEW stop \in 0..Nowhere,
             NEW w \in {"line", "part", "nothing"},
             Append(e, stop, w)
      PROVE  Covered'
  BY <1>1 DEF Append, IsNext, rotateIfNeeded, Nowhere, TypeOK, Phases,
     Covered, Readable
<1>2. ASSUME NEW e \in Events, NEW stop \in 0..Nowhere, AppendUnopened(e, stop)
      PROVE  Covered'
  BY <1>2 DEF AppendUnopened, IsNext, rotateIfNeeded, Nowhere, TypeOK, Phases,
     Covered, Readable
<1>3. ASSUME NEW e \in Events, Count(e) PROVE Covered'
  BY <1>3 DEF Count, TypeOK, Phases, Covered, Readable
<1>4. ASSUME NEW e \in Events, Send(e) PROVE Covered'
  BY <1>4 DEF Send, TypeOK, Phases, Covered, Readable
<1>5. ASSUME NEW e \in Events, SyncInsert(e) PROVE Covered'
  BY <1>5, SyncFacts DEF TypeOK, Covered, Readable
<1>6. ASSUME NEW e \in Events, SyncDone(e) PROVE Covered'
  BY <1>6 DEF SyncDone, TypeOK, Phases, Covered, Readable
<1>7. ASSUME NEW e \in Events, Collect(e) PROVE Covered'
  BY <1>7 DEF Collect, TypeOK, Phases, Covered, Readable
<1>8. CASE Flush
  BY <1>8, FlushFacts DEF TypeOK, Covered, Readable
<1>9. CASE FlushDone
  BY <1>9 DEF FlushDone, Move, TypeOK, Phases, Covered, Readable
<1>10. CASE StartUnindexed
  BY <1>10 DEF StartUnindexed, TypeOK, Phases, Covered, Readable
<1>11. CASE StartIndexed
  BY <1>11 DEF StartIndexed, TypeOK, Phases, Covered, Readable
<1>12. CASE RebuildInsert
  BY <1>12 DEF RebuildInsert, inserted, WithRows, TypeOK, Phases, Covered,
     Readable
<1>13. CASE RebuildFails
  BY <1>13 DEF RebuildFails, TypeOK, Phases, Covered, Readable
<1>14. CASE RebuildDone
  BY <1>14 DEF RebuildDone, TypeOK, Phases, Covered, Readable
<1>15. CASE ResetIndex
  BY <1>15 DEF ResetIndex, TypeOK, Phases, Covered, Readable
<1>16. CASE ResetFails
  <2>1. CASE UNCHANGED <<db, index, indexReady>>
    BY <1>16, <2>1 DEF ResetFails, Covered, Readable
  <2>2. CASE db' = FALSE
    BY <1>16, <2>2 DEF ResetFails, Covered
  <2> QED
    BY <1>16, <2>1, <2>2 DEF ResetFails
<1>17. CASE QueryReady
  BY <1>17 DEF QueryReady, TypeOK, Phases, Covered, Readable
<1>18. CASE QueryPending
  BY <1>18 DEF QueryPending, TypeOK, Phases, Covered, Readable
<1>19. CASE QuerySqlite
  BY <1>19 DEF QuerySqlite, TypeOK, Phases, Covered, Readable
<1>20. CASE QuerySqliteFails
  BY <1>20 DEF QuerySqliteFails, TypeOK, Phases, Covered, Readable
<1>21. CASE QueryFiles
  BY <1>21 DEF QueryFiles, TypeOK, Phases, Covered, Readable
<1>22. CASE QueryEnd
  BY <1>22 DEF QueryEnd, TypeOK, Phases, Covered, Readable
<1>23. CASE Crash
  BY <1>23 DEF Crash, TypeOK, Phases, Covered, Readable
<1>24. CASE UNCHANGED vars
  BY <1>24 DEF vars, Covered, Readable
<1>25. ASSUME NEW e \in Events, SyncFailed(e) PROVE Covered'
  BY <1>25 DEF SyncFailed, Covered, Readable
<1>26. CASE FlushFailed
  BY <1>26 DEF FlushFailed, Covered, Readable
<1>27. CASE QueryGivesUp
  BY <1>27 DEF QueryGivesUp, Covered, Readable
<1> QED
  BY <1>1, <1>2, <1>3, <1>4, <1>5, <1>6, <1>7, <1>8, <1>9, <1>10, <1>11,
     <1>12, <1>13, <1>14, <1>15, <1>16, <1>17, <1>18, <1>19, <1>20, <1>21,
     <1>22, <1>23, <1>24, <1>25, <1>26, <1>27 DEF Next, Writer, Worker, Rebuilder, Reader

(* A query that saw the index ready and nothing pending gets every event   *)
(* whose Write had returned, or the index was given up while it waited.    *)
LEMMA NextAsked == Counts /\ Phases /\ Covered /\ Asked /\ [Next]_vars => Asked'
<1> SUFFICES ASSUME Counts /\ Phases /\ Covered /\ Asked, [Next]_vars PROVE Asked'
  OBVIOUS
<1> USE DEF Counts
<1>1. ASSUME NEW e \in Events, NEW stop \in 0..Nowhere,
             NEW w \in {"line", "part", "nothing"},
             Append(e, stop, w)
      PROVE  Asked'
  BY <1>1 DEF Append, IsNext, TypeOK, Asked, FreshIndexedAnswer, Returned, In
<1>2. ASSUME NEW e \in Events, NEW stop \in 0..Nowhere, AppendUnopened(e, stop)
      PROVE  Asked'
  BY <1>2 DEF AppendUnopened, IsNext, TypeOK, Asked, FreshIndexedAnswer,
     Returned, In
<1>3. ASSUME NEW e \in Events, Count(e) PROVE Asked'
  BY <1>3 DEF Count, TypeOK, Asked, FreshIndexedAnswer, Returned, In
<1>4. ASSUME NEW e \in Events, Send(e) PROVE Asked'
  BY <1>4 DEF Send, TypeOK, Asked, FreshIndexedAnswer, Returned, In
<1>5. ASSUME NEW e \in Events, SyncInsert(e) PROVE Asked'
  <2>1. Returned \subseteq Returned'
    BY <1>5, SyncFacts DEF Returned, In
  <2>2. \A f \in Events : at[f] = "done" => at'[f] = "done"
    BY <1>5, SyncFacts
  <2> QED
    BY <1>5, <2>1, <2>2, SyncFacts DEF Asked, FreshIndexedAnswer, TypeOK, Queries
<1>6. ASSUME NEW e \in Events, SyncDone(e) PROVE Asked'
  BY <1>6 DEF SyncDone, TypeOK, Asked, FreshIndexedAnswer, Returned, In
<1>7. ASSUME NEW e \in Events, Collect(e) PROVE Asked'
  BY <1>7 DEF Collect, TypeOK, Asked, FreshIndexedAnswer, Returned, In
<1>8. CASE Flush
  <2>1. Returned \subseteq Returned'
    BY <1>8, FlushFacts DEF Returned, In
  <2>2. \A e \in Events : at[e] = "done" => at'[e] = "done"
    BY <1>8, FlushFacts
  <2> QED
    BY <1>8, <2>1, <2>2, FlushFacts DEF Asked, FreshIndexedAnswer, TypeOK, Queries
<1>9. CASE FlushDone
  <2>1. /\ at' = [e \in Events |-> IF at[e] = "flushed" THEN "done" ELSE at[e]]
        /\ UNCHANGED <<sqlite, phase, q, indexReady>>
    BY <1>9 DEF FlushDone, Move
  <2>2. Returned \subseteq Returned'
    BY <2>1 DEF Returned, In, TypeOK
  <2>3. \A e \in Events : at[e] = "done" => at'[e] = "done"
    BY <2>1
  <2> QED
    BY <2>1, <2>2, <2>3 DEF Asked, FreshIndexedAnswer, TypeOK, Queries
<1>10. CASE StartUnindexed
  BY <1>10 DEF StartUnindexed, Phases, NoQuery, TypeOK, Asked,
     FreshIndexedAnswer, Returned, In
<1>11. CASE StartIndexed
  BY <1>11 DEF StartIndexed, Phases, NoQuery, TypeOK, Asked,
     FreshIndexedAnswer, Returned, In
<1>12. CASE RebuildInsert
  BY <1>12 DEF RebuildInsert, inserted, TypeOK, Asked, FreshIndexedAnswer,
     Returned, In
<1>13. CASE RebuildFails
  BY <1>13 DEF RebuildFails, Spoil, Queries, TypeOK, Asked, FreshIndexedAnswer,
     Returned, In
<1>14. CASE RebuildDone
  BY <1>14 DEF RebuildDone, Phases, NoQuery, TypeOK, Asked,
     FreshIndexedAnswer, Returned, In
<1>15. CASE ResetIndex
  BY <1>15 DEF ResetIndex, TypeOK, Asked, FreshIndexedAnswer, Returned, In
<1>16. CASE ResetFails
  <2>1. Spoil \/ UNCHANGED <<q, indexReady>>
    BY <1>16 DEF ResetFails
  <2>2. UNCHANGED <<phase, sqlite, at>>
    BY <1>16 DEF ResetFails
  <2> QED
    BY <2>1, <2>2 DEF Spoil, Queries, TypeOK, Asked, FreshIndexedAnswer,
       Returned, In
<1>17. CASE QueryReady
  BY <1>17 DEF QueryReady, NoQuery, TypeOK, Asked, FreshIndexedAnswer,
     Returned, In
<1>18. CASE QueryPending
  <2>1. CASE indexPending = 0
    <3>1. Counted = {}
      BY <2>1, CountedSize, FS_EmptySet DEF PendingCounts
    <3>2. \A e \in q.due : at[e] = "done"
      BY <1>18, <3>1 DEF QueryPending, Asked, Returned, Counted, In
    <3> QED
      BY <1>18, <2>1, <3>2 DEF QueryPending, Queries, TypeOK, Asked,
         FreshIndexedAnswer, Returned, In
  <2>2. CASE indexPending # 0
    BY <1>18, <2>2 DEF QueryPending, Queries, TypeOK, Asked,
       FreshIndexedAnswer, Returned, In
  <2> QED
    BY <2>1, <2>2
<1>19. CASE QuerySqlite
  <2>1. q.spoiled \/ {e \in q.due \cap Readable : index[e] = 0} = {}
    BY <1>19 DEF QuerySqlite, Asked, Covered, Readable, TypeOK, Queries
  <2> QED
    BY <1>19, <2>1 DEF QuerySqlite, Queries, TypeOK, Asked,
       FreshIndexedAnswer, Returned, In
<1>20. CASE QuerySqliteFails
  BY <1>20 DEF QuerySqliteFails, Queries, TypeOK, Asked, FreshIndexedAnswer,
     Returned, In
<1>21. CASE QueryFiles
  BY <1>21 DEF QueryFiles, NoQuery, TypeOK, Asked, FreshIndexedAnswer,
     Returned, In
<1>22. CASE QueryEnd
  BY <1>22 DEF QueryEnd, NoQuery, TypeOK, Asked, FreshIndexedAnswer, Returned,
     In
<1>23. CASE Crash
  BY <1>23 DEF Crash, NoQuery, Asked, FreshIndexedAnswer
<1>24. CASE UNCHANGED vars
  BY <1>24 DEF vars, Asked, FreshIndexedAnswer, Returned, In
<1>25. ASSUME NEW e \in Events, SyncFailed(e) PROVE Asked'
  <2>1. Returned \subseteq Returned' /\ \A f \in Events : at[f] = "done" => at'[f] = "done"
    BY <1>25 DEF SyncFailed, TypeOK, Returned, In
  <2> QED
    BY <1>25, <2>1 DEF SyncFailed, Spoil, Queries, TypeOK, Asked, FreshIndexedAnswer
<1>26. CASE FlushFailed
  <2>1. Returned \subseteq Returned' /\ \A f \in Events : at[f] = "done" => at'[f] = "done"
    BY <1>26 DEF FlushFailed, Move, TypeOK, Returned, In
  <2> QED
    BY <1>26, <2>1 DEF FlushFailed, Spoil, Queries, TypeOK, Asked, FreshIndexedAnswer
<1>27. CASE QueryGivesUp
  BY <1>27 DEF QueryGivesUp, Queries, TypeOK, Asked, FreshIndexedAnswer
<1> QED
  BY <1>1, <1>2, <1>3, <1>4, <1>5, <1>6, <1>7, <1>8, <1>9, <1>10, <1>11,
     <1>12, <1>13, <1>14, <1>15, <1>16, <1>17, <1>18, <1>19, <1>20, <1>21,
     <1>22, <1>23, <1>24, <1>25, <1>26, <1>27 DEF Next, Writer, Worker, Rebuilder, Reader

(* An event gets its second row only if a restore read the files while it  *)
(* was in flight.                                                          *)
LEMMA NextRaced == Counts /\ Phases /\ Raced /\ [Next]_vars => Raced'
<1> SUFFICES ASSUME Counts /\ Phases /\ Raced, [Next]_vars PROVE Raced'
  OBVIOUS
<1> USE AuditAssumption DEF Counts
<1>1. ASSUME NEW e \in Events, NEW stop \in 0..Nowhere,
             NEW w \in {"line", "part", "nothing"},
             Append(e, stop, w)
      PROVE  Raced'
  BY <1>1 DEF Append, IsNext, rotateIfNeeded, Nowhere, TypeOK, Raced,
     OnlyRacedTwice, InFlight, In
<1>2. ASSUME NEW e \in Events, NEW stop \in 0..Nowhere, AppendUnopened(e, stop)
      PROVE  Raced'
  BY <1>2 DEF AppendUnopened, IsNext, rotateIfNeeded, Nowhere, TypeOK, Raced,
     OnlyRacedTwice, InFlight, In
<1>3. ASSUME NEW e \in Events, Count(e) PROVE Raced'
  BY <1>3 DEF Count, TypeOK, Raced, OnlyRacedTwice, InFlight, In
<1>4. ASSUME NEW e \in Events, Send(e) PROVE Raced'
  BY <1>4 DEF Send, TypeOK, Raced, OnlyRacedTwice, InFlight, In
<1>5. ASSUME NEW e \in Events, SyncInsert(e) PROVE Raced'
  BY <1>5, SyncFacts DEF Phases, TypeOK, Raced, OnlyRacedTwice, InFlight, In
<1>6. ASSUME NEW e \in Events, SyncDone(e) PROVE Raced'
  BY <1>6 DEF SyncDone, TypeOK, Raced, OnlyRacedTwice, InFlight, In
<1>7. ASSUME NEW e \in Events, Collect(e) PROVE Raced'
  BY <1>7 DEF Collect, TypeOK, Raced, OnlyRacedTwice, InFlight, In
<1>8. CASE Flush
  <2>1. phase # "rebuild"
    BY <1>8 DEF Flush, In, Phases
  <2> QED
    BY <1>8, <2>1, FlushFacts DEF TypeOK, Raced, OnlyRacedTwice, InFlight, In
<1>9. CASE FlushDone
  BY <1>9 DEF FlushDone, Move, TypeOK, Raced, OnlyRacedTwice, InFlight, In
<1>10. CASE StartUnindexed
  BY <1>10 DEF StartUnindexed, TypeOK, Raced, OnlyRacedTwice, InFlight, In
<1>11. CASE StartIndexed
  BY <1>11 DEF StartIndexed, rebuildIfNeeded, Readable, TypeOK, Raced,
     OnlyRacedTwice, InFlight, In
<1>12. CASE RebuildInsert
  <2>1. /\ RebuildBatch \subseteq todo /\ todo' \subseteq todo \ RebuildBatch
        /\ UNCHANGED <<file, at, raced>>
    BY <1>12 DEF RebuildInsert, RebuildBatch
  <2>2. \A f \in Events : index'[f] = index[f] \/ (f \in RebuildBatch /\ index'[f] = index[f] + 1)
    BY <1>12 DEF RebuildInsert, inserted, WithRows, TypeOK
  <2>3. \A f \in todo : at[f] # "new"
    BY <1>12 DEF RebuildInsert, Phases, Raced, Readable, Nowhere, TypeOK
  <2>4. phase' = phase \/ phase' = "up"
    BY <1>12 DEF RebuildInsert
  <2>5. phase = "rebuild" \/ phase = "reset"
    BY <1>12 DEF RebuildInsert
  <2> QED
    BY <2>1, <2>2, <2>3, <2>4, <2>5 DEF Phases, TypeOK, Raced, OnlyRacedTwice,
       InFlight, In
<1>13. CASE RebuildFails
  <2>1. /\ RebuildBatch \subseteq todo /\ todo' \subseteq todo \ RebuildBatch
        /\ UNCHANGED <<file, at, raced>>
    BY <1>13 DEF RebuildFails, RebuildBatch
  <2>2. \A f \in Events : index'[f] = index[f] \/ (f \in RebuildBatch /\ index'[f] = index[f] + 1)
    BY <1>13 DEF RebuildFails, inserted, insertFailed, WithRows, TypeOK
  <2>3. \A f \in todo : at[f] # "new"
    BY <1>13 DEF RebuildFails, Phases, Raced, Readable, Nowhere, TypeOK
  <2>4. phase' = phase \/ phase' = "up"
    BY <1>13 DEF RebuildFails
  <2>5. phase = "rebuild" \/ phase = "reset"
    BY <1>13 DEF RebuildFails
  <2> QED
    BY <2>1, <2>2, <2>3, <2>4, <2>5 DEF Phases, TypeOK, Raced, OnlyRacedTwice,
       InFlight, In
<1>14. CASE RebuildDone
  BY <1>14 DEF RebuildDone, TypeOK, Raced, OnlyRacedTwice, InFlight, In
<1>15. CASE ResetIndex
  BY <1>15 DEF ResetIndex, Readable, TypeOK, Raced, OnlyRacedTwice, InFlight,
     In
<1>16. CASE ResetFails
  <2>1. \A f \in Events : index'[f] = index[f] \/ index'[f] = 0
    BY <1>16 DEF ResetFails, TypeOK
  <2> QED
    BY <1>16, <2>1 DEF ResetFails, TypeOK, Raced, OnlyRacedTwice, InFlight, In
<1>17. CASE QueryReady
  BY <1>17 DEF QueryReady, TypeOK, Raced, OnlyRacedTwice, InFlight, In
<1>18. CASE QueryPending
  BY <1>18 DEF QueryPending, TypeOK, Raced, OnlyRacedTwice, InFlight, In
<1>19. CASE QuerySqlite
  BY <1>19 DEF QuerySqlite, TypeOK, Raced, OnlyRacedTwice, InFlight, In
<1>20. CASE QuerySqliteFails
  BY <1>20 DEF QuerySqliteFails, TypeOK, Raced, OnlyRacedTwice, InFlight, In
<1>21. CASE QueryFiles
  BY <1>21 DEF QueryFiles, TypeOK, Raced, OnlyRacedTwice, InFlight, In
<1>22. CASE QueryEnd
  BY <1>22 DEF QueryEnd, TypeOK, Raced, OnlyRacedTwice, InFlight, In
<1>23. CASE Crash
  BY <1>23 DEF Crash, TypeOK, Raced, OnlyRacedTwice, InFlight, In
<1>24. CASE UNCHANGED vars
  BY <1>24 DEF vars, Raced, OnlyRacedTwice, InFlight, In
<1>25. ASSUME NEW e \in Events, SyncFailed(e) PROVE Raced'
  BY <1>25 DEF SyncFailed, TypeOK, Raced, OnlyRacedTwice, InFlight, In
<1>26. CASE FlushFailed
  BY <1>26 DEF FlushFailed, Move, TypeOK, Raced, OnlyRacedTwice, InFlight, In
<1>27. CASE QueryGivesUp
  BY <1>27 DEF QueryGivesUp, Raced, OnlyRacedTwice, InFlight, In
<1> QED
  BY <1>1, <1>2, <1>3, <1>4, <1>5, <1>6, <1>7, <1>8, <1>9, <1>10, <1>11,
     <1>12, <1>13, <1>14, <1>15, <1>16, <1>17, <1>18, <1>19, <1>20, <1>21,
     <1>22, <1>23, <1>24, <1>25, <1>26, <1>27 DEF Next, Writer, Worker, Rebuilder, Reader

(* Rotation, complete or stopped by an error, keeps the order of two events. *)
LEMMA RotationKeepsOrder ==
  ASSUME TypeOK, NEW stop \in 0..Nowhere, NEW a \in Events, NEW b \in Events,
         file[a] >= file[b] \/ file[b] = Nowhere
  PROVE  \/ rotateIfNeeded(stop)[a] >= rotateIfNeeded(stop)[b]
         \/ rotateIfNeeded(stop)[b] = Nowhere
<1>1. file[a] \in 0..Nowhere /\ file[b] \in 0..Nowhere
  BY DEF TypeOK
<1>2. \A x \in Events : rotateIfNeeded(stop)[x] =
        IF file[x] \in stop..auditRotateFiles THEN file[x] + 1 ELSE file[x]
  BY DEF rotateIfNeeded
<1> QED
  BY <1>1, <1>2, AuditAssumption DEF Nowhere

(* Events are appended in order, and rotation keeps the order. *)
LEMMA NextOrdered == Counts /\ Raced /\ Ordered /\ [Next]_vars => Ordered'
<1> SUFFICES ASSUME Counts /\ Raced /\ Ordered, [Next]_vars PROVE Ordered'
  OBVIOUS
<1> USE AuditAssumption DEF Counts
<1>1. ASSUME NEW e \in Events, NEW stop \in 0..Nowhere,
             NEW w \in {"line", "part", "nothing"},
             Append(e, stop, w)
      PROVE  Ordered'
  <2>1. \A f \in Events : /\ f < e => at[f] # "new"
                          /\ e < f => at[f] = "new" /\ file[f] = Nowhere
    BY <1>1 DEF Append, IsNext, Ordered, Raced, Events
  <2>2. /\ \A f \in Events : f # e => file'[f] = rotateIfNeeded(stop)[f]
        /\ file'[e] \in {0, Nowhere}
    BY <1>1 DEF Append, TypeOK, rotateIfNeeded
  <2>3. \A f \in Events : /\ at'[f] = "new" => f # e /\ at[f] = "new"
                          /\ f # e => at'[f] = at[f]
    BY <1>1 DEF Append, TypeOK
  <2> QED
    <3>1. ASSUME NEW a \in Events, NEW b \in Events, a < b
          PROVE  file'[a] >= file'[b] \/ file'[b] = Nowhere
      <4>1. CASE a # e /\ b # e
        BY <2>2, <3>1, <4>1, RotationKeepsOrder DEF Ordered
      <4>2. CASE b = e
        <5>1. file'[a] \in 0..Nowhere
          BY <1>1, NextTypeOK DEF TypeOK, Next
        <5> QED
          BY <2>2, <4>2, <5>1 DEF Nowhere
      <4>3. CASE a = e
        BY <2>1, <2>2, <3>1, <4>3, RotationKeepsOrder DEF Nowhere,
           rotateIfNeeded, Events
      <4> QED
        BY <4>1, <4>2, <4>3
    <3>2. \A a, b \in Events : a < b /\ at'[a] = "new" => at'[b] = "new"
      BY <2>1, <2>3 DEF Ordered, Events
    <3> QED
      BY <3>1, <3>2 DEF Ordered, Nowhere
<1>2. ASSUME NEW e \in Events, NEW stop \in 0..Nowhere, AppendUnopened(e, stop)
      PROVE  Ordered'
  <2>1. \A f \in Events : f < e => at[f] # "new"
    BY <1>2 DEF AppendUnopened, IsNext
  <2>2. file' = rotateIfNeeded(stop)
    BY <1>2 DEF AppendUnopened
  <2>3. \A f \in Events : /\ at'[f] = "new" => f # e /\ at[f] = "new"
                          /\ f # e => at'[f] = at[f]
    BY <1>2 DEF AppendUnopened, TypeOK
  <2> QED
    <3>1. \A a, b \in Events : a < b => file'[a] >= file'[b] \/ file'[b] = Nowhere
      BY <2>2, RotationKeepsOrder DEF Ordered
    <3>2. \A a, b \in Events : a < b /\ at'[a] = "new" => at'[b] = "new"
      BY <2>1, <2>3 DEF Ordered, Events
    <3> QED
      BY <3>1, <3>2 DEF Ordered, Nowhere
<1>3. ASSUME NEW e \in Events, Count(e) PROVE Ordered'
  BY <1>3 DEF Count, TypeOK, Ordered
<1>4. ASSUME NEW e \in Events, Send(e) PROVE Ordered'
  BY <1>4 DEF Send, TypeOK, Ordered
<1>5. ASSUME NEW e \in Events, SyncInsert(e) PROVE Ordered'
  BY <1>5, SyncFacts DEF Ordered
<1>6. ASSUME NEW e \in Events, SyncDone(e) PROVE Ordered'
  BY <1>6 DEF SyncDone, TypeOK, Ordered
<1>7. ASSUME NEW e \in Events, Collect(e) PROVE Ordered'
  BY <1>7 DEF Collect, TypeOK, Ordered
<1>8. CASE Flush
  BY <1>8, FlushFacts DEF Ordered
<1>9. CASE FlushDone
  BY <1>9 DEF FlushDone, Move, TypeOK, Ordered
<1>10. CASE StartUnindexed
  BY <1>10 DEF StartUnindexed, TypeOK, Ordered
<1>11. CASE StartIndexed
  BY <1>11 DEF StartIndexed, TypeOK, Ordered
<1>12. CASE RebuildInsert
  BY <1>12 DEF RebuildInsert, TypeOK, Ordered
<1>13. CASE RebuildFails
  BY <1>13 DEF RebuildFails, TypeOK, Ordered
<1>14. CASE RebuildDone
  BY <1>14 DEF RebuildDone, TypeOK, Ordered
<1>15. CASE ResetIndex
  BY <1>15 DEF ResetIndex, TypeOK, Ordered
<1>16. CASE ResetFails
  BY <1>16 DEF ResetFails, TypeOK, Ordered
<1>17. CASE QueryReady
  BY <1>17 DEF QueryReady, TypeOK, Ordered
<1>18. CASE QueryPending
  BY <1>18 DEF QueryPending, TypeOK, Ordered
<1>19. CASE QuerySqlite
  BY <1>19 DEF QuerySqlite, TypeOK, Ordered
<1>20. CASE QuerySqliteFails
  BY <1>20 DEF QuerySqliteFails, TypeOK, Ordered
<1>21. CASE QueryFiles
  BY <1>21 DEF QueryFiles, TypeOK, Ordered
<1>22. CASE QueryEnd
  BY <1>22 DEF QueryEnd, TypeOK, Ordered
<1>23. CASE Crash
  BY <1>23 DEF Crash, TypeOK, Ordered
<1>24. CASE UNCHANGED vars
  BY <1>24 DEF vars, Ordered
<1>25. ASSUME NEW e \in Events, SyncFailed(e) PROVE Ordered'
  BY <1>25 DEF SyncFailed, TypeOK, Ordered
<1>26. CASE FlushFailed
  BY <1>26 DEF FlushFailed, Move, TypeOK, Ordered
<1>27. CASE QueryGivesUp
  BY <1>27 DEF QueryGivesUp, Ordered
<1> QED
  BY <1>1, <1>2, <1>3, <1>4, <1>5, <1>6, <1>7, <1>8, <1>9, <1>10, <1>11,
     <1>12, <1>13, <1>14, <1>15, <1>16, <1>17, <1>18, <1>19, <1>20, <1>21,
     <1>22, <1>23, <1>24, <1>25, <1>26, <1>27 DEF Next, Writer, Worker, Rebuilder, Reader


----------------------------------------------------------------------------
LEMMA InitAuditInv == Init => AuditInv /\ Ordered
<1> SUFFICES ASSUME Init PROVE AuditInv /\ Ordered
  OBVIOUS
<1> USE AuditAssumption
<1>1. TypeOK
  <2>1. file \in [Events -> 0..Nowhere] /\ at \in [Events -> Places]
    BY DEF Init, Places, Nowhere
  <2>2. q \in Queries
    BY DEF Init, NoQuery, Queries
  <2>3. index \in [Events -> Nat] /\ indexPending \in Nat
    BY DEF Init
  <2>4. crashes \in 0..MaxCrashes /\ resets \in 0..MaxResets
    BY DEF Init
  <2> QED
    BY <2>1, <2>2, <2>3, <2>4 DEF Init, TypeOK
<1>2. PendingCounts
  <2>1. Counted = {}
    BY DEF Init, Counted, In
  <2> QED
    BY <2>1, FS_EmptySet DEF Init, PendingCounts
<1>3. Phases /\ Covered /\ Asked
  BY DEF Init, Phases, Covered, Asked, FreshIndexedAnswer, NoQuery
<1>4. Raced /\ Ordered
  BY DEF Init, Raced, OnlyRacedTwice, Ordered
<1> QED
  BY <1>1, <1>2, <1>3, <1>4 DEF AuditInv, Counts

LEMMA NextAuditInv == AuditInv /\ Ordered /\ [Next]_vars => (AuditInv /\ Ordered)'
  BY NextTypeOK, NextPendingCounts, NextPhases, NextCovered, NextAsked,
     NextRaced,
     NextOrdered DEF AuditInv, Counts

(* The index invariant and the order of the files hold in every behaviour  *)
(* of the audit log (internal/server/audit.go).                            *)
THEOREM AuditInvariant == Spec => [](AuditInv /\ Ordered)
  BY InitAuditInv, NextAuditInv, PTL DEF Spec

(* Every variable of the audit log keeps its type; in particular the       *)
(* counter indexPending never falls below zero (audit.go:107, 186).        *)
THEOREM AuditTypeCorrect == Spec => []TypeOK
<1>1. AuditInv => TypeOK
  BY DEF AuditInv, Counts
<1> QED
  BY <1>1, AuditInvariant, PTL

(* indexPending is the number of events between their Add(1) and their     *)
(* Add(-1) (audit.go:97, 107, 186), for any channel and batch size.        *)
THEOREM AuditPendingCounts == Spec => []PendingCounts
<1>1. AuditInv => PendingCounts
  BY DEF AuditInv, Counts
<1> QED
  BY <1>1, AuditInvariant, PTL

(* An answer from SQLite contains every readable event whose Write had     *)
(* returned when the query began, unless indexReady was cleared, or a      *)
(* restore failed, while the query was past its look at indexReady         *)
(* (audit.go:105, 124-127, 184).                                           *)
THEOREM AuditFreshAnswer == Spec => []FreshIndexedAnswer
<1>1. AuditInv => FreshIndexedAnswer
  BY DEF AuditInv, Asked
<1> QED
  BY <1>1, AuditInvariant, PTL

(* Only an event in flight during a backup restore's rebuild can be listed *)
(* twice (audit.go:214, 288-310).                                          *)
THEOREM AuditOnlyRacedTwice == Spec => []OnlyRacedTwice
<1>1. AuditInv => OnlyRacedTwice
  BY DEF AuditInv, Raced
<1> QED
  BY <1>1, AuditInvariant, PTL

(* In ordered files a newer event is read before an older one, so fewer    *)
(* events are read before it.                                              *)
LEMMA OrderedReadsNewestFirst ==
  ASSUME TypeOK, Ordered PROVE NewestFirst
<1> SUFFICES ASSUME NEW e \in queryFiles, NEW f \in Readable, f > e
             PROVE  f \in queryFiles
  BY DEF NewestFirst
<1> DEFINE Before(x) == {g \in Readable : ReadBefore(g, x)}
<1>1. e \in Readable /\ Cardinality(Before(e)) < QueryMax
  BY DEF queryFiles
<1>2. Before(f) \subseteq Before(e)
  <2> SUFFICES ASSUME NEW g \in Readable, ReadBefore(g, f) PROVE ReadBefore(g, e)
    OBVIOUS
  <2>1. e \in Nat /\ f \in Nat /\ g \in Nat /\ file[e] \in Nat /\ file[f] \in Nat /\ file[g] \in Nat
    BY <1>1, AuditAssumption DEF Readable, TypeOK, Nowhere, Events
  <2>2. file[e] >= file[f]
    BY <1>1, <2>1, AuditAssumption DEF Ordered, Readable, Nowhere
  <2> QED
    BY <2>1, <2>2 DEF ReadBefore
<1>3. IsFiniteSet(Before(e)) /\ IsFiniteSet(Before(f))
  BY EventsFinite DEF Readable
<1>4. /\ Cardinality(Before(f)) <= Cardinality(Before(e))
      /\ Cardinality(Before(f)) \in Nat /\ Cardinality(Before(e)) \in Nat
  <2> HIDE DEF Before
  <2> QED
    BY <1>2, <1>3, FS_Subset, FS_CardinalityType
<1>5. Cardinality(Before(f)) < QueryMax
  <2> HIDE DEF Before
  <2> QED
    BY <1>1, <1>4, AuditAssumption
<1> QED
  BY <1>5 DEF queryFiles

(* Reading the files newest first up to a limit never leaves out an event  *)
(* that is newer than one it returns, whatever rotation failed on the way  *)
(* (audit.go:377-392, 447-454).                                            *)
THEOREM AuditNewestFirst == Spec => []NewestFirst
<1>1. AuditInv /\ Ordered => NewestFirst
  BY OrderedReadsNewestFirst DEF AuditInv, Counts
<1> QED
  BY <1>1, AuditInvariant, PTL
=============================================================================
