------------------------- MODULE BatchInsert_proofs -------------------------
(* The rows of task table B: the invariants of BatchInsert, for every job.    *)
EXTENDS BatchInsert, FiniteSetTheorems, TLAPS

Uncounted(n) == Skipped(n) \/ Task(n).type \notin Types

\* What BatchRow has of row n.
Kind(n) == IF Skipped(n) THEN "unknown" ELSE arrTask_sql_info(Task(n), Reg(n))

-----------------------------------------------------------------------------
(* The inductive invariant. *)

Counts ==
    /\ job \in Jobs /\ bpc \in {"start", "row", "flush", "done"}
    /\ seen \in Nat /\ seen =< RowCount
    /\ total \in Nat /\ total =< seen
    /\ given \in Nat /\ errors \in 0..MaxErrors /\ handles \in BOOLEAN
    /\ batch \subseteq 1..seen /\ sent \subseteq 1..seen /\ cutoff \subseteq 1..seen
    /\ room \in Rooms /\ cur \in 0..MaxBatch
    /\ IsFiniteSet(batch) /\ Cardinality(batch) = IF Cut THEN room ELSE cur

\* A call that is not over has its connection; at first it has done nothing.
Phase ==
    /\ bpc # "done" => given = 0 /\ flush = "TRUE" /\ result = "none"
    /\ bpc = "start" => /\ seen = 0 /\ total = 0 /\ cur = 0
                        /\ batch = {} /\ sent = {} /\ cutoff = {}
    /\ bpc = "flush" => Batching
    /\ ~Batching => batch = {} /\ cur = 0

\* Between rows the batch is not due.
NotDue == bpc = "row" => cur < MaxBatch /\ (cur > 0 => total # RowCount)

\* A count that has fallen behind did so at a row.
Behind == Batching => (total = seen \/ \E n \in 1..seen : Uncounted(n))

IInv == Counts /\ Phase /\ NotDue /\ Behind /\ RowsOnce /\ TailBound /\ GivenBackOnce

-----------------------------------------------------------------------------
(* Lemmas about the rows of a job. *)

\* Both ways to make a row agree on who is to get a task.
LEMMA SameClients ==
    \A t, r : /\ arrTask_sql_info(t, r) = "TRUE" <=> Fits(t, r)
              /\ arrTask_sql_info(t, r) = "unknown" <=> t.type \notin Types
              /\ arrProc_task_info(t, r) = "INSERT" <=> Fits(t, r)
<1> TAKE t, r
<1>1. CASE t.type \notin Types
      BY <1>1 DEF Types, Fits, arrTask_sql_info, arrProc_task_info
<1>2. CASE t.type = "SOFTWARE_TYPE"
      BY <1>2 DEF Types, Fits, arrTask_sql_info, arrProc_task_info, GetSoftwareTaskSql,
                  InsertSoftwareTaskData
<1>3. CASE t.type = "CLIENT_UPDATE_TYPE"
      BY <1>3 DEF Types, Fits, arrTask_sql_info, arrProc_task_info,
                  GetClientUpdateTaskSql, InsertClientUpdateTaskData
<1>4. CASE t.type \in Types \ {"SOFTWARE_TYPE", "CLIENT_UPDATE_TYPE"}
      BY <1>4 DEF Types, Fits, arrTask_sql_info, arrProc_task_info,
                  GetSysInformTaskSql, InsertSysInformTaskData, GetBookTaskSql,
                  InsertBookTaskData, GetWeiboTaskSql, InsertWeiboTaskData, GetAdTaskSql,
                  InsertAdTaskData, GetNewPreTaskSql, InsertNewPreTaskData,
                  GetRecommUrlTaskSql, InsertRecommUrlTaskData
<1> QED BY <1>1, <1>2, <1>3, <1>4 DEF Types

\* What BatchRow has of a row.
LEMMA KindOfRow ==
    \A n : (Kind(n) = "TRUE" <=> Wanted(n)) /\ (Kind(n) = "unknown" <=> Uncounted(n))
BY SameClients DEF Kind, Wanted, Uncounted

\* What does not depend on the state of the call.
LEMMA SameJob ==
    ASSUME job' = job
    PROVE  /\ RowCount' = RowCount /\ Batching' = Batching /\ Exactly' = Exactly
           /\ \A n : Uncounted(n)' = Uncounted(n) /\ Wanted(n)' = Wanted(n)
           /\ \A n : (Skipped(n)' = Skipped(n)) /\ (Task(n)' = Task(n))
BY DEF RowCount, Tasks, Regs, Batching, Exactly, Uncounted, Wanted, Skipped, Task, Reg

LEMMA RowCountNat ==
    ASSUME job \in Jobs
    PROVE  RowCount \in Nat
<1>1. Len(job.tasks) \in Nat /\ Len(job.regs) \in Nat
      BY BatchAssumption
<1>2. \A a, b \in Nat : a * b \in Nat
      OBVIOUS
<1> QED BY <1>1, <1>2 DEF RowCount, Tasks, Regs

-----------------------------------------------------------------------------
(* One lemma per action.  Most of them end the call. *)

LEMMA InitIInv == BatchInit => IInv
<1> SUFFICES ASSUME BatchInit PROVE IInv
    OBVIOUS
<1>1. IsFiniteSet({}) /\ Cardinality({}) = 0
      BY FS_EmptySet
<1>2. RowCount \in Nat
      BY RowCountNat DEF BatchInit
<1>4. ~(0 > room) /\ room \in Rooms
      BY BatchAssumption DEF BatchInit
<1>3. Counts
      BY <1>1, <1>2, <1>4, BatchAssumption DEF Counts, BatchInit, Cut
<1> QED BY <1>1, <1>3 DEF IInv, Phase, NotDue, Behind, RowsOnce, TailBound, GivenBackOnce, BatchInit

LEMMA EndingSteps ==
    ASSUME IInv, NoConnection \/ OutOfMemory \/ InsertTaskDataFails
    PROVE  IInv'
<1> USE BatchAssumption
<1>0. job' = job /\ RowCount \in Nat
      BY RowCountNat DEF IInv, Counts, NoConnection, OutOfMemory, InsertTaskDataFails
<1>1. /\ bpc' = "done" /\ result' # "TRUE"
      /\ given' = 1 \/ (given' = 0 /\ result' = "CONN_POOL_ISNOT_EXIST")
      BY DEF IInv, Counts, Phase, NoConnection, OutOfMemory, InsertTaskDataFails, Returns
<1>2. Counts'
  <2>1. /\ UNCHANGED <<room, batch, cur, cutoff, total, handles>>
        /\ errors' \in 0..MaxErrors
        /\ seen' = seen \/ (seen' = seen + 1 /\ seen < RowCount)
        /\ sent' = sent \/ sent' = sent \cup {seen'}
        BY DEF IInv, Counts, NoConnection, OutOfMemory, InsertTaskDataFails, BatchFault
  <2>2. sent' = sent \cup {seen'} => sent' = sent \/ seen' = seen + 1
        BY DEF IInv, Counts, NoConnection, OutOfMemory, InsertTaskDataFails
  <2>3. seen' \in Nat /\ seen' =< RowCount' /\ batch' \subseteq 1..seen' /\ total' =< seen'
        BY <1>0, <2>1, SameJob DEF IInv, Counts
  <2>4. sent' \subseteq 1..seen'
    <3>1. seen \in Nat /\ sent \subseteq 1..seen
          BY DEF IInv, Counts
    <3>2. CASE seen' = seen /\ sent' = sent
          BY <3>1, <3>2
    <3>3. CASE seen' = seen + 1 /\ sent' \in {sent, sent \cup {seen'}}
          BY <3>1, <3>3
    <3> QED BY <2>1, <2>2, <3>2, <3>3
  <2>5. cutoff' \subseteq 1..seen' /\ Cut' = Cut
    <3>1. seen \in Nat /\ cutoff \subseteq 1..seen
          BY DEF IInv, Counts
    <3> QED BY <3>1, <2>1 DEF Cut
  <2> QED BY <1>0, <1>1, <2>1, <2>3, <2>4, <2>5 DEF IInv, Counts
<1>3. Phase' /\ NotDue' /\ RowsOnce' /\ TailBound'
      BY <1>0, <1>1, SameJob DEF IInv, Phase, NotDue, RowsOnce, TailBound, NoConnection,
         OutOfMemory, InsertTaskDataFails
<1>4. Behind'
  <2>1. CASE ~InsertTaskDataFails
        BY <2>1, <1>0, SameJob DEF IInv, Behind, NoConnection, OutOfMemory
  <2>2. CASE InsertTaskDataFails
        BY <2>2, <1>0, SameJob DEF Behind, InsertTaskDataFails
  <2> QED BY <2>1, <2>2
<1>5. GivenBackOnce'
      BY <1>1 DEF GivenBackOnce
<1> QED BY <1>2, <1>3, <1>4, <1>5 DEF IInv

LEMMA GetConnStep ==
    ASSUME IInv, GetLTTaskBConnInfo
    PROVE  IInv'
<1>0. job' = job /\ RowCount \in Nat
      BY RowCountNat DEF IInv, Counts, GetLTTaskBConnInfo
<1>1. /\ bpc = "start" /\ bpc' = "row"
      /\ UNCHANGED <<job, seen, room, batch, cur, cutoff, total, sent, given, flush, handles,
                     result, errors>>
      BY DEF GetLTTaskBConnInfo
<1>2. /\ cur = 0 /\ MaxBatch > 0 /\ seen = 0 /\ batch = {} /\ sent = {} /\ cutoff = {}
      BY <1>1, BatchAssumption DEF IInv, Phase
<1>3. Counts' /\ Phase' /\ NotDue' /\ Behind'
      BY <1>0, <1>1, <1>2, SameJob DEF IInv, Counts, Phase, NotDue, Behind, Cut
<1>4. RowsOnce' /\ TailBound' /\ GivenBackOnce'
      BY <1>0, <1>1, <1>2, SameJob DEF IInv, Phase, RowsOnce, TailBound, GivenBackOnce
<1> QED BY <1>3, <1>4 DEF IInv

LEMMA SingleRowStep ==
    ASSUME IInv, InsertTaskData
    PROVE  IInv'
<1>0. job' = job /\ RowCount \in Nat
      BY RowCountNat DEF IInv, Counts, InsertTaskData
<1>1. /\ bpc = "row" /\ seen' = seen + 1 /\ seen < RowCount /\ ~Batching
      /\ UNCHANGED <<job, bpc, room, batch, cur, cutoff, total, given, flush, handles,
                     result, errors>>
      /\ batch = {}
      BY DEF InsertTaskData, IInv, Phase
<1>2. sent' = IF Wanted(seen + 1) THEN sent \cup {seen + 1} ELSE sent
  <2> DEFINE n == seen + 1
             does == IF Skipped(n) THEN "nothing" ELSE arrProc_task_info(Task(n), Reg(n))
  <2>1. sent' = IF does = "INSERT" THEN sent \cup {n} ELSE sent
        BY DEF InsertTaskData
  <2>2. does = "INSERT" <=> Wanted(n)
        BY SameClients DEF Wanted
  <2> QED BY <2>1, <2>2
<1>3. seen \in Nat /\ 1..(seen + 1) = 1..seen \cup {seen + 1} /\ seen + 1 \notin 1..seen
      BY DEF IInv, Counts
<1>4. Counts'
      BY <1>0, <1>1, <1>2, <1>3, SameJob DEF IInv, Counts, Cut
<1>5. Phase' /\ NotDue' /\ Behind' /\ TailBound' /\ GivenBackOnce'
      BY <1>0, <1>1, SameJob DEF IInv, Phase, NotDue, Behind, TailBound, GivenBackOnce
<1>6. RowsOnce'
      BY <1>0, <1>1, <1>2, <1>3, SameJob DEF IInv, RowsOnce
<1> QED BY <1>4, <1>5, <1>6 DEF IInv

\* A row that is counted, and a row that is not.
LEMMA BatchRowStep ==
    ASSUME IInv, BatchRow
    PROVE  IInv'
<1> DEFINE n == seen + 1
<1>0. job' = job /\ RowCount \in Nat
      BY RowCountNat DEF IInv, Counts, BatchRow
<1>1. /\ bpc = "row" /\ Batching /\ seen < RowCount /\ seen' = n
      /\ UNCHANGED <<job, room, sent, given, flush, handles, result, errors>>
      /\ IF Kind(n) = "unknown"
         THEN UNCHANGED <<batch, cur, cutoff, total, bpc>>
         ELSE /\ IF Kind(n) = "TRUE"
                 THEN Appended(n) /\ cur' = cur + 1
                 ELSE UNCHANGED <<batch, cur, cutoff>>
              /\ total' = total + 1
              /\ bpc' = IF cur' > 0 /\ Full(cur', total') THEN "flush" ELSE "row"
      BY DEF BatchRow, Kind
<1>2. /\ seen \in Nat /\ total \in Nat /\ total =< seen /\ cur \in Nat /\ cur < MaxBatch
      /\ MaxBatch \in Nat /\ room \in Rooms /\ room \in Nat
      /\ batch \subseteq 1..seen /\ cutoff \subseteq 1..seen /\ n \notin batch \cup cutoff
      BY <1>1, BatchAssumption DEF IInv, Counts, NotDue
<1>3. \/ Kind(n) # "TRUE" /\ batch' = batch /\ cutoff' = cutoff /\ cur' = cur
      \/ /\ Kind(n) = "TRUE" /\ cur < room /\ cur' = cur + 1
         /\ batch' = batch \cup {n} /\ cutoff' = cutoff
      \/ /\ Kind(n) = "TRUE" /\ ~(cur < room) /\ cur' = cur + 1
         /\ batch' = batch /\ cutoff' = cutoff \cup {n}
      BY <1>1 DEF Appended
<1>4. IsFiniteSet(batch \cup {n}) /\ Cardinality(batch \cup {n}) = Cardinality(batch) + 1
      BY <1>2, FS_AddElement DEF IInv, Counts
<1>5. 1..(seen + 1) = 1..seen \cup {n} /\ n \notin 1..seen
      BY <1>2
<1>6. Counts'
  <2>1. bpc' \in {"row", "flush"} /\ total' \in Nat /\ total' =< seen'
        BY <1>1, <1>2
  <2>2. cur' \in 0..MaxBatch
        BY <1>2, <1>3
  <2>3. batch' \subseteq 1..seen' /\ cutoff' \subseteq 1..seen'
    <3>1. batch' \subseteq batch \cup {n} /\ cutoff' \subseteq cutoff \cup {n}
          BY <1>3
    <3> QED BY <1>1, <1>2, <1>5, <3>1
  <2>4. IsFiniteSet(batch') /\ Cardinality(batch') = IF Cut' THEN room' ELSE cur'
    <3>1. IsFiniteSet(batch) /\ Cardinality(batch) = (IF cur > room THEN room ELSE cur)
          BY DEF IInv, Counts, Cut
    <3>2. CASE batch' = batch
          BY <1>1, <1>2, <1>3, <3>1, <3>2 DEF Cut
    <3>3. CASE batch' = batch \cup {n} /\ cur' = cur + 1 /\ cur < room
          BY <1>1, <1>2, <1>4, <3>1, <3>3 DEF Cut
    <3> QED BY <1>3, <3>2, <3>3
  <2>5. seen' \in Nat /\ seen' =< RowCount' /\ sent' \subseteq 1..seen'
        BY <1>0, <1>1, <1>2, <1>5, SameJob DEF IInv, Counts
  <2> QED BY <2>1, <2>2, <2>3, <2>4, <2>5, <1>0, <1>1 DEF IInv, Counts
<1>7. Phase' /\ TailBound' /\ GivenBackOnce'
      BY <1>0, <1>1, SameJob DEF IInv, Phase, TailBound, GivenBackOnce
<1>8. NotDue'
  <2>1. RowCount' = RowCount
        BY <1>0, SameJob
  <2>2. CASE Kind(n) = "unknown"
        BY <2>1, <2>2, <1>1, <1>2 DEF IInv, NotDue
  <2>3. CASE Kind(n) # "unknown"
    <3>1. SUFFICES ASSUME bpc' = "row"
                   PROVE  cur' < MaxBatch /\ (cur' > 0 => total' # RowCount)
          BY <2>1 DEF NotDue
    <3>2. ~(cur' > 0 /\ (cur' = MaxBatch \/ total' = RowCount))
          BY <3>1, <2>3, <1>1 DEF Full
    <3> QED BY <3>2, <1>2, <1>3
  <2> QED BY <2>2, <2>3
<1>9. Behind'
  <2>1. Kind(n) = "unknown" => Uncounted(n)
        BY KindOfRow
  <2>2. total = seen \/ \E k \in 1..seen : Uncounted(k)
        BY <1>1 DEF IInv, Behind
  <2>3. total' = seen' \/ \E k \in 1..seen' : Uncounted(k)
        BY <1>1, <1>2, <1>5, <2>1, <2>2
  <2> QED BY <2>3, <1>0, SameJob DEF Behind
<1>10. RowsOnce'
  <2>1. /\ sent \cup batch \cup cutoff = {k \in 1..seen : Wanted(k)}
        /\ sent \cap batch = {} /\ sent \cap cutoff = {} /\ batch \cap cutoff = {}
        /\ cutoff # {} => \E r \in Rooms : r < MaxBatch
        /\ n \notin sent \cup batch \cup cutoff
        BY <1>1, <1>2, <1>5 DEF IInv, RowsOnce, Counts
  <2>2. Kind(n) = "TRUE" <=> Wanted(n)
        BY KindOfRow
  <2>3. /\ sent' \cup batch' \cup cutoff' = {k \in 1..n : Wanted(k)}
        /\ sent' \cap batch' = {} /\ sent' \cap cutoff' = {} /\ batch' \cap cutoff' = {}
    <3>1. {k \in 1..n : Wanted(k)} =
              {k \in 1..seen : Wanted(k)} \cup (IF Wanted(n) THEN {n} ELSE {})
          BY <1>5
    <3> QED BY <2>1, <2>2, <3>1, <1>1, <1>3
  <2>4. cutoff' # {} => \E r \in Rooms : r < MaxBatch
    <3>1. ~(cur < room) => room < MaxBatch
          BY <1>2
    <3> QED BY <2>1, <3>1, <1>2, <1>3
  <2> QED BY <2>3, <2>4, <1>0, <1>1, SameJob DEF RowsOnce
<1> QED BY <1>6, <1>7, <1>8, <1>9, <1>10 DEF IInv

LEMMA FlushBatchStep ==
    ASSUME IInv, FlushBatch
    PROVE  IInv'
<1>0. job' = job /\ RowCount \in Nat
      BY RowCountNat DEF IInv, Counts, FlushBatch
<1>1. /\ bpc = "flush" /\ bpc' = "row" /\ Batching
      /\ sent' = sent \cup batch /\ batch' = {} /\ cur' = 0 /\ room' \in Rooms
      /\ UNCHANGED <<job, seen, cutoff, total, given, flush, handles, result, errors>>
      BY DEF FlushBatch, Reset, IInv, Phase
<1>2. IsFiniteSet({}) /\ Cardinality({}) = 0 /\ MaxBatch \in Nat /\ 0 < MaxBatch
      BY FS_EmptySet, BatchAssumption
<1>3. Counts'
  <2>1. ~Cut' /\ cur' \in 0..MaxBatch
        BY <1>1, <1>2, BatchAssumption DEF Cut
  <2> QED BY <1>0, <1>1, <1>2, <2>1, SameJob DEF IInv, Counts
<1>4. Phase' /\ NotDue' /\ Behind' /\ TailBound' /\ GivenBackOnce'
      BY <1>0, <1>1, <1>2, SameJob DEF IInv, Phase, NotDue, Behind, TailBound, GivenBackOnce
<1>5. RowsOnce'
      BY <1>0, <1>1, SameJob DEF IInv, RowsOnce
<1> QED BY <1>3, <1>4, <1>5 DEF IInv

\* The call ends with the rows before or after the failure.
LEMMA FlushFailsStep ==
    ASSUME IInv, FlushFails
    PROVE  IInv'
<1>0. job' = job /\ RowCount \in Nat
      BY RowCountNat DEF IInv, Counts, FlushFails
<1>1. /\ bpc = "flush" /\ bpc' = "done" /\ result' = "EXECUTE_SQL_ERROR"
      /\ UNCHANGED <<job, seen, room, batch, cur, cutoff, total, handles>>
      /\ sent' \in {sent, sent \cup batch} /\ errors' \in 0..MaxErrors
      /\ flush' = "EXECUTE_SQL_ERROR"
      BY BatchAssumption DEF FlushFails, Returns, BatchFault, IInv, Counts
<1>2. given' = (IF handles THEN 1 ELSE 0) + (IF Exactly THEN 1 ELSE 0)
      BY <1>1 DEF FlushFails, IInv, Phase
<1>3. Counts'
      BY <1>0, <1>1, <1>2, SameJob DEF IInv, Counts, Cut
<1>4. Phase' /\ NotDue' /\ Behind' /\ RowsOnce' /\ TailBound'
      BY <1>0, <1>1, SameJob DEF IInv, Phase, NotDue, Behind, RowsOnce, TailBound
<1>5. GivenBackOnce'
      BY <1>0, <1>1, <1>2, SameJob DEF GivenBackOnce
<1> QED BY <1>3, <1>4, <1>5 DEF IInv

\* What is left in the batch is left because the count has fallen behind.
LEMMA LastRowStep ==
    ASSUME IInv, LastRow
    PROVE  IInv'
<1>0. job' = job /\ RowCount \in Nat
      BY RowCountNat DEF IInv, Counts, LastRow
<1>1. /\ bpc = "row" /\ bpc' = "done" /\ result' = "TRUE" /\ seen = RowCount
      /\ given' = given + 1 /\ given = 0
      /\ UNCHANGED <<job, seen, room, batch, cur, cutoff, total, sent, flush, handles, errors>>
      BY DEF LastRow, Returns, IInv, Phase
<1>2. Counts' /\ Phase' /\ NotDue' /\ Behind' /\ RowsOnce' /\ GivenBackOnce'
      BY <1>0, <1>1, SameJob DEF IInv, Counts, Phase, NotDue, Behind, RowsOnce, GivenBackOnce,
                                Cut
<1>3. TailBound'
  <2>1. /\ sent \cup batch \cup cutoff = {n \in 1..RowCount : Wanted(n)}
        /\ cur < MaxBatch
        /\ cur > 0 => total # seen /\ Batching
        BY <1>1 DEF IInv, RowsOnce, NotDue, Phase
  <2>2. cur > 0 => \E n \in 1..RowCount : Uncounted(n)
        BY <2>1, <1>1 DEF IInv, Behind
  <2> QED BY <2>1, <2>2, <1>0, <1>1, SameJob DEF TailBound, Uncounted
<1> QED BY <1>2, <1>3 DEF IInv

LEMMA StutterStep ==
    ASSUME IInv, UNCHANGED batchVars
    PROVE  IInv'
<1>1. /\ UNCHANGED <<job, bpc, seen, room, batch, cur, cutoff, total, sent, given, flush,
                     handles, result, errors>>
      BY DEF batchVars
<1> QED BY <1>1, SameJob DEF IInv, Counts, Phase, NotDue, Behind, RowsOnce, TailBound,
                             GivenBackOnce, Cut

-----------------------------------------------------------------------------
(* The theorems. *)

LEMMA Inductive == BatchSpec => []IInv
<1>1. IInv /\ [BatchNext]_batchVars => IInv'
      BY EndingSteps, GetConnStep, SingleRowStep, BatchRowStep, FlushBatchStep,
         FlushFailsStep, LastRowStep, StutterStep DEF BatchNext
<1> QED BY InitIInv, <1>1, PTL DEF BatchSpec

\* For every list of tasks and clients, every size of a batch and every room for its text,
\* the count of a batch stays within the configured size, and counts its rows unless some
\* were cut, which leaves as many as there was room for.
THEOREM TypeCorrect == BatchSpec => []BatchTypeOK
<1>1. IInv => BatchTypeOK
      BY DEF IInv, Counts, BatchTypeOK
<1> QED BY Inductive, <1>1, PTL

\* No row is made twice while a call goes on, and none is left out but those that were
\* cut, whichever function makes it; where every batch fits into its buffer none is cut.
THEOREM EveryRowOnce == BatchSpec => []RowsOnce
<1>1. IInv => RowsOnce
      BY DEF IInv
<1> QED BY Inductive, <1>1, PTL

\* A call that succeeds has sent every row that was not cut, but for a last batch after
\* an uncounted row.
THEOREM TailsBounded == BatchSpec => []TailBound
<1>1. IInv => TailBound
      BY DEF IInv
<1> QED BY Inductive, <1>1, PTL

\* The connection is given back once, but for the failed INSERT of a batch.
THEOREM ConnectionGivenBack == BatchSpec => []GivenBackOnce
<1>1. IInv => GivenBackOnce
      BY DEF IInv
<1> QED BY Inductive, <1>1, PTL
=============================================================================
