---------------------------- MODULE BatchInsert ----------------------------
(***************************************************************************)
(* How the rows of task table B are made (service_sub_task_b.c).            *)
(*                                                                          *)
(* Every task of a list is sent to every registered client it fits.  There  *)
(* are three functions: InsertTaskData executes one INSERT per row,         *)
(* BatchInsertTaskData collects the rows of several and executes one INSERT *)
(* for them, and InsertExactSndTaskData does that for the one task that is  *)
(* sent to the clients it names.  A batch goes out when it is full, or when *)
(* as many rows were looked at as there are.  The text of a batch is made   *)
(* in a buffer, and a row that finds it full is cut without a word.         *)
(*                                                                          *)
(* External are the database, the pool (GetLTTaskBConnInfo, ReleaseConn,    *)
(* HandleDBError), the function InsertDataToTable that executes a batch,    *)
(* and the threads that call these functions.                               *)
(***************************************************************************)
EXTENDS Integers, Sequences, FiniteSets

CONSTANTS
    Jobs,       \* calls: the function, its tasks and its clients, as sequences
    MaxBatch,   \* g_srv_conf_info.nMax_batchinsert_num
    Rooms,      \* how many rows may fit into MAX_BATCHINSERT_SQL_SIZE bytes
    MaxErrors   \* bound: failures in a behaviour

\* The size of a batch is configured, and no line compares it with that of its buffer.
ASSUME BatchAssumption ==
    /\ MaxBatch \in Nat \ {0} /\ Rooms \subseteq Nat
    /\ MaxErrors \in Nat
    /\ \A j \in Jobs : Len(j.tasks) \in Nat /\ Len(j.regs) \in Nat

VARIABLES
    job,       \* the call
    bpc,       \* where it is
    seen,      \* rows looked at: the indices of the two loops in one
    room,      \* rows of this batch that fit into its buffer: their lengths differ
    batch,     \* rows in the statement under construction
    cur,       \* nCur_sql_count
    cutoff,    \* history: rows whose text was cut
    total,     \* nTotal_sql_count
    sent,      \* rows the database has
    given,     \* how often the connection was given back
    flush,     \* how the INSERT of the last batch ended
    handles,   \* whether InsertDataToTable itself calls HandleDBError
    result,    \* what the function returned
    errors

batchVars == <<job, bpc, seen, room, batch, cur, cutoff, total, sent, given, flush, handles,
               result, errors>>

Batching == job.fn # "InsertTaskData"
Exactly == job.fn = "InsertExactSndTaskData"
Tasks == Len(job.tasks)
Regs == Len(job.regs)

\* Row n is for one task and one client: the inner loop goes through the clients.
RowCount == Tasks * Regs
Task(n) == job.tasks[((n - 1) \div Regs) + 1]
Reg(n) == job.regs[((n - 1) % Regs) + 1]

-----------------------------------------------------------------------------
(* Which clients a task fits: the functions that write one row of a batch.    *)

GetSysInformTaskSql(t, r) == "TRUE"
\* Software has an edition for one type of phone, or 0 for any.
GetSoftwareTaskSql(t, r) ==
    IF t.edition # 0 /\ r.phone + 1 # t.edition THEN "SND_TYPE_NOT_MATCH" ELSE "TRUE"
GetBookTaskSql(t, r) == "TRUE"
GetWeiboTaskSql(t, r) == "TRUE"
\* Phones of type 0 only.
GetClientUpdateTaskSql(t, r) == IF r.phone # 0 THEN "SND_TYPE_NOT_MATCH" ELSE "TRUE"
GetAdTaskSql(t, r) == "TRUE"
GetNewPreTaskSql(t, r) == "TRUE"
GetRecommUrlTaskSql(t, r) == "TRUE"

Types == {"SYSTEM_INFORM", "SOFTWARE_TYPE", "BOOK_TYPE", "BLOG_TYPE", "CLIENT_UPDATE_TYPE",
          "ADVERTISE_TYPE", "NEW_PREFERENCE", "RECOMM_URL"}

arrTask_sql_info(t, r) ==
    CASE t.type = "SYSTEM_INFORM" -> GetSysInformTaskSql(t, r)
      [] t.type = "SOFTWARE_TYPE" -> GetSoftwareTaskSql(t, r)
      [] t.type = "BOOK_TYPE" -> GetBookTaskSql(t, r)
      [] t.type = "BLOG_TYPE" -> GetWeiboTaskSql(t, r)
      [] t.type = "CLIENT_UPDATE_TYPE" -> GetClientUpdateTaskSql(t, r)
      [] t.type = "ADVERTISE_TYPE" -> GetAdTaskSql(t, r)
      [] t.type = "NEW_PREFERENCE" -> GetNewPreTaskSql(t, r)
      [] t.type = "RECOMM_URL" -> GetRecommUrlTaskSql(t, r)
      [] OTHER -> "unknown"

(* The functions that insert one row: what they execute for it.               *)

\* The type of phone is compared with the edition as it stands.
SoftwareOffByOne(t, r) ==
    IF t.edition # 0 /\ r.phone # t.edition THEN "nothing" ELSE "INSERT"

InsertSysInformTaskData(t, r) == "INSERT"
InsertSoftwareTaskData(t, r) ==
    IF t.edition # 0 /\ r.phone + 1 # t.edition THEN "nothing" ELSE "INSERT"
InsertBookTaskData(t, r) == "INSERT"
InsertWeiboTaskData(t, r) == "INSERT"
InsertClientUpdateTaskData(t, r) == IF r.phone # 0 THEN "nothing" ELSE "INSERT"
InsertAdTaskData(t, r) == "INSERT"
InsertNewPreTaskData(t, r) == "INSERT"
InsertRecommUrlTaskData(t, r) == "INSERT"

arrProc_task_info(t, r) ==
    CASE t.type = "SYSTEM_INFORM" -> InsertSysInformTaskData(t, r)
      [] t.type = "SOFTWARE_TYPE" -> InsertSoftwareTaskData(t, r)
      [] t.type = "BOOK_TYPE" -> InsertBookTaskData(t, r)
      [] t.type = "BLOG_TYPE" -> InsertWeiboTaskData(t, r)
      [] t.type = "CLIENT_UPDATE_TYPE" -> InsertClientUpdateTaskData(t, r)
      [] t.type = "ADVERTISE_TYPE" -> InsertAdTaskData(t, r)
      [] t.type = "NEW_PREFERENCE" -> InsertNewPreTaskData(t, r)
      [] t.type = "RECOMM_URL" -> InsertRecommUrlTaskData(t, r)
      [] OTHER -> "nothing"

-----------------------------------------------------------------------------

BatchInit ==
    /\ job \in Jobs
    /\ bpc = "start"
    /\ seen = 0 /\ batch = {} /\ cur = 0 /\ total = 0 /\ sent = {}
    /\ room \in Rooms /\ cutoff = {}
    /\ given = 0 /\ flush = "TRUE" /\ handles \in BOOLEAN
    /\ result = "none" /\ errors = 0

BatchFault == errors < MaxErrors /\ errors' = errors + 1

Returns(r) == bpc' = "done" /\ result' = r

\* GetLTTaskBConnInfo and, for a batch, the buffer.
GetLTTaskBConnInfo ==
    /\ bpc = "start"
    /\ bpc' = "row"
    /\ UNCHANGED <<job, seen, room, batch, cur, cutoff, total, sent, given, flush, handles,
                   result, errors>>

NoConnection ==
    /\ bpc = "start"
    /\ BatchFault
    /\ Returns("CONN_POOL_ISNOT_EXIST")
    /\ UNCHANGED <<job, seen, room, batch, cur, cutoff, total, sent, given, flush, handles>>

\* The function returns without its connection.
KeepsConnection ==
    /\ bpc = "start" /\ Batching
    /\ BatchFault
    /\ Returns("OUT_OF_MEMORY_ERROR")
    /\ UNCHANGED <<job, seen, room, batch, cur, cutoff, total, sent, given, flush, handles>>

\* The connection is given back before the function returns.
OutOfMemory ==
    /\ bpc = "start" /\ Batching
    /\ BatchFault
    /\ given' = given + 1
    /\ Returns("OUT_OF_MEMORY_ERROR")
    /\ UNCHANGED <<job, seen, room, batch, cur, cutoff, total, sent, flush, handles>>

\* Tasks for named clients are left to InsertExactSndTaskData.
Skipped(n) == ~Exactly /\ Task(n).exact

\* InsertTaskData: one row.
InsertTaskData ==
    LET n == seen + 1
        does == IF Skipped(n) THEN "nothing" ELSE arrProc_task_info(Task(n), Reg(n))
    IN  /\ bpc = "row" /\ ~Batching /\ seen < RowCount
        /\ seen' = n
        /\ sent' = IF does = "INSERT" THEN sent \cup {n} ELSE sent
        /\ UNCHANGED <<job, bpc, room, batch, cur, cutoff, total, given, flush, handles,
                       result, errors>>

\* InsertTaskDataToTable fails: before or after the row is in the table.
InsertTaskDataFails ==
    LET n == seen + 1
    IN  /\ bpc = "row" /\ ~Batching /\ seen < RowCount
        /\ ~Skipped(n) /\ arrProc_task_info(Task(n), Reg(n)) = "INSERT"
        /\ BatchFault
        /\ seen' = n
        /\ sent' \in {sent, sent \cup {n}}
        /\ given' = given + 1
        /\ Returns("EXECUTE_SQL_ERROR")
        /\ UNCHANGED <<job, room, batch, cur, cutoff, total, flush, handles>>

\* SetExecuteSqlInfo: of a row that has no room left only a part, or nothing, is copied.
Appended(n) ==
    IF cur < room
    THEN batch' = batch \cup {n} /\ UNCHANGED cutoff
    ELSE cutoff' = cutoff \cup {n} /\ UNCHANGED batch

\* Only full batches go out.
NeverLast(c, t) == c = MaxBatch

\* The counts with the row that was just looked at.
Full(c, t) == c = MaxBatch \/ t = RowCount

\* BatchInsertTaskData and InsertExactSndTaskData: one row.  A row of a skipped task
\* or of an unknown type is not counted.
BatchRow ==
    LET n == seen + 1
        fits == IF Skipped(n) THEN "unknown" ELSE arrTask_sql_info(Task(n), Reg(n))
    IN  /\ bpc = "row" /\ Batching /\ seen < RowCount
        /\ seen' = n
        /\ IF fits = "unknown"
           THEN UNCHANGED <<batch, cur, cutoff, total, bpc>>
           ELSE /\ IF fits = "TRUE"
                   THEN Appended(n) /\ cur' = cur + 1
                   ELSE UNCHANGED <<batch, cur, cutoff>>
                /\ total' = total + 1
                /\ bpc' = IF cur' > 0 /\ Full(cur', total') THEN "flush" ELSE "row"
        /\ UNCHANGED <<job, room, sent, given, flush, handles, result, errors>>

\* The count of a batch goes on into the next.
KeepCount == cur

Reset == 0

\* Rows of the batch were cut: its text may end within one of them, and the word that
\* is taken off its end is not the last "union".
Cut == cur > room

\* InsertDataToTable: the batch is in the table and a new one begins.  A text that was
\* cut may still be a statement, for the rows that fit.
FlushBatch ==
    /\ bpc = "flush" /\ (Cut => batch # {})
    /\ sent' = sent \cup batch
    /\ batch' = {} /\ cur' = Reset /\ room' \in Rooms
    /\ bpc' = "row"
    /\ UNCHANGED <<job, seen, cutoff, total, given, flush, handles, result, errors>>

\* It fails, before or after the rows are in the table, or as its text is no statement.
\* InsertExactSndTaskData calls HandleDBError; in BatchInsertTaskData the call is commented
\* out.
FlushFails ==
    /\ bpc = "flush"
    /\ \/ Cut /\ UNCHANGED <<errors, sent>>
       \/ BatchFault /\ sent' \in {sent, sent \cup batch}
    /\ given' = given + (IF handles THEN 1 ELSE 0) + (IF Exactly THEN 1 ELSE 0)
    /\ flush' = "EXECUTE_SQL_ERROR"
    /\ Returns("EXECUTE_SQL_ERROR")
    /\ UNCHANGED <<job, seen, room, batch, cur, cutoff, total, handles>>

\* The rows are through: ReleaseConn.  What is left in the buffer is freed with it.
LastRow ==
    /\ bpc = "row" /\ seen = RowCount
    /\ given' = given + 1
    /\ Returns("TRUE")
    /\ UNCHANGED <<job, seen, room, batch, cur, cutoff, total, sent, flush, handles,
                   errors>>

BatchNext ==
    \/ GetLTTaskBConnInfo
    \/ NoConnection
    \/ OutOfMemory
    \/ InsertTaskData
    \/ InsertTaskDataFails
    \/ BatchRow
    \/ FlushBatch
    \/ FlushFails
    \/ LastRow

BatchSpec == BatchInit /\ [][BatchNext]_batchVars

-----------------------------------------------------------------------------
(* Properties. *)

\* The count of a batch never exceeds the configured one, and the rows it counts are
\* those that fit into the buffer and those that were cut (lines 905-914).
BatchTypeOK ==
    /\ job \in Jobs /\ bpc \in {"start", "row", "flush", "done"}
    /\ seen \in 0..RowCount /\ total \in 0..seen
    /\ batch \subseteq 1..seen /\ sent \subseteq 1..seen /\ cutoff \subseteq 1..seen
    /\ room \in Rooms /\ cur \in 0..MaxBatch
    /\ Cardinality(batch) = IF Cut THEN room ELSE cur
    /\ given \in Nat /\ errors \in 0..MaxErrors /\ handles \in BOOLEAN

\* Who is to get a task, said once for the two ways to make the rows.
Fits(t, r) ==
    /\ t.type \in Types
    /\ t.type = "SOFTWARE_TYPE" => t.edition \in {0, r.phone + 1}
    /\ t.type = "CLIENT_UPDATE_TYPE" => r.phone = 0
Wanted(n) == ~Skipped(n) /\ Fits(Task(n), Reg(n))

\* While nothing has failed, the rows that are in the table or in the batch and those
\* that were cut are together the rows the loops have come by that someone is to get,
\* and none is in two of them: a row goes out once, whichever function makes it and
\* however the batches are cut.  Rows are cut only where a batch may be larger than its
\* buffer, which no line excludes (SetExecuteSqlInfo, line 57); a call goes on after
\* them, and they are in no table.
RowsOnce ==
    bpc \in {"row", "flush"} =>
        /\ sent \cup batch \cup cutoff = {n \in 1..seen : Wanted(n)}
        /\ sent \cap batch = {} /\ sent \cap cutoff = {} /\ batch \cap cutoff = {}
        /\ cutoff # {} => Batching /\ \E r \in Rooms : r < MaxBatch

\* A call that returns TRUE has sent every row that was not cut, but for the last batch
\* of a list with a task that was not counted (one for named clients, or of an unknown
\* type): its count never reaches the number of rows (line 915), and what is left is
\* lost.
TailBound ==
    result = "TRUE" =>
        /\ sent \cup batch \cup cutoff = {n \in 1..RowCount : Wanted(n)}
        /\ cur < MaxBatch
        /\ cur > 0 => \E n \in 1..RowCount : Skipped(n) \/ Task(n).type \notin Types

\* The connection is given back exactly once, except that one of the two batching
\* functions is wrong when the INSERT fails: as InsertDataToTable does or does not
\* handle the error, InsertExactSndTaskData gives it back twice or
\* BatchInsertTaskData never (lines 921-927, 1061-1067).
GivenBackOnce ==
    /\ given > 1 => flush # "TRUE" /\ Exactly /\ handles
    /\ bpc = "done" /\ given = 0 =>
          \/ result = "CONN_POOL_ISNOT_EXIST"
          \/ flush # "TRUE" /\ ~Exactly /\ ~handles

=============================================================================
