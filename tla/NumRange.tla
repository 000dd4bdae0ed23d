------------------------------ MODULE NumRange ------------------------------
(***************************************************************************)
(* How service servers share out user numbers                              *)
(* (service_table_server_numrange.c).                                      *)
(*                                                                         *)
(* The table server_numrange of the database has one row for each range of *)
(* numbers taken by a server.  A server that starts looks for an open row  *)
(* of its own; when it has none it locks the table, takes the range after  *)
(* the largest one, publishes it in g_usrid_info, inserts the row, and     *)
(* unlocks.  A statement can fail, the connection can be lost before or    *)
(* after the database executed it, and the process can die between any two *)
(* statements.                                                             *)
(*                                                                         *)
(* External are the database, whose write lock makes the statements of     *)
(* other connections on the table wait and goes away with its connection,  *)
(* and the handlers that give numbers to clients: they are not in the      *)
(* repository, which has only what they call.                              *)
(***************************************************************************)
EXTENDS Integers

CONSTANTS
    Servers,        \* server identities, GetServerId
    UsridBegin,     \* USRID_BEGIN, the first number
    RangeSize,      \* ONE_MILLION, the numbers of a range
    Tables,         \* first numbers of the ranges that have a phone_register table
    MaxCrashes,     \* bound: crashes of server processes
    MaxFaults       \* bound: statements that fail

ASSUME NumRangeAssumption ==
    /\ UsridBegin \in Nat \ {0}
    /\ RangeSize \in Nat \ {0}
    /\ Tables \subseteq Nat
    /\ MaxCrashes \in Nat
    /\ MaxFaults \in Nat

VARIABLES
    rows,        \* the table server_numrange
    tableLock,   \* servers whose connection holds the write lock: one at most
    registered,  \* numbers in the phone_register tables
    info,        \* g_usrid_info of each server process
    pc,          \* where each process is in its start
    found,       \* locals nUsrid_begin and nUsrid_end of the start
    crashes, faults

vars == <<rows, tableLock, registered, info, pc, found, crashes, faults>>

Range(b) == [begin |-> b, end |-> b + RangeSize - 1]
NoRange == [begin |-> 0, end |-> 0]
Members(r) == r.begin .. r.end

\* The statements of a start, in their order, and the two states around it.
Steps == {"exist", "lock", "max", "choose", "insert", "unlock", "old"}
InTableLock == {"max", "choose", "insert", "unlock"}

Ranges == [begin : Nat, end : Nat]
Rows == [begin : Nat, end : Nat, full : BOOLEAN, server : Servers]
Infos == [next : Nat, begin : Nat, end : Nat, normal : BOOLEAN]

Unnormal == [next |-> 0, begin |-> 0, end |-> 0, normal |-> FALSE]
Normal(n, r) == [next |-> n, begin |-> r.begin, end |-> r.end, normal |-> TRUE]

Init ==
    /\ rows = {}
    /\ tableLock = {}
    /\ registered = {}
    /\ info = [s \in Servers |-> Unnormal]
    /\ pc = [s \in Servers |-> "down"]
    /\ found = [s \in Servers |-> NoRange]
    /\ crashes = 0
    /\ faults = 0

Goto(s, step) == pc' = [pc EXCEPT ![s] = step]
Leave(s, state) == Goto(s, state) /\ found' = [found EXCEPT ![s] = NoRange]

\* The database runs a statement of s on the table: nobody else has it locked.
Admitted(s) == tableLock \subseteq {s}

\* RunServerFunc calls H_GetRegisterStartIDInfo once, in a new process.
RunServerFunc(s) ==
    /\ pc[s] = "down"
    /\ Goto(s, "exist")
    /\ UNCHANGED <<rows, tableLock, registered, info, found, crashes, faults>>

OpenRows(s) == {r \in rows : r.server = s /\ ~r.full}

\* A process never looks for the row of an earlier one.
NeverResumes(s) ==
    /\ pc[s] = "exist"
    /\ Goto(s, "lock")
    /\ UNCHANGED <<rows, tableLock, registered, info, found, crashes, faults>>

\* An open row of its own is taken up again; without one the table is locked.
IsServerIDExist(s) ==
    /\ pc[s] = "exist"
    /\ Admitted(s)
    /\ \/ /\ OpenRows(s) = {}
          /\ Goto(s, "lock")
          /\ UNCHANGED found
       \/ \E r \in OpenRows(s) :
            /\ found' = [found EXCEPT ![s] = [begin |-> r.begin, end |-> r.end]]
            /\ Goto(s, "old")
    /\ UNCHANGED <<rows, tableLock, registered, info, crashes, faults>>

\* The table is not locked.
ForgetLock(s) ==
    /\ pc[s] = "lock"
    /\ Admitted(s)
    /\ Goto(s, "max")
    /\ UNCHANGED <<rows, tableLock, registered, info, found, crashes, faults>>

LockTable(s) ==
    /\ pc[s] = "lock"
    /\ Admitted(s)
    /\ tableLock' = {s}
    /\ Goto(s, "max")
    /\ UNCHANGED <<rows, registered, info, found, crashes, faults>>

\* The range after the one that ends last, whoever has it.
S_FindMaxUsrIdEnd(s) ==
    /\ pc[s] = "max"
    /\ \/ /\ rows = {}
          /\ found' = [found EXCEPT ![s] = Range(UsridBegin)]
       \/ \E r \in rows :
            /\ \A q \in rows : q.end =< r.end
            /\ found' = [found EXCEPT ![s] = Range(r.end + 1)]
    /\ Goto(s, "choose")
    /\ UNCHANGED <<rows, tableLock, registered, info, crashes, faults>>

IsLiantongRegisterTableExist(s) == found[s].begin \in Tables

Used(s) == registered \cap Members(found[s])

\* The registered numbers of the range are not looked up.
SetFirstValue(s) == info' = [info EXCEPT ![s] = Normal(found[s].begin, found[s])]

\* The first number to give: after the largest registered one of the range
\* (H_GetMaxUUID), or the first of the range when none is.
SetUsrIdInfoValue(s) ==
    \/ /\ Used(s) = {}
       /\ info' = [info EXCEPT ![s] = Normal(found[s].begin, found[s])]
    \/ \E m \in Used(s) :
         /\ \A x \in Used(s) : x =< m
         /\ info' = [info EXCEPT ![s] = Normal(m + 1, found[s])]

\* The range stays published.
GiveUpPublished(s) ==
    /\ tableLock' = tableLock \ {s}
    /\ Leave(s, "up")
    /\ UNCHANGED info

\* The table stays locked.
GiveUpLocked(s) ==
    /\ info' = [info EXCEPT ![s] = Unnormal]
    /\ Leave(s, "up")
    /\ UNCHANGED tableLock

\* What a start that cannot go on leaves: the server runs without numbers.
GiveUp(s) ==
    /\ info' = [info EXCEPT ![s] = Unnormal]
    /\ tableLock' = tableLock \ {s}
    /\ Leave(s, "up")

\* A new range is published before its row is inserted, under the table lock.
ChooseRange(s) ==
    /\ pc[s] = "choose"
    /\ \/ /\ ~IsLiantongRegisterTableExist(s)
          /\ GiveUp(s)
       \/ /\ IsLiantongRegisterTableExist(s)
          /\ SetUsrIdInfoValue(s)
          /\ Goto(s, "insert")
          /\ UNCHANGED <<tableLock, found>>
    /\ UNCHANGED <<rows, registered, crashes, faults>>

\* Two columns of the INSERT change places.
SwappedRow(s) == [begin |-> found[s].begin, end |-> found[s].end, full |-> s, server |-> FALSE]

NewRow(s) == [begin |-> found[s].begin, end |-> found[s].end, full |-> FALSE, server |-> s]

InsertServerNumRangeInfo(s) ==
    /\ pc[s] = "insert"
    /\ rows' = rows \cup {NewRow(s)}
    /\ Goto(s, "unlock")
    /\ UNCHANGED <<tableLock, registered, info, found, crashes, faults>>

\* A failure of this statement is one of the connection, and unlocks as well.
UnlockTable(s) ==
    /\ pc[s] = "unlock"
    /\ tableLock' = tableLock \ {s}
    /\ Leave(s, "up")
    /\ UNCHANGED <<rows, registered, info, crashes, faults>>

\* The range of an earlier process of this server.
ResumeRange(s) ==
    /\ pc[s] = "old"
    /\ \/ /\ ~IsLiantongRegisterTableExist(s)
          /\ info' = [info EXCEPT ![s] = Unnormal]
       \/ /\ IsLiantongRegisterTableExist(s)
          /\ SetUsrIdInfoValue(s)
    /\ Leave(s, "up")
    /\ UNCHANGED <<rows, tableLock, registered, crashes, faults>>

-----------------------------------------------------------------------------
(* Failures. *)

\* A statement fails.  The code unlocks the table itself or, when the connection
\* was lost, the database does; it withdraws a range it has published already.
\* RunServerFunc logs the failure and the server runs on, without numbers.
StatementFails(s) ==
    /\ faults < MaxFaults
    /\ pc[s] \in Steps \ {"unlock"}
    /\ faults' = faults + 1
    /\ GiveUp(s)
    /\ UNCHANGED <<rows, registered, crashes>>

\* The connection is lost after the database executed the INSERT.
InsertAnswerLost(s) ==
    /\ faults < MaxFaults
    /\ pc[s] = "insert"
    /\ faults' = faults + 1
    /\ rows' = rows \cup {NewRow(s)}
    /\ GiveUp(s)
    /\ UNCHANGED <<registered, crashes>>

\* The process dies, its memory and its connection with it.
Crash(s) ==
    /\ crashes < MaxCrashes
    /\ pc[s] # "down"
    /\ crashes' = crashes + 1
    /\ info' = [info EXCEPT ![s] = Unnormal]
    /\ tableLock' = tableLock \ {s}
    /\ Leave(s, "down")
    /\ UNCHANGED <<rows, registered, faults>>

-----------------------------------------------------------------------------
(* External: the handlers that give numbers to clients. *)

Register(s) ==
    /\ pc[s] = "up"
    /\ info[s].normal
    /\ info[s].next =< info[s].end
    /\ registered' = registered \cup {info[s].next}
    /\ info' = [info EXCEPT ![s].next = @ + 1]
    /\ UNCHANGED <<rows, tableLock, pc, found, crashes, faults>>

\* They mark a range they have used up.
SetUsridFullUseFlag(s) ==
    LET mine(r) == r.begin = info[s].begin /\ r.end = info[s].end
    IN  /\ pc[s] = "up"
        /\ info[s].normal
        /\ info[s].next > info[s].end
        /\ Admitted(s)
        /\ \E r \in rows : mine(r) /\ ~r.full
        /\ rows' = {IF mine(r) THEN [r EXCEPT !.full = TRUE] ELSE r : r \in rows}
        /\ UNCHANGED <<tableLock, registered, info, pc, found, crashes, faults>>

-----------------------------------------------------------------------------

StartStep(s) ==
    \/ IsServerIDExist(s)
    \/ LockTable(s)
    \/ S_FindMaxUsrIdEnd(s)
    \/ ChooseRange(s)
    \/ InsertServerNumRangeInfo(s)
    \/ UnlockTable(s)
    \/ ResumeRange(s)

Next == \E s \in Servers :
    \/ RunServerFunc(s)
    \/ StartStep(s)
    \/ StatementFails(s)
    \/ InsertAnswerLost(s)
    \/ Crash(s)
    \/ Register(s)
    \/ SetUsridFullUseFlag(s)

Spec == Init /\ [][Next]_vars

\* A started process runs and the database answers: each statement is executed
\* in the end once the table admits it.
FairSpec == Spec /\ \A s \in Servers : WF_vars(StartStep(s))

-----------------------------------------------------------------------------
(* Properties. *)

\* The rows and the variables of the processes have the columns and fields of the code.
TypeOK ==
    /\ rows \subseteq Rows
    /\ tableLock \subseteq Servers
    /\ registered \subseteq Nat
    /\ info \in [Servers -> Infos]
    /\ pc \in [Servers -> Steps \cup {"down", "up"}]
    /\ found \in [Servers -> Ranges]
    /\ crashes \in Nat
    /\ faults \in Nat

\* No number is in two rows, whatever statements failed and processes died while
\* servers were choosing ranges at the same time (lines 632-738).
RangesDisjoint ==
    \A r, q \in rows : r # q => Members(r) \cap Members(q) = {}

\* A range a running server publishes is one the table has for it: none is left
\* published when its row could not be inserted (lines 704-728), and a number given
\* from it stays this server's after a restart.
StartedOwns ==
    \A s \in Servers : pc[s] = "up" /\ info[s].normal =>
        \E r \in rows : /\ r.server = s
                        /\ r.begin = info[s].begin
                        /\ r.end = info[s].end

\* A server has one open row at most, although it looks for it before it locks the
\* table: mysql_fetch_row (line 129) takes any, and a second one would be forgotten.
OneOpenRow ==
    \A s \in Servers : \A r, q \in OpenRows(s) : r = q

\* The next number a running server gives was not given before, by it, by an earlier
\* process or by another server.
FreshNumbers ==
    \A s \in Servers :
        pc[s] = "up" /\ info[s].normal /\ info[s].next =< info[s].end
            => info[s].next \notin registered

\* Every start ends, whichever statements fail in it or in another: no failure leaves
\* the table locked.
StartsEnd == \A s \in Servers : pc[s] \in Steps ~> pc[s] \notin Steps

=============================================================================
