-------------------------- MODULE NumRange_proofs ---------------------------
(***************************************************************************)
(* What holds of NumRange for every set of servers, size of a range and     *)
(* number of crashes and failures.                                         *)
(***************************************************************************)
EXTENDS NumRange, TLAPS

Stages == Steps \cup {"down", "up"}

\* Who chooses a range has the table to itself.
TableHeld == \A s \in Servers : pc[s] \in InTableLock => tableLock = {s}

\* Rows have numbers, and no number twice.
RowsApart ==
    /\ \A r \in rows : r.begin =< r.end
    /\ \A r, q \in rows : r # q => r.end < q.begin \/ q.end < r.begin

\* A range chosen lies after all the rows, until its own row is there.
ChosenAfter == \A s \in Servers : pc[s] \in {"choose", "insert"} =>
    /\ found[s].end = found[s].begin + RangeSize - 1
    /\ \A r \in rows : r.end < found[s].begin

\* Who takes a new range has no open row.
NoneOpen == \A s \in Servers : pc[s] \in {"lock"} \cup (InTableLock \ {"unlock"}) =>
    OpenRows(s) = {}

Owns(s, x) == \E r \in rows : r.server = s /\ r.begin = x.begin /\ r.end = x.end

\* What a process has published at each stage of its start.
Published == \A s \in Servers :
    /\ pc[s] = "old" => Owns(s, found[s])
    /\ pc[s] = "insert" => /\ info[s].normal
                           /\ info[s].begin = found[s].begin
                           /\ info[s].end = found[s].end
    /\ info[s].normal => pc[s] \in {"insert", "unlock", "up"}
    /\ info[s].normal /\ pc[s] # "insert" => Owns(s, info[s])

\* The numbers registered of a range are below the next one of its server.
NextAbove == \A s \in Servers : info[s].normal =>
    /\ info[s].begin =< info[s].next
    /\ \A x \in registered : info[s].begin =< x /\ x =< info[s].end => x < info[s].next

IInv ==
    /\ TypeOK
    /\ TableHeld
    /\ RowsApart
    /\ ChosenAfter
    /\ NoneOpen
    /\ OneOpenRow
    /\ Published
    /\ NextAbove

-----------------------------------------------------------------------------
(* Types. *)

LEMMA InitIInv == Init => IInv
  BY NumRangeAssumption DEF Init, IInv, TypeOK, TableHeld, RowsApart, ChosenAfter, NoneOpen, OneOpenRow,
     Published, NextAbove, OpenRows, Unnormal, NoRange, Steps, InTableLock, Infos, Ranges, Rows, NumRangeAssumption

\* What SetUsrIdInfoValue publishes: the range, and a number after the registered ones.
LEMMA SetValue ==
    ASSUME TypeOK, NEW s \in Servers, SetUsrIdInfoValue(s)
    PROVE \E n \in Nat :
        /\ info' = [info EXCEPT ![s] = Normal(n, found[s])]
        /\ found[s].begin =< n
        /\ \A x \in registered : found[s].begin =< x /\ x =< found[s].end => x < n
<1>1. found[s] \in Ranges /\ found[s].begin \in Nat /\ found[s].end \in Nat
  BY DEF TypeOK, Ranges
<1>2. ASSUME NEW x \in registered, found[s].begin =< x, x =< found[s].end
      PROVE x \in Used(s)
  <2>1. x \in Nat
    BY DEF TypeOK
  <2> QED BY <1>1, <1>2, <2>1 DEF Used, Members
<1>3. CASE Used(s) = {} /\ info' = [info EXCEPT ![s] = Normal(found[s].begin, found[s])]
  <2>1. \A x \in registered : ~(found[s].begin =< x /\ x =< found[s].end)
    BY <1>2, <1>3
  <2> USE <1>1
  <2> WITNESS found[s].begin \in Nat
  <2> QED BY <1>1, <1>3, <2>1
<1>4. CASE \E m \in Used(s) : /\ \A x \in Used(s) : x =< m
                             /\ info' = [info EXCEPT ![s] = Normal(m + 1, found[s])]
  <2>1. PICK m \in Used(s) : /\ \A x \in Used(s) : x =< m
                            /\ info' = [info EXCEPT ![s] = Normal(m + 1, found[s])]
    BY <1>4
  <2>2. m \in Nat /\ m >= found[s].begin
    <3>1. m \in registered /\ m \in Nat /\ m \in found[s].begin .. found[s].end
      BY DEF Used, Members, TypeOK
    <3> QED BY <1>1, <3>1
  <2>3. ASSUME NEW x \in registered, found[s].begin =< x, x =< found[s].end
        PROVE x < m + 1
    <3>1. x \in Used(s) /\ x \in Nat
      BY <1>2, <2>3 DEF TypeOK
    <3> QED BY <2>1, <2>2, <3>1
  <2>4. m + 1 \in Nat /\ found[s].begin =< m + 1
    BY <1>1, <2>2
  <2> USE <2>4
  <2> WITNESS m + 1 \in Nat
  <2> QED BY <2>1, <2>3, <2>4
<1> QED BY <1>3, <1>4 DEF SetUsrIdInfoValue

LEMMA SetValueType ==
    ASSUME TypeOK, NEW s \in Servers, SetUsrIdInfoValue(s)
    PROVE info' \in [Servers -> Infos]
<1>1. PICK n \in Nat : info' = [info EXCEPT ![s] = Normal(n, found[s])]
  BY SetValue
<1>2. Normal(n, found[s]) \in Infos
  BY DEF Normal, Infos, TypeOK, Ranges
<1> QED BY <1>1, <1>2 DEF TypeOK

LEMMA NewRowType ==
    ASSUME TypeOK, NEW s \in Servers
    PROVE NewRow(s) \in Rows
  BY DEF TypeOK, NewRow, Rows, Ranges

LEMMA GiveUpType ==
    ASSUME TypeOK, NEW s \in Servers, GiveUp(s)
    PROVE /\ info' \in [Servers -> Infos]
          /\ tableLock' \subseteq Servers
          /\ pc' \in [Servers -> Stages]
          /\ found' \in [Servers -> Ranges]
  BY DEF TypeOK, GiveUp, Leave, Goto, Unnormal, NoRange, Infos, Ranges, Stages

LEMMA TypeNext == TypeOK /\ [Next]_vars => TypeOK'
<1> SUFFICES ASSUME TypeOK, [Next]_vars PROVE TypeOK'
  OBVIOUS
<1> USE NumRangeAssumption DEF NumRangeAssumption, TypeOK, Steps, Infos, Ranges, Rows, Goto
<1>1. ASSUME NEW s \in Servers, RunServerFunc(s) PROVE TypeOK'
  BY <1>1 DEF RunServerFunc
<1>2. ASSUME NEW s \in Servers, IsServerIDExist(s) PROVE TypeOK'
  <2>1. \A r \in OpenRows(s) : [begin |-> r.begin, end |-> r.end] \in Ranges
    BY DEF OpenRows
  <2> QED BY <1>2, <2>1 DEF IsServerIDExist
<1>3. ASSUME NEW s \in Servers, LockTable(s) PROVE TypeOK'
  BY <1>3 DEF LockTable, Admitted
<1>4. ASSUME NEW s \in Servers, S_FindMaxUsrIdEnd(s) PROVE TypeOK'
  BY <1>4 DEF S_FindMaxUsrIdEnd, Range
<1>5. ASSUME NEW s \in Servers, ChooseRange(s) PROVE TypeOK'
  <2>1. CASE GiveUp(s)
    BY <1>5, <2>1, GiveUpType DEF ChooseRange, Stages
  <2>2. CASE SetUsrIdInfoValue(s) /\ Goto(s, "insert") /\ UNCHANGED <<tableLock, found>>
    BY <1>5, <2>2, SetValueType DEF ChooseRange
  <2> QED BY <1>5, <2>1, <2>2 DEF ChooseRange
<1>6. ASSUME NEW s \in Servers, InsertServerNumRangeInfo(s) PROVE TypeOK'
  BY <1>6, NewRowType DEF InsertServerNumRangeInfo
<1>7. ASSUME NEW s \in Servers, UnlockTable(s) PROVE TypeOK'
  BY <1>7 DEF UnlockTable, Leave, NoRange
<1>8. ASSUME NEW s \in Servers, ResumeRange(s) PROVE TypeOK'
  <2>1. info' \in [Servers -> Infos]
    <3>1. CASE info' = [info EXCEPT ![s] = Unnormal]
      BY <3>1 DEF Unnormal
    <3>2. CASE SetUsrIdInfoValue(s)
      BY <3>2, SetValueType
    <3> QED BY <1>8, <3>1, <3>2 DEF ResumeRange
  <2>2. /\ Leave(s, "up")
        /\ UNCHANGED <<rows, tableLock, registered, crashes, faults>>
    BY <1>8 DEF ResumeRange
  <2> QED BY <2>1, <2>2 DEF Leave, NoRange
<1>9. ASSUME NEW s \in Servers, StatementFails(s) PROVE TypeOK'
  BY <1>9, GiveUpType DEF StatementFails, Stages
<1>10. ASSUME NEW s \in Servers, InsertAnswerLost(s) PROVE TypeOK'
  BY <1>10, NewRowType, GiveUpType DEF InsertAnswerLost, Stages
<1>11. ASSUME NEW s \in Servers, Crash(s) PROVE TypeOK'
  BY <1>11 DEF Crash, Leave, NoRange, Unnormal
<1>12. ASSUME NEW s \in Servers, Register(s) PROVE TypeOK'
  BY <1>12 DEF Register
<1>13. ASSUME NEW s \in Servers, SetUsridFullUseFlag(s) PROVE TypeOK'
  <2>1. \A r \in rows : r \in Rows /\ [r EXCEPT !.full = TRUE] \in Rows
    OBVIOUS
  <2>2. rows' \subseteq Rows
    BY <1>13, <2>1 DEF SetUsridFullUseFlag
  <2> QED BY <1>13, <2>2 DEF SetUsridFullUseFlag
<1>14. CASE UNCHANGED vars
  BY <1>14 DEF vars
<1> QED
  BY <1>1, <1>2, <1>3, <1>4, <1>5, <1>6, <1>7, <1>8, <1>9, <1>10, <1>11, <1>12, <1>13, <1>14 DEF Next, StartStep

-----------------------------------------------------------------------------
(* The invariant, action by action. *)

\* One server at a time is between LockTable and UnlockTable.
LEMMA OneChooser ==
    ASSUME TableHeld, NEW s \in Servers, NEW t \in Servers,
           pc[s] \in InTableLock, pc[t] \in InTableLock
    PROVE s = t
  BY DEF TableHeld

\* The new row is after the others, and the only open one of its server.
LEMMA RowAdded ==
    ASSUME IInv, NEW s \in Servers, pc[s] = "insert", rows' = rows \cup {NewRow(s)}
    PROVE RowsApart' /\ OneOpenRow'
<1> DEFINE n == NewRow(s)
<1>1. /\ n.begin = found[s].begin /\ n.end = found[s].end /\ n.server = s
      /\ n.begin \in Nat /\ n.end \in Nat
  BY DEF NewRow, IInv, TypeOK, Ranges
<1>2. \A r \in rows : r.end < n.begin
  BY <1>1 DEF IInv, ChosenAfter
<1>3. n.begin =< n.end
  BY <1>1, NumRangeAssumption DEF IInv, ChosenAfter, NumRangeAssumption
<1>4. \A r \in rows' : r \in rows \/ r = n
  OBVIOUS
<1>5. RowsApart'
  BY <1>1, <1>2, <1>3, <1>4 DEF IInv, RowsApart
<1>6. \A r \in rows : r.server = s => r.full
  BY DEF IInv, NoneOpen, InTableLock, OpenRows, TypeOK, Rows
<1>7. ASSUME NEW t \in Servers, NEW r \in OpenRows(t)', NEW q \in OpenRows(t)'
      PROVE r = q
  <2>1. r \in rows' /\ q \in rows' /\ r.server = t /\ q.server = t /\ ~r.full /\ ~q.full
    BY <1>7 DEF OpenRows
  <2>2. CASE t = s
    BY <1>4, <1>6, <2>1, <2>2
  <2>3. CASE t # s
    <3>1. r \in rows /\ q \in rows
      BY <1>1, <1>4, <2>1, <2>3
    <3> QED BY <2>1, <3>1 DEF IInv, OneOpenRow, OpenRows
  <2> QED BY <2>2, <2>3
<1> HIDE DEF n
<1> QED BY <1>5, <1>7 DEF OneOpenRow

LEMMA RunServerFuncKeeps ==
    ASSUME IInv, TypeOK', NEW s \in Servers, RunServerFunc(s)
    PROVE IInv'
<1> USE DEF IInv, Goto
<1>1. RowsApart' /\ OneOpenRow'
  BY DEF RunServerFunc, RowsApart, OneOpenRow, OpenRows
<1>2. TableHeld'
  BY DEF RunServerFunc, TableHeld, InTableLock, TypeOK
<1>3. ChosenAfter'
  BY DEF RunServerFunc, ChosenAfter, TypeOK
<1>4. NoneOpen'
  BY DEF RunServerFunc, NoneOpen, OpenRows, InTableLock, TypeOK
<1>5. Published'
  BY DEF RunServerFunc, Published, Owns, TypeOK
<1>6. NextAbove'
  BY DEF RunServerFunc, NextAbove
<1> QED
  BY <1>1, <1>2, <1>3, <1>4, <1>5, <1>6

LEMMA IsServerIDExistKeeps ==
    ASSUME IInv, TypeOK', NEW s \in Servers, IsServerIDExist(s)
    PROVE IInv'
<1> USE DEF IInv, Goto
<1>1. RowsApart' /\ OneOpenRow'
  BY DEF IsServerIDExist, RowsApart, OneOpenRow, OpenRows
<1>2. TableHeld'
  BY DEF IsServerIDExist, OpenRows, TableHeld, InTableLock, TypeOK
<1>3. ChosenAfter'
  BY DEF IsServerIDExist, OpenRows, ChosenAfter, TypeOK
<1>4. NoneOpen'
  BY DEF IsServerIDExist, OpenRows, NoneOpen, InTableLock, TypeOK
<1>5. Published'
  BY DEF IsServerIDExist, OpenRows, Published, Owns, TypeOK
<1>6. NextAbove'
  BY DEF IsServerIDExist, OpenRows, NextAbove
<1> QED
  BY <1>1, <1>2, <1>3, <1>4, <1>5, <1>6

LEMMA LockTableKeeps ==
    ASSUME IInv, TypeOK', NEW s \in Servers, LockTable(s)
    PROVE IInv'
<1> USE DEF IInv, Goto
<1>1. RowsApart' /\ OneOpenRow'
  BY DEF LockTable, RowsApart, OneOpenRow, OpenRows
<1>2. TableHeld'
  BY DEF LockTable, Admitted, TableHeld, InTableLock, TypeOK
<1>3. ChosenAfter'
  BY DEF LockTable, Admitted, ChosenAfter, TypeOK
<1>4. NoneOpen'
  BY DEF LockTable, Admitted, NoneOpen, OpenRows, InTableLock, TypeOK
<1>5. Published'
  BY DEF LockTable, Admitted, Published, Owns, TypeOK
<1>6. NextAbove'
  BY DEF LockTable, Admitted, NextAbove
<1> QED
  BY <1>1, <1>2, <1>3, <1>4, <1>5, <1>6

LEMMA S_FindMaxUsrIdEndKeeps ==
    ASSUME IInv, TypeOK', NEW s \in Servers, S_FindMaxUsrIdEnd(s)
    PROVE IInv'
<1> USE DEF IInv, Goto
<1>1. RowsApart' /\ OneOpenRow'
  BY DEF S_FindMaxUsrIdEnd, RowsApart, OneOpenRow, OpenRows
<1>2. TableHeld'
  BY DEF S_FindMaxUsrIdEnd, Range, TableHeld, InTableLock, TypeOK
<1>3. ChosenAfter'
  BY DEF S_FindMaxUsrIdEnd, Range, ChosenAfter, TypeOK, Rows
<1>4. NoneOpen'
  BY DEF S_FindMaxUsrIdEnd, Range, NoneOpen, OpenRows, InTableLock, TypeOK
<1>5. Published'
  BY DEF S_FindMaxUsrIdEnd, Range, Published, Owns, TypeOK
<1>6. NextAbove'
  BY DEF S_FindMaxUsrIdEnd, Range, NextAbove
<1> QED
  BY <1>1, <1>2, <1>3, <1>4, <1>5, <1>6

LEMMA ChooseRangeKeeps ==
    ASSUME IInv, TypeOK', NEW s \in Servers, ChooseRange(s)
    PROVE IInv'
<1> USE DEF IInv, Goto
<1>1. RowsApart' /\ OneOpenRow'
  BY DEF ChooseRange, RowsApart, OneOpenRow, OpenRows
<1>2. TableHeld'
  BY DEF ChooseRange, GiveUp, Leave, Unnormal, NoRange, TableHeld, InTableLock, TypeOK
<1>3. ChosenAfter'
  BY DEF ChooseRange, GiveUp, Leave, Unnormal, NoRange, ChosenAfter, TypeOK
<1>4. NoneOpen'
  BY DEF ChooseRange, GiveUp, Leave, Unnormal, NoRange, NoneOpen, OpenRows, InTableLock, TypeOK
<1>5. Published'
  <2>1. CASE GiveUp(s)
    BY <2>1 DEF ChooseRange, GiveUp, Leave, Unnormal, NoRange, Published, Owns, TypeOK, Infos
  <2>2. CASE SetUsrIdInfoValue(s) /\ pc' = [pc EXCEPT ![s] = "insert"] /\ found' = found
    <3>1. PICK n \in Nat : info' = [info EXCEPT ![s] = Normal(n, found[s])]
      BY <2>2, SetValue
    <3> QED BY <2>2, <3>1 DEF ChooseRange, Normal, Published, Owns, TypeOK
  <2> QED BY <2>1, <2>2 DEF ChooseRange
<1>6. NextAbove'
  <2>1. CASE GiveUp(s)
    BY <2>1 DEF ChooseRange, GiveUp, Unnormal, NextAbove, TypeOK
  <2>2. CASE SetUsrIdInfoValue(s)
    <3>1. PICK n \in Nat :
             /\ info' = [info EXCEPT ![s] = Normal(n, found[s])]
             /\ found[s].begin =< n
             /\ \A x \in registered : found[s].begin =< x /\ x =< found[s].end => x < n
      BY <2>2, SetValue
    <3> QED BY <3>1 DEF ChooseRange, Normal, NextAbove, TypeOK
  <2> QED BY <2>1, <2>2 DEF ChooseRange
<1> QED
  BY <1>1, <1>2, <1>3, <1>4, <1>5, <1>6

LEMMA InsertServerNumRangeInfoKeeps ==
    ASSUME IInv, TypeOK', NEW s \in Servers, InsertServerNumRangeInfo(s)
    PROVE IInv'
<1> USE DEF IInv, Goto
<1>1. RowsApart' /\ OneOpenRow'
  BY RowAdded DEF InsertServerNumRangeInfo
<1>2. TableHeld'
  BY DEF InsertServerNumRangeInfo, NewRow, TableHeld, InTableLock, TypeOK
<1>3. ChosenAfter'
  <2> SUFFICES ASSUME NEW t \in Servers, pc'[t] \in {"choose", "insert"}
               PROVE FALSE
    BY DEF ChosenAfter
  <2>1. t # s /\ pc[t] = pc'[t] /\ pc[s] = "insert"
    BY DEF InsertServerNumRangeInfo, TypeOK
  <2> QED BY <2>1, OneChooser DEF InTableLock
<1>4. NoneOpen'
  BY DEF InsertServerNumRangeInfo, NewRow, NoneOpen, OpenRows, InTableLock, TypeOK
<1>5. Published'
  <2>1. NewRow(s) \in rows' /\ rows \subseteq rows' /\ info' = info /\ found' = found
    BY DEF InsertServerNumRangeInfo
  <2>2. /\ NewRow(s).server = s
        /\ NewRow(s).begin = found[s].begin
        /\ NewRow(s).end = found[s].end
    BY DEF NewRow
  <2>3. pc[s] = "insert" /\ pc' = [pc EXCEPT ![s] = "unlock"]
    BY DEF InsertServerNumRangeInfo
  <2>4. Owns(s, info[s])'
    BY <2>1, <2>2, <2>3 DEF Owns, Published
  <2> QED BY <2>1, <2>3, <2>4 DEF Published, Owns, TypeOK
<1>6. NextAbove'
  BY DEF InsertServerNumRangeInfo, NewRow, NextAbove
<1> QED
  BY <1>1, <1>2, <1>3, <1>4, <1>5, <1>6

LEMMA UnlockTableKeeps ==
    ASSUME IInv, TypeOK', NEW s \in Servers, UnlockTable(s)
    PROVE IInv'
<1> USE DEF IInv, Goto
<1>1. RowsApart' /\ OneOpenRow'
  BY DEF UnlockTable, RowsApart, OneOpenRow, OpenRows
<1>2. TableHeld'
  BY DEF UnlockTable, Leave, NoRange, TableHeld, InTableLock, TypeOK
<1>3. ChosenAfter'
  BY DEF UnlockTable, Leave, NoRange, ChosenAfter, TypeOK
<1>4. NoneOpen'
  BY DEF UnlockTable, Leave, NoRange, NoneOpen, OpenRows, InTableLock, TypeOK
<1>5. Published'
  BY DEF UnlockTable, Leave, NoRange, Published, Owns, TypeOK
<1>6. NextAbove'
  BY DEF UnlockTable, Leave, NoRange, NextAbove
<1> QED
  BY <1>1, <1>2, <1>3, <1>4, <1>5, <1>6

LEMMA ResumeRangeKeeps ==
    ASSUME IInv, TypeOK', NEW s \in Servers, ResumeRange(s)
    PROVE IInv'
<1> USE DEF IInv, Goto
<1>1. RowsApart' /\ OneOpenRow'
  BY DEF ResumeRange, RowsApart, OneOpenRow, OpenRows
<1>2. TableHeld'
  BY DEF ResumeRange, Leave, Unnormal, NoRange, TableHeld, InTableLock, TypeOK
<1>3. ChosenAfter'
  BY DEF ResumeRange, Leave, Unnormal, NoRange, ChosenAfter, TypeOK
<1>4. NoneOpen'
  BY DEF ResumeRange, Leave, Unnormal, NoRange, NoneOpen, OpenRows, InTableLock, TypeOK
<1>5. Published'
  <2>1. pc[s] = "old" /\ pc' = [pc EXCEPT ![s] = "up"] /\ rows' = rows
        /\ found' = [found EXCEPT ![s] = NoRange]
    BY DEF ResumeRange, Leave
  <2>2. CASE info' = [info EXCEPT ![s] = Unnormal]
    BY <2>1, <2>2 DEF Unnormal, Published, Owns, TypeOK
  <2>3. CASE SetUsrIdInfoValue(s)
    <3>1. PICK n \in Nat : info' = [info EXCEPT ![s] = Normal(n, found[s])]
      BY <2>3, SetValue
    <3> QED BY <2>1, <3>1 DEF Normal, Published, Owns, TypeOK
  <2> QED BY <2>2, <2>3 DEF ResumeRange
<1>6. NextAbove'
  <2>1. CASE info' = [info EXCEPT ![s] = Unnormal]
    BY <2>1 DEF ResumeRange, Unnormal, NextAbove, TypeOK
  <2>2. CASE SetUsrIdInfoValue(s)
    <3>1. PICK n \in Nat :
             /\ info' = [info EXCEPT ![s] = Normal(n, found[s])]
             /\ found[s].begin =< n
             /\ \A x \in registered : found[s].begin =< x /\ x =< found[s].end => x < n
      BY <2>2, SetValue
    <3> QED BY <3>1 DEF ResumeRange, Normal, NextAbove, TypeOK
  <2> QED BY <2>1, <2>2 DEF ResumeRange
<1> QED
  BY <1>1, <1>2, <1>3, <1>4, <1>5, <1>6

LEMMA StatementFailsKeeps ==
    ASSUME IInv, TypeOK', NEW s \in Servers, StatementFails(s)
    PROVE IInv'
<1> USE DEF IInv, Goto
<1>1. RowsApart' /\ OneOpenRow'
  BY DEF StatementFails, RowsApart, OneOpenRow, OpenRows
<1>2. TableHeld'
  BY DEF StatementFails, GiveUp, Leave, NoRange, Unnormal, TableHeld, InTableLock, TypeOK
<1>3. ChosenAfter'
  BY DEF StatementFails, GiveUp, Leave, NoRange, Unnormal, ChosenAfter, TypeOK
<1>4. NoneOpen'
  BY DEF StatementFails, GiveUp, Leave, NoRange, Unnormal, NoneOpen, OpenRows, InTableLock, TypeOK
<1>5. Published'
  BY DEF StatementFails, GiveUp, Leave, NoRange, Unnormal, Published, Owns, TypeOK
<1>6. NextAbove'
  BY DEF StatementFails, GiveUp, Leave, NoRange, Unnormal, NextAbove, TypeOK
<1> QED
  BY <1>1, <1>2, <1>3, <1>4, <1>5, <1>6

LEMMA InsertAnswerLostKeeps ==
    ASSUME IInv, TypeOK', NEW s \in Servers, InsertAnswerLost(s)
    PROVE IInv'
<1> USE DEF IInv, Goto
<1>1. RowsApart' /\ OneOpenRow'
  BY RowAdded DEF InsertAnswerLost
<1>2. TableHeld'
  BY DEF InsertAnswerLost, GiveUp, Leave, NoRange, Unnormal, NewRow, TableHeld, InTableLock,
         TypeOK
<1>3. ChosenAfter'
  <2> SUFFICES ASSUME NEW t \in Servers, pc'[t] \in {"choose", "insert"}
               PROVE FALSE
    BY DEF ChosenAfter
  <2>1. t # s /\ pc[t] = pc'[t] /\ pc[s] = "insert"
    BY DEF InsertAnswerLost, GiveUp, Leave, TypeOK
  <2> QED BY <2>1, OneChooser DEF InTableLock
<1>4. NoneOpen'
  BY DEF InsertAnswerLost, GiveUp, Leave, NoRange, Unnormal, NewRow, NoneOpen, OpenRows,
         InTableLock, TypeOK
<1>5. Published'
  BY DEF InsertAnswerLost, GiveUp, Leave, NoRange, Unnormal, NewRow, Published, Owns, TypeOK
<1>6. NextAbove'
  BY DEF InsertAnswerLost, GiveUp, Leave, NoRange, Unnormal, NewRow, NextAbove, TypeOK
<1> QED
  BY <1>1, <1>2, <1>3, <1>4, <1>5, <1>6

LEMMA CrashKeeps ==
    ASSUME IInv, TypeOK', NEW s \in Servers, Crash(s)
    PROVE IInv'
<1> USE DEF IInv, Goto
<1>1. RowsApart' /\ OneOpenRow'
  BY DEF Crash, RowsApart, OneOpenRow, OpenRows
<1>2. TableHeld'
  BY DEF Crash, Leave, NoRange, Unnormal, TableHeld, InTableLock, TypeOK
<1>3. ChosenAfter'
  BY DEF Crash, Leave, NoRange, Unnormal, ChosenAfter, TypeOK
<1>4. NoneOpen'
  BY DEF Crash, Leave, NoRange, Unnormal, NoneOpen, OpenRows, InTableLock, TypeOK
<1>5. Published'
  BY DEF Crash, Leave, NoRange, Unnormal, Published, Owns, TypeOK
<1>6. NextAbove'
  BY DEF Crash, Leave, NoRange, Unnormal, NextAbove, TypeOK
<1> QED
  BY <1>1, <1>2, <1>3, <1>4, <1>5, <1>6

LEMMA RegisterKeeps ==
    ASSUME IInv, TypeOK', NEW s \in Servers, Register(s)
    PROVE IInv'
<1> USE DEF IInv, Goto
<1>1. RowsApart' /\ OneOpenRow'
  BY DEF Register, RowsApart, OneOpenRow, OpenRows
<1>2. TableHeld'
  BY DEF Register, TableHeld, InTableLock, TypeOK
<1>3. ChosenAfter'
  BY DEF Register, ChosenAfter, TypeOK
<1>4. NoneOpen'
  BY DEF Register, NoneOpen, OpenRows, InTableLock, TypeOK
<1>5. Published'
  BY DEF Register, Published, Owns, TypeOK
<1>6. NextAbove'
  <2> DEFINE n == info[s].next
  <2>1. /\ pc[s] = "up" /\ info[s].normal /\ n =< info[s].end /\ info[s].begin =< n
        /\ registered' = registered \cup {n} /\ rows' = rows
        /\ info' = [info EXCEPT ![s].next = n + 1]
        /\ n \in Nat /\ info[s].begin \in Nat /\ info[s].end \in Nat
    BY DEF Register, NextAbove, TypeOK, Infos
  <2>2. PICK rs \in rows : rs.server = s /\ rs.begin = info[s].begin /\ rs.end = info[s].end
    BY <2>1 DEF Published, Owns
  <2> SUFFICES ASSUME NEW t \in Servers, info'[t].normal
               PROVE /\ info'[t].begin =< info'[t].next
                     /\ \A x \in registered' :
                           info'[t].begin =< x /\ x =< info'[t].end => x < info'[t].next
    BY DEF NextAbove
  <2>3. CASE t = s
    BY <2>1, <2>3 DEF NextAbove, TypeOK, Infos
  <2>4. CASE t # s
    <3>1. info'[t] = info[t] /\ info[t].normal
      BY <2>1, <2>4 DEF TypeOK
    <3>2. ~(info[t].begin =< n /\ n =< info[t].end)
      <4>1. info[t].begin \in Nat /\ info[t].end \in Nat
        BY DEF TypeOK, Infos
      <4>2. CASE pc[t] = "insert"
        BY <2>1, <2>2, <3>1, <4>1, <4>2 DEF Published, ChosenAfter, TypeOK, Rows
      <4>3. CASE pc[t] # "insert"
        <5>1. PICK rt \in rows : rt.server = t /\ rt.begin = info[t].begin /\ rt.end = info[t].end
          BY <3>1, <4>3 DEF Published, Owns
        <5>2. rs.end < rt.begin \/ rt.end < rs.begin
          BY <2>2, <2>4, <5>1 DEF RowsApart
        <5> QED BY <2>1, <2>2, <4>1, <5>1, <5>2
      <4> QED BY <4>2, <4>3
    <3> QED BY <2>1, <3>1, <3>2 DEF NextAbove
  <2> QED BY <2>3, <2>4
<1> QED
  BY <1>1, <1>2, <1>3, <1>4, <1>5, <1>6

LEMMA SetUsridFullUseFlagKeeps ==
    ASSUME IInv, TypeOK', NEW s \in Servers, SetUsridFullUseFlag(s)
    PROVE IInv'
<1> USE DEF IInv, Goto
<1>1. TableHeld'
  BY DEF SetUsridFullUseFlag, Admitted, TableHeld, InTableLock, TypeOK, Rows
<1>2. RowsApart'
  BY DEF SetUsridFullUseFlag, Admitted, RowsApart, TypeOK, Rows
<1>3. ChosenAfter'
  <2>1. \A r \in rows' : \E q \in rows : r.begin = q.begin /\ r.end = q.end
    BY DEF SetUsridFullUseFlag, TypeOK, Rows
  <2>2. pc' = pc /\ found' = found
    BY DEF SetUsridFullUseFlag
  <2> QED BY <2>1, <2>2 DEF ChosenAfter
<1>4. NoneOpen'
  BY DEF SetUsridFullUseFlag, Admitted, NoneOpen, OpenRows, InTableLock, TypeOK, Rows
<1>5. OneOpenRow'
  BY DEF SetUsridFullUseFlag, Admitted, OneOpenRow, OpenRows, TypeOK, Rows
<1>6. Published'
  <2>1. \A r \in rows : \E q \in rows' :
          q.server = r.server /\ q.begin = r.begin /\ q.end = r.end
    <3> SUFFICES ASSUME NEW r \in rows
                 PROVE \E q \in rows' :
                          q.server = r.server /\ q.begin = r.begin /\ q.end = r.end
      OBVIOUS
    <3>1. r \in rows' \/ [r EXCEPT !.full = TRUE] \in rows'
      BY DEF SetUsridFullUseFlag
    <3>2. r \in Rows
      BY DEF TypeOK
    <3> QED BY <3>1, <3>2 DEF Rows
  <2>2. pc' = pc /\ found' = found /\ info' = info
    BY DEF SetUsridFullUseFlag
  <2>3. \A t \in Servers : \A x : Owns(t, x) =>
           \E q \in rows' : q.server = t /\ q.begin = x.begin /\ q.end = x.end
    BY <2>1 DEF Owns
  <2> QED BY <2>2, <2>3 DEF Published, Owns
<1>7. NextAbove'
  BY DEF SetUsridFullUseFlag, Admitted, NextAbove
<1> QED
  BY <1>1, <1>2, <1>3, <1>4, <1>5, <1>6, <1>7

-----------------------------------------------------------------------------
(* The theorems. *)

LEMMA IInvNext == IInv /\ [Next]_vars => IInv'
<1> SUFFICES ASSUME IInv, [Next]_vars PROVE IInv'
  OBVIOUS
<1>1. TypeOK'
  BY TypeNext DEF IInv
<1>2. ASSUME NEW s \in Servers, RunServerFunc(s) PROVE IInv'
  BY <1>1, <1>2, RunServerFuncKeeps
<1>3. ASSUME NEW s \in Servers, IsServerIDExist(s) PROVE IInv'
  BY <1>1, <1>3, IsServerIDExistKeeps
<1>4. ASSUME NEW s \in Servers, LockTable(s) PROVE IInv'
  BY <1>1, <1>4, LockTableKeeps
<1>5. ASSUME NEW s \in Servers, S_FindMaxUsrIdEnd(s) PROVE IInv'
  BY <1>1, <1>5, S_FindMaxUsrIdEndKeeps
<1>6. ASSUME NEW s \in Servers, ChooseRange(s) PROVE IInv'
  BY <1>1, <1>6, ChooseRangeKeeps
<1>7. ASSUME NEW s \in Servers, InsertServerNumRangeInfo(s) PROVE IInv'
  BY <1>1, <1>7, InsertServerNumRangeInfoKeeps
<1>8. ASSUME NEW s \in Servers, UnlockTable(s) PROVE IInv'
  BY <1>1, <1>8, UnlockTableKeeps
<1>9. ASSUME NEW s \in Servers, ResumeRange(s) PROVE IInv'
  BY <1>1, <1>9, ResumeRangeKeeps
<1>10. ASSUME NEW s \in Servers, StatementFails(s) PROVE IInv'
  BY <1>1, <1>10, StatementFailsKeeps
<1>11. ASSUME NEW s \in Servers, InsertAnswerLost(s) PROVE IInv'
  BY <1>1, <1>11, InsertAnswerLostKeeps
<1>12. ASSUME NEW s \in Servers, Crash(s) PROVE IInv'
  BY <1>1, <1>12, CrashKeeps
<1>13. ASSUME NEW s \in Servers, Register(s) PROVE IInv'
  BY <1>1, <1>13, RegisterKeeps
<1>14. ASSUME NEW s \in Servers, SetUsridFullUseFlag(s) PROVE IInv'
  BY <1>1, <1>14, SetUsridFullUseFlagKeeps
<1>15. CASE UNCHANGED vars
  BY <1>15 DEF vars, IInv, TypeOK, TableHeld, RowsApart, ChosenAfter, NoneOpen, OneOpenRow, Published,
     NextAbove, OpenRows, Owns
<1> QED
  BY <1>2, <1>3, <1>4, <1>5, <1>6, <1>7, <1>8, <1>9, <1>10, <1>11, <1>12, <1>13, <1>14, <1>15 DEF Next, StartStep

LEMMA IInvAlways == Spec => []IInv
  BY InitIInv, IInvNext, PTL DEF Spec

\* The variables keep their types.
THEOREM TypeCorrect == Spec => []TypeOK
<1>1. IInv => TypeOK
  BY DEF IInv
<1> QED BY <1>1, IInvAlways, PTL

\* No number is in two rows of server_numrange, for any number of servers that start,
\* fail and die at any statement.
THEOREM RangesAlwaysDisjoint == Spec => []RangesDisjoint
<1>1. ASSUME IInv PROVE RangesDisjoint
  <2> SUFFICES ASSUME NEW r \in rows, NEW q \in rows, r # q
               PROVE Members(r) \cap Members(q) = {}
    BY DEF RangesDisjoint
  <2>1. r.end < q.begin \/ q.end < r.begin
    BY <1>1 DEF IInv, RowsApart
  <2>2. r.begin \in Nat /\ r.end \in Nat /\ q.begin \in Nat /\ q.end \in Nat
    BY <1>1 DEF IInv, TypeOK, Rows
  <2> QED BY <2>1, <2>2 DEF Members
<1> QED BY <1>1, IInvAlways, PTL

\* A server that runs gives numbers only from a range the table has for it.
THEOREM StartedAlwaysOwns == Spec => []StartedOwns
<1>1. IInv => StartedOwns
  BY DEF IInv, Published, Owns, StartedOwns
<1> QED BY <1>1, IInvAlways, PTL

\* No server ever has two open rows.
THEOREM NeverTwoOpen == Spec => []OneOpenRow
<1>1. IInv => OneOpenRow
  BY DEF IInv
<1> QED BY <1>1, IInvAlways, PTL

\* No number is given twice, by any process of any server.
THEOREM NumbersAlwaysFresh == Spec => []FreshNumbers
<1>1. ASSUME IInv PROVE FreshNumbers
  <2> SUFFICES ASSUME NEW s \in Servers, pc[s] = "up", info[s].normal,
                      info[s].next =< info[s].end, info[s].next \in registered
               PROVE FALSE
    BY DEF FreshNumbers
  <2>1. info[s].begin =< info[s].next /\ info[s].next < info[s].next
    BY <1>1 DEF IInv, NextAbove
  <2>2. info[s].next \in Nat
    BY <1>1 DEF IInv, TypeOK, Infos
  <2> QED BY <2>1, <2>2
<1> QED BY <1>1, IInvAlways, PTL

=============================================================================
