------------------------------- MODULE Tables -------------------------------
(***************************************************************************)
(* The tables of the messaging service (service_table_*.c), as the workers  *)
(* of a service server use them through service_handle_table.c.             *)
(*                                                                          *)
(* Every table is cut into shards by user or cluster number, and every      *)
(* shard has a pool of connections.  A function takes a connection from the *)
(* pool of its shard, has the database execute one statement, and gives the *)
(* connection back.  Three kinds of functions do more: they ask several     *)
(* shards in turn, they ask other functions first, or they ask other        *)
(* functions for each row while they keep their own connection.             *)
(*                                                                          *)
(* A statement that fails because the server is gone hands its connection   *)
(* to ReconnDatabase.  No function has a branch for any other failure: most *)
(* of them return TRUE, a scan goes on to its next table, and all of them    *)
(* keep the connection for ever.                                            *)
(*                                                                          *)
(* External are the database, the pools (GetConn, ReleaseConn,              *)
(* ReconnDatabase, HandleDBError) and the message handlers that call these  *)
(* functions: the repository has only what it calls of them.                *)
(***************************************************************************)
EXTENDS Integers, Sequences, SequencesExt

CONSTANTS
    Workers,     \* threads that handle messages
    Scenes,      \* sets of calls: the messages of a behaviour need those of one
    Hundred,     \* ONE_HUNDRED_THOUSAND: the numbers of a shard
    Fifty,       \* FIFTY_THOUSAND: the numbers of a shard of cluster_detail
    PoolSize,    \* connections of a pool (nConnect_num)
    Parent,      \* Cluster_type: the parent of each type that has a row, -1 at the top
    MaxCalls,    \* bound: calls in a behaviour
    MaxFaults    \* bound: failures in a behaviour

Calls == [fn : STRING, usr : Int, key : Int, val : Int]

ASSUME TablesAssumption ==
    /\ Hundred \in Nat \ {0} /\ Fifty \in Nat \ {0}
    /\ PoolSize \in Nat /\ MaxCalls \in Nat /\ MaxFaults \in Nat
    /\ \A scene \in Scenes : scene \subseteq Calls
    /\ DOMAIN Parent \subseteq Int
    /\ \A type \in DOMAIN Parent : Parent[type] \in DOMAIN Parent \cup {-1}

VARIABLES
    rows,      \* the rows of all tables
    used,      \* connections of the pools whose is_used is YES
    down,      \* those whose is_used is UNCONNECT
    scene,     \* the calls of this behaviour
    top,       \* the call of each worker
    todo,      \* what is left of it: the calls and statements to come
    at,        \* whether the next of them has its connection
    mine,      \* the connection kept while other functions are asked
    inner,     \* the connection of the statement to come
    ans,       \* what the last call of each worker returned
    broken,    \* connections on which every statement fails from now on
    leaked,    \* history: connections of statements that failed in an unforeseen way
    known,     \* history: whether the account was there when the question was asked
    upset,     \* history: whether a statement of the call failed in an unforeseen way
    ncalls, nfaults

poolVars == <<used, down, broken, leaked>>
callVars == <<top, todo, at, mine, inner, ans, known, upset>>
tableVars == <<rows, poolVars, scene, callVars, ncalls, nfaults>>

-----------------------------------------------------------------------------
(* Shards: the Get...TableName functions. *)

NoTable == <<"none", 0>>

\* The numbers above the last shard are given one of their own.
ShardOfAny(base, n, size) ==
    IF n >= 1 THEN <<base, ((n - 1) \div size) + 1>> ELSE NoTable

Shard(base, n, size) ==
    IF n \in 1..2*Hundred THEN <<base, ((n - 1) \div size) + 1>> ELSE NoTable

GetLoginTableName(u) == Shard("user_login", u, Hundred)
GetUsrInfoTableName(u) == Shard("user_info", u, Hundred)
GetGroupTableName(u) == Shard("friend_group", u, Hundred)
GetGroupDetailTableName(u) == Shard("friend_group_detail", u, Hundred)
GetLoginTmpTableName(u) == Shard("user_connectstatus", u, Hundred)
GetBelongToClusterTableName(u) == Shard("user_belongto_which_cluster", u, Hundred)
GetClusterTableName(n) == Shard("cluster", n, Hundred)
GetClusterDetailTableName(n) == Shard("cluster_detail", n, Fifty)
ClusterType == <<"Cluster_type", 0>>

Names == {"user_login", "user_info", "friend_group", "friend_group_detail",
          "user_connectstatus", "user_belongto_which_cluster", "cluster"}
TableNames == (Names \X (1..2)) \cup {ClusterType}
              \cup ({"cluster_detail"} \X (1..(((2*Hundred - 1) \div Fifty) + 1)))
Conns == TableNames \X (1..PoolSize)

-----------------------------------------------------------------------------
(* Statements.  A row has the columns its table's queries look at: usr is the *)
(* user, key the group, cluster or account, val the friend, status or         *)
(* password.  Two rows that agree in them are one.                            *)

Row(t, c) == [table |-> t, usr |-> c.usr, key |-> c.key, val |-> c.val]

\* What the functions return, the codes of HandleDBError included.
Answers == {"TRUE", "FALSE", "DB_DISCONNECT", "TABLE_ID_OUTOF_RANGE", "CONN_POOL_ISNOT_EXIST",
            "EXECUTE_SQL_ERROR", "NOT_ENOUGH_CLUSTER_LEVEL"}

\* What a statement leaves in the tables, the answers it can have, and the calls
\* that follow while the connection is kept.
Reads(answers) == [rows |-> rows, ans |-> answers, more |-> <<>>]
Asks(found) == Reads(IF found THEN {"TRUE"} ELSE {"FALSE"})
Writes(new) == [rows |-> new, ans |-> {"TRUE"}, more |-> <<>>]
Visits(calls) == [rows |-> rows, ans |-> {"TRUE"}, more |-> calls]

Call(fn, u) == [fn |-> fn, usr |-> u, key |-> 0, val |-> 0]
InTable(t) == {r \in rows : r.table = t}

\* user_login
Login(u) == {r \in InTable(GetLoginTableName(u)) : r.usr = u}
IsUsridAndPasswdCorrect(c) == Asks(\E r \in Login(c.usr) : r.val = c.val)
IsTheSameUsrID(c) == Asks(Login(c.usr) # {})
IsUsrIDExistOrNot(c) == Asks(Login(c.usr) # {})
GetNickname(c) == Reads({"TRUE"})
InsertRegisInfoIntoDB(c) == Writes(rows \cup {Row(GetLoginTableName(c.usr), c)})
JudgeAccountAndPasswd(c) ==
    Asks(\E r \in InTable(GetLoginTableName(c.usr)) : r.key = c.key /\ r.val = c.val)
IsTheSameAccount(c) == Asks(\E r \in InTable(GetLoginTableName(c.usr)) : r.key = c.key)
GetMaxUsridInTheRange(c) ==
    Asks(\E r \in InTable(GetLoginTableName(c.val)) : r.usr \in c.usr..c.val)

\* user_info.  The level is a column these functions do not write.
Info(u) == {r \in InTable(GetUsrInfoTableName(u)) : r.usr = u}
GetSigAndPhotoIdx(c) == Reads({"TRUE"})
\* The row is fetched whether there is one or not.
GetPhotoIdx(c) == Reads({"TRUE"})
InsertUsrInfo(c) == Writes(rows \cup {Row(GetUsrInfoTableName(c.usr), c)})
IsEnoughClusterLevel(c) ==
    Reads(IF Info(c.usr) = {} THEN {"FALSE"}
          ELSE {"TRUE", "FALSE", "NOT_ENOUGH_CLUSTER_LEVEL"})
\* Columns nobody here reads.
InsertImageData(c) == Writes(rows)

\* friend_group and friend_group_detail
GroupsOf(u) == {r \in InTable(GetGroupTableName(u)) : r.usr = u}
IsGroupIDExistOrNot(c) == Asks(\E r \in GroupsOf(c.usr) : r.key = c.key)
FindMaxGroupID(c) == Asks(GroupsOf(c.usr) # {})
GetGroupNum(c) == Reads({"TRUE"})
GetFriendGroupInfo(c) == Reads({"TRUE"})
InsertFriGroupData(c) == Writes(rows \cup {Row(GetGroupTableName(c.usr), c)})
DeleteFriGroupData(c) == Writes(rows \ {r \in GroupsOf(c.usr) : r.key = c.key})

Friends(u, g) == {r \in InTable(GetGroupDetailTableName(u)) : r.usr = u /\ r.key = g}
IsFriendDataExistOrNot(c) == Asks(\E r \in Friends(c.usr, c.key) : r.val = c.val)
InsertFriendData(c) == Writes(rows \cup {Row(GetGroupDetailTableName(c.usr), c)})
DeleteFriendData(c) == Writes(rows \ {r \in Friends(c.usr, c.key) : r.val = c.val})
\* Three calls for each friend, with the connection in hand.
GetFriendInfoFromDB(c) ==
    LET friends == SetToSeq({r.val : r \in Friends(c.usr, c.key)})
        asked == <<"GetNickname", "GetSigAndPhotoIdx", "IsUsrLogin">>
    IN  Visits([i \in 1..3*Len(friends) |->
                   Call(asked[((i - 1) % 3) + 1], friends[((i - 1) \div 3) + 1])])

\* user_connectstatus_temporary_table
Online(u) == {r \in InTable(GetLoginTmpTableName(u)) : r.usr = u}
IsUsrLogin(c) == Asks(Online(c.usr) # {})
InsertLoginInfoIntoDB(c) == Writes(rows \cup {Row(GetLoginTmpTableName(c.usr), c)})
DeleteItemByUsrId(c) == Writes(rows \ Online(c.usr))

\* cluster
Cluster(n) == {r \in InTable(GetClusterTableName(n)) : r.key = n}
InsertClusterInfo(c) == Writes(rows \cup {Row(GetClusterTableName(c.key), c)})
\* The column may be empty.
GetClusterTypeName(c) ==
    Reads(IF Cluster(c.key) = {} THEN {"FALSE"} ELSE {"TRUE", "FALSE"})
DeleteCluster(c) == Writes(rows \ Cluster(c.key))

\* user_belongto_which_cluster
Belongs(u) == {r \in InTable(GetBelongToClusterTableName(u)) : r.usr = u}
ClusterCreator == 1
GetClusterData(c) == Reads({"TRUE"})
InsertOwnClusterInfo(c) == Writes(rows \cup {Row(GetBelongToClusterTableName(c.usr), c)})
DelOwnClusterInfo(c) == Writes(rows \ {r \in Belongs(c.usr) : r.key = c.key})
\* Any row of the user in the cluster.
IsUsrHavePowerToDelCluster(c) ==
    LET his == {r \in Belongs(c.usr) : r.key = c.key}
    IN  Reads(IF his = {} THEN {"FALSE"}
              ELSE {IF r.val = ClusterCreator THEN "TRUE" ELSE "FALSE" : r \in his})
\* The rows of all users of the shard.
DeleteUsrsOwnCluster(c) ==
    Writes(rows \ {r \in InTable(GetBelongToClusterTableName(c.usr)) : r.key = c.key})

\* cluster_detail
Members(n) == {r \in InTable(GetClusterDetailTableName(n)) : r.key = n}
InsertClusterMember(c) == Writes(rows \cup {Row(GetClusterDetailTableName(c.key), c)})
DelClusterMember(c) == Writes(rows \ {r \in Members(c.key) : r.usr = c.usr})
GetUsrsId(c) == Reads({"TRUE"})
DelAllClusterMember(c) == Writes(rows \ Members(c.key))
\* val is 1 in the second select, of the members, on the same connection: a member
\* asks for them.
GetClusterDetailData(c) ==
    LET members == SetToSeq({r.usr : r \in Members(c.key)})
        asked == <<"GetNickname", "GetPhotoIdx">>
    IN  IF c.val = 0 THEN Asks(\E r \in Members(c.key) : r.usr = c.usr)
        ELSE Visits([i \in 1..2*Len(members) |->
                        Call(asked[((i - 1) % 2) + 1], members[((i - 1) \div 2) + 1])])

\* The functions of each table.
LoginFns == {"IsUsridAndPasswdCorrect", "JudgeAccountAndPasswd", "IsTheSameUsrID",
             "InsertRegisInfoIntoDB", "IsTheSameAccount", "IsUsrIDExistOrNot", "GetNickname"}
InfoFns == {"GetSigAndPhotoIdx", "GetPhotoIdx", "InsertUsrInfo", "IsEnoughClusterLevel",
            "InsertImageData"}
GroupFns == {"IsGroupIDExistOrNot", "FindMaxGroupID", "GetGroupNum", "InsertFriGroupData",
             "DeleteFriGroupData", "GetFriendGroupInfo"}
FriendFns == {"IsFriendDataExistOrNot", "InsertFriendData", "DeleteFriendData",
              "GetFriendInfoFromDB"}
StatusFns == {"IsUsrLogin", "InsertLoginInfoIntoDB", "DeleteItemByUsrId"}
ClusterFns == {"GetClusterId", "InsertClusterInfo", "GetClusterTypeName", "DeleteCluster"}
BelongFns == {"GetClusterData", "InsertOwnClusterInfo", "DelOwnClusterInfo",
              "IsUsrHavePowerToDelCluster", "DeleteUsrsOwnCluster"}
DetailFns == {"GetClusterDetailData", "InsertClusterMember", "DelClusterMember", "GetUsrsId",
              "DelAllClusterMember"}

\* What service_handle_table.h offers to the message handlers.
Functions ==
    (LoginFns \cup {"GetMaxUsridInTheRange", "GetTypeName"} \cup InfoFns \cup GroupFns \cup FriendFns
     \cup StatusFns \cup ClusterFns \cup BelongFns \cup DetailFns) \ {"GetClusterId"}

ASSUME HandlersAssumption ==
    \A messages \in Scenes : \A c \in messages : c.fn \in Functions

\* The table of the next statement: where each function gets its table name from.
TableName(c) ==
    CASE c.fn \in LoginFns -> GetLoginTableName(c.usr)
      [] c.fn = "GetMaxUsridInTheRange" -> GetLoginTableName(c.val)
      [] c.fn \in InfoFns -> GetUsrInfoTableName(c.usr)
      [] c.fn \in GroupFns -> GetGroupTableName(c.usr)
      [] c.fn \in FriendFns -> GetGroupDetailTableName(c.usr)
      [] c.fn \in StatusFns -> GetLoginTmpTableName(c.usr)
      [] c.fn \in BelongFns -> GetBelongToClusterTableName(c.usr)
      [] c.fn \in ClusterFns -> GetClusterTableName(c.key)
      [] c.fn \in DetailFns -> GetClusterDetailTableName(c.key)
      [] c.fn = "GetTypeName" -> ClusterType

UserStatement(c) ==
    CASE c.fn = "IsUsridAndPasswdCorrect" -> IsUsridAndPasswdCorrect(c)
      [] c.fn = "JudgeAccountAndPasswd" -> JudgeAccountAndPasswd(c)
      [] c.fn = "IsTheSameUsrID" -> IsTheSameUsrID(c)
      [] c.fn = "InsertRegisInfoIntoDB" -> InsertRegisInfoIntoDB(c)
      [] c.fn = "IsTheSameAccount" -> IsTheSameAccount(c)
      [] c.fn = "IsUsrIDExistOrNot" -> IsUsrIDExistOrNot(c)
      [] c.fn = "GetNickname" -> GetNickname(c)
      [] c.fn = "GetMaxUsridInTheRange" -> GetMaxUsridInTheRange(c)
      [] c.fn = "GetSigAndPhotoIdx" -> GetSigAndPhotoIdx(c)
      [] c.fn = "GetPhotoIdx" -> GetPhotoIdx(c)
      [] c.fn = "InsertUsrInfo" -> InsertUsrInfo(c)
      [] c.fn = "IsEnoughClusterLevel" -> IsEnoughClusterLevel(c)
      [] c.fn = "InsertImageData" -> InsertImageData(c)
      [] c.fn = "IsUsrLogin" -> IsUsrLogin(c)
      [] c.fn = "InsertLoginInfoIntoDB" -> InsertLoginInfoIntoDB(c)
      [] c.fn = "DeleteItemByUsrId" -> DeleteItemByUsrId(c)

FriendStatement(c) ==
    CASE c.fn = "IsGroupIDExistOrNot" -> IsGroupIDExistOrNot(c)
      [] c.fn = "FindMaxGroupID" -> FindMaxGroupID(c)
      [] c.fn = "GetGroupNum" -> GetGroupNum(c)
      [] c.fn = "InsertFriGroupData" -> InsertFriGroupData(c)
      [] c.fn = "DeleteFriGroupData" -> DeleteFriGroupData(c)
      [] c.fn = "GetFriendGroupInfo" -> GetFriendGroupInfo(c)
      [] c.fn = "IsFriendDataExistOrNot" -> IsFriendDataExistOrNot(c)
      [] c.fn = "InsertFriendData" -> InsertFriendData(c)
      [] c.fn = "DeleteFriendData" -> DeleteFriendData(c)
      [] c.fn = "GetFriendInfoFromDB" -> GetFriendInfoFromDB(c)

ClusterStatement(c) ==
    CASE c.fn = "InsertClusterInfo" -> InsertClusterInfo(c)
      [] c.fn = "GetClusterTypeName" -> GetClusterTypeName(c)
      [] c.fn = "DeleteCluster" -> DeleteCluster(c)
      [] c.fn = "GetClusterData" -> GetClusterData(c)
      [] c.fn = "InsertOwnClusterInfo" -> InsertOwnClusterInfo(c)
      [] c.fn = "DelOwnClusterInfo" -> DelOwnClusterInfo(c)
      [] c.fn = "IsUsrHavePowerToDelCluster" -> IsUsrHavePowerToDelCluster(c)
      [] c.fn = "DeleteUsrsOwnCluster" -> DeleteUsrsOwnCluster(c)
      [] c.fn = "InsertClusterMember" -> InsertClusterMember(c)
      [] c.fn = "DelClusterMember" -> DelClusterMember(c)
      [] c.fn = "GetUsrsId" -> GetUsrsId(c)
      [] c.fn = "DelAllClusterMember" -> DelAllClusterMember(c)
      [] c.fn = "GetClusterDetailData" -> GetClusterDetailData(c)

Statement(c) ==
    IF c.fn \in GroupFns \cup FriendFns THEN FriendStatement(c)
    ELSE IF c.fn \in ClusterFns \cup BelongFns \cup DetailFns THEN ClusterStatement(c)
    ELSE UserStatement(c)

-----------------------------------------------------------------------------
(* Workers. *)

Idle == Call("none", 0)
Scans == {"JudgeAccountAndPasswd", "IsTheSameAccount"}

\* A scan that looks through the first table only.
PlanFirst(c) ==
    CASE c.fn \in Scans -> <<[c EXCEPT !.usr = Hundred]>>
      [] c.fn = "InsertClusterInfo" ->
            <<Call("GetClusterId", 0), [Call("GetTypeName", 0) EXCEPT !.key = c.val],
              [c EXCEPT !.key = 0]>>
      [] c.fn = "InsertClusterMember" -> <<Call("GetNickname", c.usr), c>>
      [] OTHER -> <<c>>

\* The calls and statements of a call, in their order.  A scan has one for each
\* user_login table of g_db_routingtable.  A new cluster has number 0 until
\* GetClusterId has found one.
Plan(c) ==
    CASE c.fn \in Scans -> [i \in 1..2 |-> [c EXCEPT !.usr = i * Hundred]]
      [] c.fn = "InsertClusterInfo" ->
            <<Call("GetClusterId", 0), [Call("GetTypeName", 0) EXCEPT !.key = c.val],
              [c EXCEPT !.key = 0]>>
      [] c.fn = "InsertClusterMember" -> <<Call("GetNickname", c.usr), c>>
      [] OTHER -> <<c>>

TablesInit ==
    /\ rows = {}
    /\ used = {} /\ down = {}
    /\ scene \in Scenes
    /\ top = [w \in Workers |-> Idle]
    /\ todo = [w \in Workers |-> <<>>]
    /\ at = [w \in Workers |-> "GetConn"]
    /\ mine = [w \in Workers |-> {}]
    /\ inner = [w \in Workers |-> {}]
    /\ ans = [w \in Workers |-> "TRUE"]
    /\ broken = {} /\ leaked = {}
    /\ known = [w \in Workers |-> FALSE]
    /\ upset = [w \in Workers |-> FALSE]
    /\ ncalls = 0 /\ nfaults = 0

\* The row a scan looks for.
Sought(c, r) ==
    /\ r.table \in {"user_login"} \X (1..2)
    /\ r.key = c.key
    /\ c.fn = "JudgeAccountAndPasswd" => r.val = c.val

\* A message handler calls.
Begin(w, c) ==
    /\ top[w] = Idle /\ ncalls < MaxCalls
    /\ top' = [top EXCEPT ![w] = c]
    /\ todo' = [todo EXCEPT ![w] = Plan(c)]
    /\ known' = [known EXCEPT ![w] = c.fn \in Scans /\ \E r \in rows : Sought(c, r)]
    /\ upset' = [upset EXCEPT ![w] = FALSE]
    /\ ncalls' = ncalls + 1
    /\ UNCHANGED <<rows, poolVars, scene, at, mine, inner, ans, nfaults>>

\* ReleaseConn for the first set of connections, ReconnDatabase for the second.
Settle(released, lost) ==
    /\ used' = used \ (released \cup lost)
    /\ down' = down \cup lost

\* The call of w returns a.
Finish(w, a) ==
    /\ top' = [top EXCEPT ![w] = Idle]
    /\ todo' = [todo EXCEPT ![w] = <<>>]
    /\ mine' = [mine EXCEPT ![w] = {}]
    /\ ans' = [ans EXCEPT ![w] = a]

Continue(w, rest) ==
    /\ todo' = [todo EXCEPT ![w] = rest]
    /\ UNCHANGED <<top, mine, ans>>

\* The caller returns at once when its nested call lost the database.
KeepOuter(w) == {}

\* A function that is left gives back the connection it kept.
Outer(w) == mine[w]

\* The two functions that hide a lost connection behind another answer.
Hidden == {"GetClusterDetailData", "InsertClusterMember"}

\* The statement at the head of todo[w] is over, with answer a and its connection in
\* gone (given back) or lost.  Only DB_DISCONNECT of a nested call ends its caller;
\* only FALSE leads a scan to its next table.
Answered(w, a, gone, lost) ==
    LET c == Head(todo[w])
        rest == Tail(todo[w])
        nested == c.fn # top[w].fn
    IN  /\ inner' = [inner EXCEPT ![w] = {}]
        /\ at' = [at EXCEPT ![w] = "GetConn"]
        /\ \/ /\ nested /\ a = "DB_DISCONNECT"
              /\ Finish(w, IF top[w].fn \in Hidden THEN "FALSE" ELSE a)
              /\ Settle(gone \cup Outer(w), lost)
           \/ /\ nested /\ a # "DB_DISCONNECT" /\ rest # <<>>
              /\ Continue(w, rest)
              /\ Settle(gone, lost)
           \/ /\ nested /\ a # "DB_DISCONNECT" /\ rest = <<>>
              /\ Finish(w, "TRUE")
              /\ Settle(gone \cup mine[w], lost)
           \/ /\ ~nested /\ c.fn \in Scans /\ a = "FALSE" /\ rest # <<>>
              /\ Continue(w, rest)
              /\ Settle(gone, lost)
           \/ /\ ~nested /\ (c.fn \in Scans /\ a = "FALSE" => rest = <<>>)
              /\ Finish(w, a)
              /\ Settle(gone, lost)

Ready(w, step) == top[w] # Idle /\ at[w] = step
Fault == nfaults < MaxFaults /\ nfaults' = nfaults + 1

\* The next call has no table.
OutOfRange(w, c) ==
    /\ TableName(c) = NoTable
    /\ Answered(w, "TABLE_ID_OUTOF_RANGE", {}, {})
    /\ UNCHANGED <<rows, broken, leaked, scene, known, upset, ncalls, nfaults>>

Free(t) == ({t} \X (1..PoolSize)) \ (used \cup down)

\* GetConn has a connection.
Obtains(w, c) ==
    /\ TableName(c) # NoTable
    /\ \E k \in Free(TableName(c)) :
          /\ used' = used \cup {k}
          /\ inner' = [inner EXCEPT ![w] = {k}]
    /\ at' = [at EXCEPT ![w] = "mysql_query"]
    /\ todo' = [todo EXCEPT ![w] = <<c>> \o Tail(@)]
    /\ UNCHANGED <<rows, down, broken, leaked, scene, top, mine, ans, known, upset, ncalls,
                   nfaults>>

\* GetConn has none, or there is no such pool.
Refused(w, c) ==
    /\ TableName(c) # NoTable
    /\ IF Free(TableName(c)) # {} THEN Fault ELSE UNCHANGED nfaults
    /\ Answered(w, "CONN_POOL_ISNOT_EXIST", {}, {})
    /\ UNCHANGED <<rows, broken, leaked, scene, known, upset, ncalls>>

\* GetClusterId tries a random number: GenerateClusterNum has 0 to 199999.
GenerateClusterNum == 0..2*Hundred - 1
Candidates(w) ==
    LET c == Head(todo[w])
    IN  IF c.fn = "GetClusterId" THEN {[c EXCEPT !.key = n] : n \in GenerateClusterNum} ELSE {c}

GetConn(w) ==
    /\ Ready(w, "GetConn")
    /\ \E c \in Candidates(w) : OutOfRange(w, c) \/ Obtains(w, c) \/ Refused(w, c)

\* mysql_query executes the statement and the answer comes back.
Executes(w) ==
    LET c == Head(todo[w])
        s == Statement(c)
    IN  /\ Ready(w, "mysql_query")
        /\ c.fn \notin {"GetClusterId", "GetTypeName"}
        /\ c.fn = "GetPhotoIdx" => Info(c.usr) # {}
        /\ rows' = s.rows
        /\ \E a \in s.ans :
             IF c.fn = "GetClusterDetailData" /\ c.val = 0 /\ a = "TRUE"
             THEN \* the second select
                  /\ todo' = [todo EXCEPT ![w] = <<[c EXCEPT !.val = 1]>>]
                  /\ UNCHANGED <<used, down, top, at, mine, inner, ans>>
             ELSE IF s.more # <<>>
             THEN \* the connection is kept for the calls that follow
                  /\ todo' = [todo EXCEPT ![w] = s.more]
                  /\ mine' = [mine EXCEPT ![w] = inner[w]]
                  /\ inner' = [inner EXCEPT ![w] = {}]
                  /\ at' = [at EXCEPT ![w] = "GetConn"]
                  /\ UNCHANGED <<used, down, top, ans>>
             ELSE Answered(w, a, inner[w], {})
        /\ UNCHANGED <<broken, leaked, scene, known, upset, ncalls, nfaults>>

\* GetClusterId asks whether its number is free and, until one is, tries another.
\* The number goes to the INSERT of InsertClusterInfo.
GetClusterId(w) ==
    LET c == Head(todo[w])
        taken == Cluster(c.key) # {}
    IN  /\ Ready(w, "mysql_query") /\ c.fn = "GetClusterId"
        /\ todo' = [todo EXCEPT ![w] =
                      IF taken THEN @ ELSE <<@[2], [@[3] EXCEPT !.key = c.key]>>]
        /\ inner' = [inner EXCEPT ![w] = {}]
        /\ at' = [at EXCEPT ![w] = "GetConn"]
        /\ Settle(inner[w], {})
        /\ UNCHANGED <<rows, broken, leaked, scene, top, mine, ans, known, upset, ncalls,
                       nfaults>>

\* The top type is taken for one with parent 0.
ToZero(w) ==
    LET c == Head(todo[w])
    IN  /\ Ready(w, "mysql_query") /\ c.fn = "GetTypeName" /\ inner[w] \cap broken = {}
        /\ c.key \in DOMAIN Parent
        /\ todo' = [todo EXCEPT ![w] = <<[c EXCEPT !.key = Parent[c.key]]>> \o Tail(@)]
        /\ UNCHANGED <<rows, poolVars, scene, top, at, mine, inner, ans, known, upset,
                        ncalls, nfaults>>

\* GetTypeName follows the parents up to -1 on one connection; a type without a row
\* is asked for again, and so is one whose statement fails.
GetTypeName(w) ==
    LET c == Head(todo[w])
    IN  /\ Ready(w, "mysql_query") /\ c.fn = "GetTypeName" /\ inner[w] \cap broken = {}
        /\ c.key \in DOMAIN Parent
        /\ IF Parent[c.key] = -1
           THEN Answered(w, "TRUE", inner[w], {})
           ELSE /\ todo' = [todo EXCEPT ![w] = <<[c EXCEPT !.key = Parent[c.key]]>> \o Tail(@)]
                /\ UNCHANGED <<used, down, top, at, mine, inner, ans>>
        /\ UNCHANGED <<rows, broken, leaked, scene, known, upset, ncalls, nfaults>>

-----------------------------------------------------------------------------
(* Failures. *)

\* CR_SERVER_LOST, CR_SERVER_GONE_ERROR: before or after the statement took effect.
ServerLost(w) ==
    LET c == Head(todo[w])
    IN  /\ Ready(w, "mysql_query")
        /\ Fault
        /\ rows' \in {rows} \cup IF c.fn \in {"GetClusterId", "GetTypeName"} THEN {}
                                 ELSE {Statement(c).rows}
        /\ Answered(w, "DB_DISCONNECT", {}, inner[w])
        /\ UNCHANGED <<broken, leaked, scene, known, upset, ncalls>>

\* What a function without a branch for the failure returns.  A scan goes on to its
\* next table.
Unforeseen(c) == IF c.fn \in Scans THEN "FALSE" ELSE "TRUE"

\* Any other failure.  GetTypeName asks again on its connection, which may have failed
\* for good; GetMaxUsridInTheRange calls HandleDBError; GetClusterId takes another
\* connection for another number; the others leave with their connection.
OtherError(w) ==
    LET c == Head(todo[w])
    IN  /\ Ready(w, "mysql_query")
        /\ Fault
        /\ upset' = [upset EXCEPT ![w] = TRUE]
        /\ \/ /\ c.fn = "GetTypeName"
              /\ broken' \in {broken, broken \cup inner[w]}
              /\ UNCHANGED <<used, down, leaked, top, todo, at, mine, inner, ans>>
           \/ /\ c.fn = "GetMaxUsridInTheRange"
              /\ Answered(w, "EXECUTE_SQL_ERROR", inner[w], {})
              /\ UNCHANGED <<broken, leaked>>
           \/ /\ c.fn = "GetClusterId"
              /\ leaked' = leaked \cup inner[w] /\ UNCHANGED broken
              /\ inner' = [inner EXCEPT ![w] = {}]
              /\ at' = [at EXCEPT ![w] = "GetConn"]
              /\ UNCHANGED <<used, down, top, todo, mine, ans>>
           \/ /\ c.fn \notin {"GetTypeName", "GetMaxUsridInTheRange", "GetClusterId"}
              /\ leaked' = leaked \cup inner[w] /\ UNCHANGED broken
              /\ Answered(w, Unforeseen(c), {}, {})
        /\ UNCHANGED <<rows, scene, known, ncalls>>

\* GetPhotoIdx uses the row it fetched without looking whether there is one: the
\* process dies, and a new one has new pools.
PhotoOfNobody(w) ==
    /\ Ready(w, "mysql_query")
    /\ Head(todo[w]).fn = "GetPhotoIdx" /\ Info(Head(todo[w]).usr) = {}
    /\ used' = {} /\ down' = {} /\ broken' = {} /\ leaked' = {}
    /\ top' = [v \in Workers |-> Idle]
    /\ todo' = [v \in Workers |-> <<>>]
    /\ at' = [v \in Workers |-> "GetConn"]
    /\ mine' = [v \in Workers |-> {}]
    /\ inner' = [v \in Workers |-> {}]
    /\ ans' = [v \in Workers |-> "TRUE"]
    /\ known' = [v \in Workers |-> FALSE]
    /\ upset' = [v \in Workers |-> FALSE]
    /\ UNCHANGED <<rows, scene, ncalls, nfaults>>

\* The thread that ReconnDatabase wakes has the connection again.
Reconnects(k) ==
    /\ down' = down \ {k}
    /\ broken' = broken \ {k}
    /\ UNCHANGED <<rows, used, leaked, scene, callVars, ncalls, nfaults>>

-----------------------------------------------------------------------------

Runs(w) ==
    \/ GetConn(w)
    \/ Executes(w)
    \/ GetClusterId(w)
    \/ GetTypeName(w)
    \/ PhotoOfNobody(w)

TablesNext ==
    \/ \E w \in Workers :
          \/ \E c \in scene : Begin(w, c)
          \/ Runs(w)
          \/ ServerLost(w)
          \/ OtherError(w)
    \/ \E k \in down : Reconnects(k)

TablesSpec == TablesInit /\ [][TablesNext]_tableVars

\* A try of GetClusterId with a number that no cluster has.
FreshTry(w) ==
    /\ Ready(w, "GetConn")
    /\ \E c \in Candidates(w) :
          /\ c.fn = "GetClusterId" /\ Cluster(c.key) = {}
          /\ OutOfRange(w, c) \/ Obtains(w, c) \/ Refused(w, c)

\* The database answers or fails, and rand() does not keep to taken numbers.
TablesFairness == \A w \in Workers : WF_tableVars(Runs(w)) /\ SF_tableVars(FreshTry(w))

-----------------------------------------------------------------------------
(* Properties. *)

\* The calls of the handlers, and those the functions make themselves.
Steps == [fn : Functions \cup {"GetClusterId"}, usr : Int, key : Int, val : Int]

\* Rows are in a shard, a connection is not both in use and being reconnected, and what
\* a worker is about is a call of the scene or one the functions make themselves.
TablesTypeOK ==
    /\ \A r \in rows : r.table \in TableNames \ {ClusterType}
    /\ used \subseteq Conns /\ down \subseteq Conns \ used
    /\ scene \in Scenes
    /\ top \in [Workers -> scene \cup {Idle}]
    /\ \A w \in Workers : todo[w] \in Seq(Steps) /\ (todo[w] = <<>> <=> top[w] = Idle)
    /\ at \in [Workers -> {"GetConn", "mysql_query"}]
    /\ mine \in [Workers -> SUBSET Conns] /\ inner \in [Workers -> SUBSET Conns]
    /\ ans \in [Workers -> Answers]
    /\ leaked \subseteq Conns /\ broken \subseteq Conns
    /\ known \in [Workers -> BOOLEAN] /\ upset \in [Workers -> BOOLEAN]
    /\ ncalls \in 0..MaxCalls /\ nfaults \in 0..MaxFaults

Holds(w) == mine[w] \cup inner[w]

\* A connection that is not free is in the hands of exactly one call, is being
\* reconnected, or belongs to a statement that failed in an unforeseen way: nothing
\* else loses one, not a nested call that fails while its caller keeps another
\* (service_table_group_detail.c:285, service_table_cluster_detail.c:139), and none
\* has two users.
ConnAccounted ==
    /\ used = leaked \cup UNION {Holds(w) : w \in Workers}
    /\ \A w \in Workers : /\ Holds(w) \cap leaked = {}
                          /\ \A v \in Workers \ {w} : Holds(v) \cap Holds(w) = {}

\* The call of w ends with the answer that its row is not there, and it was.
Denies(w) ==
    /\ top[w].fn \in Scans /\ known[w]
    /\ top'[w] = Idle /\ ans'[w] = "FALSE"

\* Who registered before the question is found, whatever is registered and whatever
\* fails while the tables are looked through one after the other: a lost server or a
\* pool without a connection ends the scan with an answer of its own.  A row is missed
\* only after an unforeseen failure of one of the scan's statements.
AccountFound == [][\A w \in Workers : Denies(w) => upset'[w]]_tableVars

AsksForNoType(w) ==
    \/ top[w].fn = "InsertClusterInfo" /\ top[w].val \notin DOMAIN Parent
    \/ top[w].fn = "GetTypeName" /\ top[w].key \notin DOMAIN Parent

\* GetTypeName with a connection on which its statement fails for ever.
FailsForEver(w) ==
    at[w] = "mysql_query" /\ Head(todo[w]).fn = "GetTypeName" /\ inner[w] \cap broken # {}

\* Every call returns, also when a statement fails or its answer is lost, but for two
\* kinds: those that ask for a type that has no row, and those whose connection fails
\* for good in GetTypeName.  They ask for ever, with the connection in hand
\* (service_table_Cluster_type.c:45-86).
CallsEnd ==
    \A w \in Workers :
        top[w] # Idle ~> (top[w] = Idle \/ AsksForNoType(w) \/ FailsForEver(w))

=============================================================================
