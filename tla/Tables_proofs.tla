--------------------------- MODULE Tables_proofs ---------------------------
(* The connections and the scans of Tables, for every set of workers, size of *)
(* the shards and of the pools, and every set of calls.                       *)
EXTENDS Tables, FiniteSetTheorems, SequenceTheorems, TLAPS

-----------------------------------------------------------------------------
(* Shards. *)

KnownFns == Functions \cup {"GetClusterId", "GetTypeName"}
KCalls == [fn : KnownFns, usr : Int, key : Int, val : Int]
ShardTables == TableNames \ {ClusterType}

\* A quotient below 2.
LEMMA DivHundred ==
    ASSUME NEW n \in 1..2*Hundred
    PROVE  ((n - 1) \div Hundred) + 1 \in 1..2
<1>1. Hundred \in Nat /\ Hundred > 0
      BY TablesAssumption
<1> DEFINE q == (n - 1) \div Hundred
<1>2. q \in Int /\ Hundred * q =< n - 1 /\ n - 1 < Hundred * (q + 1)
      BY <1>1
<1>3. n - 1 >= 0 /\ n - 1 < 2 * Hundred
      BY <1>1
<1>4. q < 2
  <2> SUFFICES ASSUME q >= 2 PROVE FALSE
      BY <1>2
  <2>1. Hundred * q >= Hundred * 2
        BY <1>1, <1>2
  <2> QED BY <1>1, <1>2, <1>3, <2>1
<1>5. q >= 0
  <2> SUFFICES ASSUME q + 1 =< 0 PROVE FALSE
      BY <1>2
  <2>1. Hundred * (q + 1) =< 0
        BY <1>1, <1>2
  <2> QED BY <1>1, <1>2, <1>3, <2>1
<1> QED BY <1>2, <1>4, <1>5

\* The numbers of a shard of fifty thousand go as far as the last one's.
LEMMA DivFifty ==
    ASSUME NEW n \in 1..2*Hundred
    PROVE  ((n - 1) \div Fifty) + 1 \in 1..(((2*Hundred - 1) \div Fifty) + 1)
<1>1. Fifty \in Nat /\ Fifty > 0 /\ Hundred \in Nat
      BY TablesAssumption
<1> DEFINE q == (n - 1) \div Fifty
           p == (2*Hundred - 1) \div Fifty
<1>2. /\ q \in Int /\ Fifty * q =< n - 1 /\ n - 1 < Fifty * (q + 1)
      /\ p \in Int /\ Fifty * p =< 2*Hundred - 1 /\ 2*Hundred - 1 < Fifty * (p + 1)
      BY <1>1
<1>3. n - 1 >= 0 /\ n - 1 =< 2*Hundred - 1
      BY <1>1
<1>4. q =< p
  <2> SUFFICES ASSUME q >= p + 1 PROVE FALSE
      BY <1>2
  <2>1. Fifty * q >= Fifty * (p + 1)
        BY <1>1, <1>2
  <2> QED BY <1>1, <1>2, <1>3, <2>1
<1>5. q >= 0
  <2> SUFFICES ASSUME q + 1 =< 0 PROVE FALSE
      BY <1>2
  <2>1. Fifty * (q + 1) =< 0
        BY <1>1, <1>2
  <2> QED BY <1>1, <1>2, <1>3, <2>1
<1> QED BY <1>2, <1>4, <1>5

LEMMA ShardKnown ==
    \A base \in Names : \A n \in Int :
        Shard(base, n, Hundred) \in (Names \X (1..2)) \cup {NoTable}
BY DivHundred DEF Shard

LEMMA DetailKnown ==
    \A n \in Int : GetClusterDetailTableName(n) \in
        ({"cluster_detail"} \X (1..(((2*Hundred - 1) \div Fifty) + 1))) \cup {NoTable}
BY DivFifty DEF Shard, GetClusterDetailTableName

\* Where the statement of a call goes.
LEMMA TableKnown ==
    ASSUME NEW c \in KCalls, c.fn # "GetTypeName"
    PROVE  TableName(c) \in ShardTables \cup {NoTable}
<1>1. c.usr \in Int /\ c.key \in Int /\ c.val \in Int /\ c.fn \in KnownFns
      BY DEF KCalls
<1>2. /\ GetLoginTableName(c.usr) \in (Names \X (1..2)) \cup {NoTable}
      /\ GetLoginTableName(c.val) \in (Names \X (1..2)) \cup {NoTable}
      /\ GetUsrInfoTableName(c.usr) \in (Names \X (1..2)) \cup {NoTable}
      /\ GetGroupTableName(c.usr) \in (Names \X (1..2)) \cup {NoTable}
      /\ GetGroupDetailTableName(c.usr) \in (Names \X (1..2)) \cup {NoTable}
      /\ GetLoginTmpTableName(c.usr) \in (Names \X (1..2)) \cup {NoTable}
      /\ GetBelongToClusterTableName(c.usr) \in (Names \X (1..2)) \cup {NoTable}
      /\ GetClusterTableName(c.key) \in (Names \X (1..2)) \cup {NoTable}
  <2>1. /\ "user_login" \in Names /\ "user_info" \in Names /\ "friend_group" \in Names
        /\ "friend_group_detail" \in Names /\ "user_connectstatus" \in Names
        /\ "user_belongto_which_cluster" \in Names /\ "cluster" \in Names
        BY DEF Names
  <2> QED BY <1>1, <2>1, ShardKnown DEF GetLoginTableName, GetUsrInfoTableName,
             GetGroupTableName, GetGroupDetailTableName, GetLoginTmpTableName,
             GetBelongToClusterTableName, GetClusterTableName
<1>3. /\ Names \X (1..2) \subseteq ShardTables
      /\ {"cluster_detail"} \X (1..(((2*Hundred - 1) \div Fifty) + 1)) \subseteq ShardTables
      BY DEF ShardTables, TableNames, Names, ClusterType
<1>4. \/ TableName(c) \in {GetLoginTableName(c.usr), GetLoginTableName(c.val),
                           GetUsrInfoTableName(c.usr), GetGroupTableName(c.usr),
                           GetGroupDetailTableName(c.usr), GetLoginTmpTableName(c.usr),
                           GetBelongToClusterTableName(c.usr), GetClusterTableName(c.key)}
      \/ TableName(c) = GetClusterDetailTableName(c.key)
      BY <1>1 DEF TableName, KnownFns, Functions, LoginFns, InfoFns, GroupFns, FriendFns,
                  StatusFns, ClusterFns, BelongFns, DetailFns
<1>5. CASE TableName(c) = GetClusterDetailTableName(c.key)
      BY <1>1, <1>3, <1>5, DetailKnown
<1>6. CASE TableName(c) # GetClusterDetailTableName(c.key)
      BY <1>2, <1>3, <1>4, <1>6
<1> QED BY <1>5, <1>6

LEMMA TableOfScan ==
    \A i \in 1..2 : GetLoginTableName(i * Hundred) = <<"user_login", i>>
<1>1. Hundred \in Nat /\ Hundred > 0
      BY TablesAssumption
<1>2. (1 * Hundred - 1) \div Hundred = 0
      BY <1>1
<1>3. (2 * Hundred - 1) \div Hundred = 1
  <2> DEFINE q == (2 * Hundred - 1) \div Hundred
  <2>1. q \in Int /\ Hundred * q =< 2 * Hundred - 1 /\ 2 * Hundred - 1 < Hundred * (q + 1)
        BY <1>1
  <2>2. q < 2
    <3> SUFFICES ASSUME q >= 2 PROVE FALSE
        BY <2>1
    <3>1. Hundred * q >= Hundred * 2
          BY <1>1, <2>1
    <3> QED BY <1>1, <2>1, <3>1
  <2>3. q >= 1
    <3> SUFFICES ASSUME q + 1 =< 1 PROVE FALSE
        BY <2>1
    <3>1. Hundred * (q + 1) =< Hundred * 1
          BY <1>1, <2>1
    <3> QED BY <1>1, <2>1, <3>1
  <2> QED BY <2>1, <2>2, <2>3
<1> QED BY <1>1, <1>2, <1>3 DEF GetLoginTableName, Shard

-----------------------------------------------------------------------------
(* Statements. *)

AllRows == [table : ShardTables, usr : Int, key : Int, val : Int]
Visitors == {"GetFriendInfoFromDB", "GetClusterDetailData"}
AskedFns == {"GetNickname", "GetSigAndPhotoIdx", "IsUsrLogin", "GetPhotoIdx"}
Asked == [fn : AskedFns, usr : Int, key : Int, val : Int]
IsAccount(r) == r.table \in {"user_login"} \X (1..2)

LEMMA SeqOfSet ==
    ASSUME NEW S, IsFiniteSet(S)
    PROVE  SetToSeq(S) \in Seq(S)
<1>1. Cardinality(S) \in Nat /\ ExistsBijection(1..Cardinality(S), S)
      BY FS_CardinalityType, FS_CountingElements
<1>2. \E f \in [1..Cardinality(S) -> S] : IsInjective(f)
      BY <1>1, Zenon DEF ExistsBijection, Bijection, Injection
<1>3. SetToSeq(S) \in [1..Cardinality(S) -> S]
      BY <1>2, Zenon DEF SetToSeq
<1> QED BY <1>1, <1>3

LEMMA ImageFinite ==
    ASSUME NEW S, IsFiniteSet(S)
    PROVE  IsFiniteSet({r.val : r \in S}) /\ IsFiniteSet({r.usr : r \in S})
<1>1. /\ [r \in S |-> r.val] \in Surjection(S, {r.val : r \in S})
      /\ [r \in S |-> r.usr] \in Surjection(S, {r.usr : r \in S})
      BY DEF Surjection
<1> QED BY <1>1, FS_Surjection, Zenon DEF ExistsSurjection

\* What a statement does that only reads, one that adds a row, and one that takes rows
\* away, which it never does in the user_login tables.
Reading(c) == Statement(c).rows = rows /\ Statement(c).more = <<>>
Adding(c) == /\ Statement(c).rows = rows \cup {Row(TableName(c), c)}
             /\ Statement(c).more = <<>>
Deleting(c) == /\ Statement(c).rows \subseteq rows /\ Statement(c).more = <<>>
               /\ \A r \in rows : IsAccount(r) => r \in Statement(c).rows

LEMMA UserReads ==
    ASSUME NEW c, c.fn \in {"IsUsridAndPasswdCorrect", "JudgeAccountAndPasswd",
                            "IsTheSameUsrID", "IsTheSameAccount", "IsUsrIDExistOrNot",
                            "GetNickname", "GetMaxUsridInTheRange", "GetSigAndPhotoIdx",
                            "GetPhotoIdx", "IsEnoughClusterLevel", "IsUsrLogin",
                            "InsertImageData"}
    PROVE  Reading(c)
<1>1. Statement(c) \in {IsUsridAndPasswdCorrect(c), JudgeAccountAndPasswd(c),
                         IsTheSameUsrID(c), IsTheSameAccount(c), IsUsrIDExistOrNot(c),
                         GetNickname(c), GetMaxUsridInTheRange(c), GetSigAndPhotoIdx(c),
                         GetPhotoIdx(c), IsEnoughClusterLevel(c), IsUsrLogin(c),
                         InsertImageData(c)}
      BY DEF Statement, UserStatement, GroupFns, FriendFns, ClusterFns, BelongFns,
             DetailFns
<1>2. \A s \in {IsUsridAndPasswdCorrect(c), JudgeAccountAndPasswd(c), IsTheSameUsrID(c),
                IsTheSameAccount(c), IsUsrIDExistOrNot(c), GetNickname(c),
                GetMaxUsridInTheRange(c), GetSigAndPhotoIdx(c), GetPhotoIdx(c),
                IsEnoughClusterLevel(c), IsUsrLogin(c), InsertImageData(c)} :
         s.rows = rows /\ s.more = <<>>
      BY DEF Reads, Asks, Writes, IsUsridAndPasswdCorrect, JudgeAccountAndPasswd,
             IsTheSameUsrID, IsTheSameAccount, IsUsrIDExistOrNot, GetNickname,
             GetMaxUsridInTheRange, GetSigAndPhotoIdx, GetPhotoIdx, IsEnoughClusterLevel,
             IsUsrLogin, InsertImageData
<1> QED BY <1>1, <1>2 DEF Reading

LEMMA FriendReads ==
    ASSUME NEW c, c.fn \in {"IsGroupIDExistOrNot", "FindMaxGroupID", "GetGroupNum",
                            "GetFriendGroupInfo", "IsFriendDataExistOrNot"}
    PROVE  Reading(c)
<1>1. Statement(c) \in {IsGroupIDExistOrNot(c), FindMaxGroupID(c), GetGroupNum(c),
                         GetFriendGroupInfo(c), IsFriendDataExistOrNot(c)}
      BY DEF Statement, FriendStatement, GroupFns, FriendFns
<1>2. \A s \in {IsGroupIDExistOrNot(c), FindMaxGroupID(c), GetGroupNum(c),
                GetFriendGroupInfo(c), IsFriendDataExistOrNot(c)} :
         s.rows = rows /\ s.more = <<>>
      BY DEF Reads, Asks, IsGroupIDExistOrNot, FindMaxGroupID, GetGroupNum,
             GetFriendGroupInfo, IsFriendDataExistOrNot
<1> QED BY <1>1, <1>2 DEF Reading

LEMMA ClusterReads ==
    ASSUME NEW c, c.fn \in {"GetClusterTypeName", "GetClusterData",
                            "IsUsrHavePowerToDelCluster", "GetUsrsId"}
    PROVE  Reading(c)
<1>1. Statement(c) \in {GetClusterTypeName(c), GetClusterData(c),
                         IsUsrHavePowerToDelCluster(c), GetUsrsId(c)}
      BY DEF Statement, ClusterStatement, GroupFns, FriendFns, ClusterFns, BelongFns,
             DetailFns
<1>2. \A s \in {GetClusterTypeName(c), GetClusterData(c), IsUsrHavePowerToDelCluster(c),
                GetUsrsId(c)} :
         s.rows = rows /\ s.more = <<>>
      BY DEF Reads, GetClusterTypeName, GetClusterData, IsUsrHavePowerToDelCluster,
             GetUsrsId
<1> QED BY <1>1, <1>2 DEF Reading

LEMMA UserAdds ==
    ASSUME NEW c, c.fn \in {"InsertRegisInfoIntoDB", "InsertUsrInfo",
                            "InsertLoginInfoIntoDB"}
    PROVE  Adding(c)
<1>1. CASE c.fn = "InsertRegisInfoIntoDB"
  <2>1. Statement(c) = InsertRegisInfoIntoDB(c)
        BY <1>1 DEF Statement, UserStatement, GroupFns, FriendFns, ClusterFns, BelongFns,
             DetailFns
  <2>2. InsertRegisInfoIntoDB(c) = Writes(rows \cup {Row(TableName(c), c)})
        BY <1>1 DEF InsertRegisInfoIntoDB, TableName, LoginFns, InfoFns, GroupFns, FriendFns, StatusFns, ClusterFns, BelongFns,
               DetailFns
  <2> QED BY <2>1, <2>2 DEF Adding, Writes
<1>2. CASE c.fn = "InsertUsrInfo"
  <2>1. Statement(c) = InsertUsrInfo(c)
        BY <1>2 DEF Statement, UserStatement, GroupFns, FriendFns, ClusterFns, BelongFns,
             DetailFns
  <2>2. InsertUsrInfo(c) = Writes(rows \cup {Row(TableName(c), c)})
        BY <1>2 DEF InsertUsrInfo, TableName, LoginFns, InfoFns, GroupFns, FriendFns, StatusFns, ClusterFns, BelongFns,
               DetailFns
  <2> QED BY <2>1, <2>2 DEF Adding, Writes
<1>3. CASE c.fn = "InsertLoginInfoIntoDB"
  <2>1. Statement(c) = InsertLoginInfoIntoDB(c)
        BY <1>3 DEF Statement, UserStatement, GroupFns, FriendFns, ClusterFns, BelongFns,
             DetailFns
  <2>2. InsertLoginInfoIntoDB(c) = Writes(rows \cup {Row(TableName(c), c)})
        BY <1>3 DEF InsertLoginInfoIntoDB, TableName, LoginFns, InfoFns, GroupFns, FriendFns, StatusFns, ClusterFns, BelongFns,
               DetailFns
  <2> QED BY <2>1, <2>2 DEF Adding, Writes
<1> QED BY <1>1, <1>2, <1>3

LEMMA FriendAdds ==
    ASSUME NEW c, c.fn \in {"InsertFriGroupData", "InsertFriendData"}
    PROVE  Adding(c)
<1>1. CASE c.fn = "InsertFriGroupData"
  <2>1. Statement(c) = InsertFriGroupData(c)
        BY <1>1 DEF Statement, FriendStatement, GroupFns, FriendFns
  <2>2. InsertFriGroupData(c) = Writes(rows \cup {Row(TableName(c), c)})
        BY <1>1 DEF InsertFriGroupData, TableName, LoginFns, InfoFns, GroupFns, FriendFns, StatusFns, ClusterFns, BelongFns,
               DetailFns
  <2> QED BY <2>1, <2>2 DEF Adding, Writes
<1>2. CASE c.fn = "InsertFriendData"
  <2>1. Statement(c) = InsertFriendData(c)
        BY <1>2 DEF Statement, FriendStatement, GroupFns, FriendFns
  <2>2. InsertFriendData(c) = Writes(rows \cup {Row(TableName(c), c)})
        BY <1>2 DEF InsertFriendData, TableName, LoginFns, InfoFns, GroupFns, FriendFns, StatusFns, ClusterFns, BelongFns,
               DetailFns
  <2> QED BY <2>1, <2>2 DEF Adding, Writes
<1> QED BY <1>1, <1>2

LEMMA ClusterAdds ==
    ASSUME NEW c, c.fn \in {"InsertClusterInfo", "InsertOwnClusterInfo",
                            "InsertClusterMember"}
    PROVE  Adding(c)
<1>1. CASE c.fn = "InsertClusterInfo"
  <2>1. Statement(c) = InsertClusterInfo(c)
        BY <1>1 DEF Statement, ClusterStatement, GroupFns, FriendFns, ClusterFns, BelongFns,
             DetailFns
  <2>2. InsertClusterInfo(c) = Writes(rows \cup {Row(TableName(c), c)})
        BY <1>1 DEF InsertClusterInfo, TableName, LoginFns, InfoFns, GroupFns, FriendFns, StatusFns, ClusterFns, BelongFns,
               DetailFns
  <2> QED BY <2>1, <2>2 DEF Adding, Writes
<1>2. CASE c.fn = "InsertOwnClusterInfo"
  <2>1. Statement(c) = InsertOwnClusterInfo(c)
        BY <1>2 DEF Statement, ClusterStatement, GroupFns, FriendFns, ClusterFns, BelongFns,
             DetailFns
  <2>2. InsertOwnClusterInfo(c) = Writes(rows \cup {Row(TableName(c), c)})
        BY <1>2 DEF InsertOwnClusterInfo, TableName, LoginFns, InfoFns, GroupFns, FriendFns, StatusFns, ClusterFns, BelongFns,
               DetailFns
  <2> QED BY <2>1, <2>2 DEF Adding, Writes
<1>3. CASE c.fn = "InsertClusterMember"
  <2>1. Statement(c) = InsertClusterMember(c)
        BY <1>3 DEF Statement, ClusterStatement, GroupFns, FriendFns, ClusterFns, BelongFns,
             DetailFns
  <2>2. InsertClusterMember(c) = Writes(rows \cup {Row(TableName(c), c)})
        BY <1>3 DEF InsertClusterMember, TableName, LoginFns, InfoFns, GroupFns, FriendFns, StatusFns, ClusterFns, BelongFns,
               DetailFns
  <2> QED BY <2>1, <2>2 DEF Adding, Writes
<1> QED BY <1>1, <1>2, <1>3

LEMMA OtherTables ==
    \A n : \A r : r.table \in {GetLoginTmpTableName(n), GetGroupTableName(n),
                                GetGroupDetailTableName(n), GetClusterTableName(n),
                                GetBelongToClusterTableName(n), GetClusterDetailTableName(n)} => ~IsAccount(r)
BY DEF IsAccount, Shard, NoTable, GetLoginTmpTableName, GetGroupTableName, GetGroupDetailTableName,
       GetClusterTableName, GetBelongToClusterTableName, GetClusterDetailTableName

LEMMA UserDeletes ==
    ASSUME NEW c, c.fn \in {"DeleteItemByUsrId"}
    PROVE  Deleting(c)
<1>1. Statement(c) \in {DeleteItemByUsrId(c)}
      BY DEF Statement, UserStatement, GroupFns, FriendFns, ClusterFns, BelongFns,
             DetailFns
<1>2. \A s \in {DeleteItemByUsrId(c)} :
         s.rows \subseteq rows /\ s.more = <<>> /\ (\A r \in rows : IsAccount(r) => r \in s.rows)
      BY OtherTables DEF Writes, InTable, Online, DeleteItemByUsrId
<1> QED BY <1>1, <1>2 DEF Deleting

LEMMA FriendDeletes ==
    ASSUME NEW c, c.fn \in {"DeleteFriGroupData", "DeleteFriendData"}
    PROVE  Deleting(c)
<1>1. Statement(c) \in {DeleteFriGroupData(c), DeleteFriendData(c)}
      BY DEF Statement, FriendStatement, GroupFns, FriendFns
<1>2. \A s \in {DeleteFriGroupData(c), DeleteFriendData(c)} :
         s.rows \subseteq rows /\ s.more = <<>> /\ (\A r \in rows : IsAccount(r) => r \in s.rows)
      BY OtherTables DEF Writes, InTable, GroupsOf, Friends, DeleteFriGroupData, DeleteFriendData
<1> QED BY <1>1, <1>2 DEF Deleting

LEMMA ClusterDeletes ==
    ASSUME NEW c, c.fn \in {"DeleteCluster", "DelOwnClusterInfo", "DeleteUsrsOwnCluster",
                            "DelClusterMember", "DelAllClusterMember"}
    PROVE  Deleting(c)
<1>1. Statement(c) \in {DeleteCluster(c), DelOwnClusterInfo(c), DeleteUsrsOwnCluster(c),
                         DelClusterMember(c), DelAllClusterMember(c)}
      BY DEF Statement, ClusterStatement, GroupFns, FriendFns, ClusterFns, BelongFns,
             DetailFns
<1>2. \A s \in {DeleteCluster(c), DelOwnClusterInfo(c), DeleteUsrsOwnCluster(c),
                DelClusterMember(c), DelAllClusterMember(c)} :
         s.rows \subseteq rows /\ s.more = <<>> /\ (\A r \in rows : IsAccount(r) => r \in s.rows)
      BY OtherTables DEF Writes, InTable, Cluster, Belongs, Members, DeleteCluster, DelOwnClusterInfo,
             DeleteUsrsOwnCluster, DelClusterMember, DelAllClusterMember
<1> QED BY <1>1, <1>2 DEF Deleting

LEMMA FriendCalls ==
    ASSUME NEW friends \in Seq(Int)
    PROVE  LET asked == <<"GetNickname", "GetSigAndPhotoIdx", "IsUsrLogin">>
           IN  [i \in 1..3*Len(friends) |->
                  Call(asked[((i - 1) % 3) + 1], friends[((i - 1) \div 3) + 1])] \in Seq(Asked)
<1> DEFINE asked == <<"GetNickname", "GetSigAndPhotoIdx", "IsUsrLogin">>
<1>1. Len(friends) \in Nat
      OBVIOUS
<1>2. ASSUME NEW i \in 1..3*Len(friends)
      PROVE  Call(asked[((i - 1) % 3) + 1], friends[((i - 1) \div 3) + 1]) \in Asked
  <2>1. ((i - 1) % 3) + 1 \in 1..3 /\ ((i - 1) \div 3) + 1 \in 1..Len(friends)
        BY <1>1
  <2>2. asked[((i - 1) % 3) + 1] \in AskedFns
        BY <2>1 DEF AskedFns
  <2>3. friends[((i - 1) \div 3) + 1] \in Int
        BY <2>1
  <2> QED BY <2>2, <2>3 DEF Call, Asked
<1>3. 3*Len(friends) \in Nat
      BY <1>1
<1> QED BY <1>2, <1>3

LEMMA MemberCalls ==
    ASSUME NEW members \in Seq(Int)
    PROVE  LET asked == <<"GetNickname", "GetPhotoIdx">>
           IN  [i \in 1..2*Len(members) |->
                  Call(asked[((i - 1) % 2) + 1], members[((i - 1) \div 2) + 1])] \in Seq(Asked)
<1> DEFINE asked == <<"GetNickname", "GetPhotoIdx">>
<1>1. Len(members) \in Nat
      OBVIOUS
<1>2. ASSUME NEW i \in 1..2*Len(members)
      PROVE  Call(asked[((i - 1) % 2) + 1], members[((i - 1) \div 2) + 1]) \in Asked
  <2>1. ((i - 1) % 2) + 1 \in 1..2 /\ ((i - 1) \div 2) + 1 \in 1..Len(members)
        BY <1>1
  <2>2. asked[((i - 1) % 2) + 1] \in AskedFns
        BY <2>1 DEF AskedFns
  <2>3. members[((i - 1) \div 2) + 1] \in Int
        BY <2>1
  <2> QED BY <2>2, <2>3 DEF Call, Asked
<1>3. 2*Len(members) \in Nat
      BY <1>1
<1> QED BY <1>2, <1>3

\* The calls a function makes for its rows, with its connection in hand.
LEMMA CallsMore ==
    ASSUME NEW c, c.fn \in Visitors, rows \subseteq AllRows, IsFiniteSet(rows)
    PROVE  Statement(c).rows = rows /\ Statement(c).more \in Seq(Asked)
<1>1. CASE c.fn = "GetFriendInfoFromDB"
  <2>1. Statement(c) = GetFriendInfoFromDB(c)
        BY <1>1 DEF Statement, FriendStatement, GroupFns, FriendFns
  <2> DEFINE mine0 == Friends(c.usr, c.key)
             friends == SetToSeq({r.val : r \in mine0})
  <2>2. mine0 \in SUBSET rows
        BY DEF Friends, InTable
  <2>3. IsFiniteSet({r.val : r \in mine0}) /\ {r.val : r \in mine0} \subseteq Int
    <3>1. IsFiniteSet(mine0)
          BY <2>2, FS_Subset, Zenon
    <3>2. \A r \in mine0 : r.val \in Int
          BY <2>2 DEF AllRows
    <3> HIDE DEF mine0
    <3>3. IsFiniteSet({r.val : r \in mine0})
          BY <3>1, ImageFinite, Zenon
    <3> QED BY <3>2, <3>3
  <2>4. friends \in Seq(Int)
        BY <2>3, SeqOfSet
  <2> HIDE DEF friends
  <2>5. GetFriendInfoFromDB(c).more \in Seq(Asked)
        BY <2>4, FriendCalls DEF GetFriendInfoFromDB, Visits, friends
  <2>6. GetFriendInfoFromDB(c).rows = rows
        BY DEF GetFriendInfoFromDB, Visits
  <2> QED BY <2>1, <2>5, <2>6
<1>2. CASE c.fn = "GetClusterDetailData"
  <2>1. Statement(c) = GetClusterDetailData(c)
        BY <1>2 DEF Statement, ClusterStatement, GroupFns, FriendFns, ClusterFns,
                    BelongFns, DetailFns
  <2> DEFINE his == Members(c.key)
             members == SetToSeq({r.usr : r \in his})
  <2>2. his \in SUBSET rows
        BY DEF Members, InTable
  <2>3. IsFiniteSet({r.usr : r \in his}) /\ {r.usr : r \in his} \subseteq Int
    <3>1. IsFiniteSet(his)
          BY <2>2, FS_Subset, Zenon
    <3>2. \A r \in his : r.usr \in Int
          BY <2>2 DEF AllRows
    <3> HIDE DEF his
    <3>3. IsFiniteSet({r.usr : r \in his})
          BY <3>1, ImageFinite, Zenon
    <3> QED BY <3>2, <3>3
  <2>4. members \in Seq(Int)
        BY <2>3, SeqOfSet
  <2> HIDE DEF members
  <2>5. CASE c.val = 0
        BY <2>1, <2>5 DEF GetClusterDetailData, Asks, Reads
  <2>6. CASE c.val # 0
    <3>1. GetClusterDetailData(c).more \in Seq(Asked)
          BY <2>4, <2>6, MemberCalls DEF GetClusterDetailData, Visits, members
    <3>2. GetClusterDetailData(c).rows = rows
          BY <2>6 DEF GetClusterDetailData, Visits
    <3> QED BY <2>1, <3>1, <3>2
  <2> QED BY <2>5, <2>6
<1> QED BY <1>1, <1>2 DEF Visitors

\* What any statement does.
LEMMA StatementDoes ==
    ASSUME NEW c \in KCalls, c.fn \notin {"GetClusterId", "GetTypeName"},
           rows \subseteq AllRows, IsFiniteSet(rows)
    PROVE  /\ Statement(c).rows \subseteq rows \cup {Row(TableName(c), c)}
           /\ \A r \in rows : IsAccount(r) => r \in Statement(c).rows
           /\ Statement(c).more \in Seq(Asked)
           /\ c.fn \notin Visitors => Statement(c).more = <<>>
<1>1. CASE Reading(c)
      BY <1>1 DEF Reading
<1>2. CASE Adding(c)
      BY <1>2 DEF Adding
<1>3. CASE Deleting(c)
      BY <1>3 DEF Deleting
<1>4. CASE c.fn \in Visitors
      BY <1>4, CallsMore
<1>5. c.fn \in KnownFns
      BY DEF KCalls
<1>6. Reading(c) \/ Adding(c) \/ Deleting(c) \/ c.fn \in Visitors
      BY <1>5, UserReads, FriendReads, ClusterReads, UserAdds, FriendAdds, ClusterAdds,
         UserDeletes, FriendDeletes, ClusterDeletes
         DEF KnownFns, Functions, LoginFns, InfoFns, GroupFns, FriendFns, StatusFns,
             ClusterFns, BelongFns, DetailFns, Visitors
<1> QED BY <1>1, <1>2, <1>3, <1>4, <1>6

\* The rows stay rows of known tables, and are finite in number.
LEMMA RowsKnown ==
    ASSUME NEW c \in KCalls, c.fn \notin {"GetClusterId", "GetTypeName"},
           TableName(c) # NoTable, rows \subseteq AllRows, IsFiniteSet(rows)
    PROVE  Statement(c).rows \subseteq AllRows /\ IsFiniteSet(Statement(c).rows)
<1>1. TableName(c) \in ShardTables
      BY TableKnown
<1>2. Row(TableName(c), c) \in AllRows
      BY <1>1 DEF Row, AllRows, KCalls
<1>3. Statement(c).rows \in SUBSET (rows \cup {Row(TableName(c), c)})
      BY StatementDoes
<1>4. IsFiniteSet(rows \cup {Row(TableName(c), c)})
      BY FS_AddElement
<1> QED BY <1>2, <1>3, <1>4, FS_Subset

-----------------------------------------------------------------------------
(* Connections. *)

\* What the proof needs to know of the values.
Types ==
    /\ rows \subseteq AllRows /\ IsFiniteSet(rows)
    /\ scene \in Scenes
    /\ top \in [Workers -> KCalls \cup {Idle}]
    /\ todo \in [Workers -> Seq(KCalls)]
    /\ at \in [Workers -> {"GetConn", "mysql_query"}]
    /\ mine \in [Workers -> SUBSET Conns]
    /\ inner \in [Workers -> SUBSET Conns]

\* A worker that keeps a connection is in a function that visits rows, and everything
\* it has to do is a call of the asked functions, which never keep one.  A try of
\* GetClusterId is the first of three calls.
Order(w) ==
    /\ top[w] = Idle => mine[w] = {} /\ at[w] = "GetConn"
    /\ top[w] # Idle => todo[w] # <<>>
    /\ at[w] = "GetConn" => inner[w] = {}
    /\ at[w] = "mysql_query" => TableName(Head(todo[w])) # NoTable
    /\ mine[w] # {} => /\ top[w].fn \in Visitors
                       /\ \A i \in 1..Len(todo[w]) : todo[w][i].fn \in AskedFns
    /\ \A i \in 1..Len(todo[w]) : todo[w][i].fn \in Visitors => top[w].fn \in Visitors
    /\ \A i \in 1..Len(todo[w]) :
          todo[w][i].fn = "GetClusterId" => i = 1 /\ Len(todo[w]) = 3
    /\ mine[w] \cap inner[w] = {}

ConnInv == Types /\ (\A w \in Workers : Order(w)) /\ ConnAccounted

\* Nothing of v changes.
Stays(v) ==
    /\ top'[v] = top[v] /\ todo'[v] = todo[v] /\ at'[v] = at[v]
    /\ mine'[v] = mine[v] /\ inner'[v] = inner[v]

LEMMA OrderStays ==
    ASSUME NEW v \in Workers, Order(v), Stays(v)
    PROVE  Order(v)'
BY DEF Order, Stays, TableName, GetLoginTableName, GetUsrInfoTableName, GetGroupTableName,
       GetGroupDetailTableName, GetLoginTmpTableName, GetBelongToClusterTableName,
       GetClusterTableName, GetClusterDetailTableName, ClusterType

\* A worker gives back R, loses L and obtains N.
LEMMA AccountStep ==
    ASSUME ConnAccounted, NEW w \in Workers, NEW R, NEW L, NEW N,
           R \subseteq Holds(w), L \subseteq Holds(w), R \cap L = {}, N \cap used = {},
           used' = (used \ R) \cup N, leaked' = leaked \cup L,
           mine'[w] \cup inner'[w] = (Holds(w) \ (R \cup L)) \cup N,
           \A v \in Workers \ {w} : mine'[v] = mine[v] /\ inner'[v] = inner[v]
    PROVE  ConnAccounted'
<1>1. Holds(w)' = (Holds(w) \ (R \cup L)) \cup N
      BY DEF Holds
<1>2. \A v \in Workers \ {w} : Holds(v)' = Holds(v)
      BY DEF Holds
<1>3. used = leaked \cup UNION {Holds(v) : v \in Workers}
      BY DEF ConnAccounted
<1>4. \A v \in Workers : Holds(v) \subseteq used /\ Holds(v) \cap leaked = {}
      BY <1>3 DEF ConnAccounted
<1>5. \A v \in Workers \ {w} : Holds(v) \cap Holds(w) = {}
      BY DEF ConnAccounted
<1>6. \A k : k \in used' <=> k \in leaked' \/ \E v \in Workers : k \in Holds(v)'
  <2> TAKE k
  <2>1. k \in used <=> k \in leaked \/ k \in Holds(w) \/ \E v \in Workers \ {w} : k \in Holds(v)
        BY <1>3
  <2>2. (\E v \in Workers : k \in Holds(v)') <=>
            k \in Holds(w)' \/ \E v \in Workers \ {w} : k \in Holds(v)
        BY <1>2
  <2>3. k \in Holds(w) => k \notin leaked /\ ~\E v \in Workers \ {w} : k \in Holds(v)
        BY <1>4, <1>5
  <2>4. k \in N => k \notin leaked /\ k \notin Holds(w)
        BY <1>3, <1>4
  <2> HIDE DEF Holds
  <2> QED BY <1>1, <2>1, <2>2, <2>3, <2>4
<1>7. used' = leaked' \cup UNION {Holds(v)' : v \in Workers}
      BY <1>6
<1>8. \A v \in Workers : Holds(v)' \cap leaked' = {}
  <2> SUFFICES ASSUME NEW v \in Workers PROVE Holds(v)' \cap leaked' = {}
      OBVIOUS
  <2>1. CASE v = w
        BY <1>1, <1>3, <1>4, <2>1
  <2>2. CASE v # w
        BY <1>2, <1>4, <1>5, <2>2
  <2> QED BY <2>1, <2>2
<1>9. \A v \in Workers : \A u \in Workers \ {v} : Holds(u)' \cap Holds(v)' = {}
  <2> SUFFICES ASSUME NEW v \in Workers, NEW u \in Workers \ {v}
               PROVE  Holds(u)' \cap Holds(v)' = {}
      OBVIOUS
  <2>1. CASE v = w
        BY <1>1, <1>2, <1>4, <1>5, <2>1
  <2>2. CASE u = w
        BY <1>1, <1>2, <1>4, <1>5, <2>2
  <2>3. CASE v # w /\ u # w
        BY <1>2, <2>3 DEF ConnAccounted
  <2> QED BY <2>1, <2>2, <2>3
<1> QED BY <1>7, <1>8, <1>9 DEF ConnAccounted

\* How a statement that is over leaves the worker: with the rest of its call, or idle.
LEMMA AnsweredLeaves ==
    ASSUME ConnInv, NEW w \in Workers, NEW a, NEW gone, NEW lost, top[w] # Idle,
           Answered(w, a, gone, lost)
    PROVE  /\ inner' = [inner EXCEPT ![w] = {}]
           /\ at' = [at EXCEPT ![w] = "GetConn"]
           /\ \/ /\ Tail(todo[w]) # <<>>
                 /\ todo' = [todo EXCEPT ![w] = Tail(todo[w])]
                 /\ top' = top /\ mine' = mine
                 /\ used' = used \ (gone \cup lost)
              \/ /\ todo' = [todo EXCEPT ![w] = <<>>]
                 /\ top' = [top EXCEPT ![w] = Idle]
                 /\ mine' = [mine EXCEPT ![w] = {}]
                 /\ used' = used \ (gone \cup lost \cup mine[w])
<1> DEFINE c == Head(todo[w])
<1>1. todo[w] # <<>> /\ todo[w] \in Seq(KCalls)
      BY DEF ConnInv, Order, Types
<1>2. c = todo[w][1] /\ 1 \in 1..Len(todo[w])
      BY <1>1
<1>3. c.fn = top[w].fn => mine[w] = {}
      BY <1>2 DEF ConnInv, Order, AskedFns, Visitors
<1> QED BY <1>3 DEF Answered, Finish, Continue, Settle, Outer

\* The worker is in order afterwards, and so are the values.
LEMMA AnsweredOrder ==
    ASSUME ConnInv, NEW w \in Workers, NEW a, NEW gone, NEW lost, top[w] # Idle,
           Answered(w, a, gone, lost)
    PROVE  /\ \A v \in Workers : Order(v)'
           /\ top' \in [Workers -> KCalls \cup {Idle}]
           /\ todo' \in [Workers -> Seq(KCalls)]
           /\ at' \in [Workers -> {"GetConn", "mysql_query"}]
           /\ mine' \in [Workers -> SUBSET Conns]
           /\ inner' \in [Workers -> SUBSET Conns]
<1>0. Types /\ \A v \in Workers : Order(v)
      BY DEF ConnInv
<1>1. todo[w] # <<>> /\ todo[w] \in Seq(KCalls)
      BY <1>0 DEF Order, Types
<1> DEFINE rest == Tail(todo[w])
<1>2. /\ rest \in Seq(KCalls) /\ Len(rest) = Len(todo[w]) - 1
      /\ \A i \in 1..Len(rest) : rest[i] = todo[w][i+1] /\ i+1 \in 1..Len(todo[w])
      BY <1>1
<1> HIDE DEF rest
<1>3. inner' = [inner EXCEPT ![w] = {}] /\ at' = [at EXCEPT ![w] = "GetConn"]
      BY AnsweredLeaves
<1>4. \A v \in Workers \ {w} : Stays(v)
      BY <1>0, AnsweredLeaves DEF Stays, Types
<1>5. \A v \in Workers \ {w} : Order(v)'
      BY <1>0, <1>4, OrderStays
<1>6. inner'[w] = {} /\ at'[w] = "GetConn"
      BY <1>0, <1>3 DEF Types
<1>7. CASE /\ rest # <<>> /\ todo' = [todo EXCEPT ![w] = rest]
           /\ top' = top /\ mine' = mine
  <2>1. todo'[w] = rest /\ top'[w] = top[w] /\ mine'[w] = mine[w]
        BY <1>0, <1>7 DEF Types
  <2>2. Order(w)
        BY <1>0
  <2>3. \A i \in 1..Len(rest) : rest[i].fn # "GetClusterId"
        BY <1>1, <1>2, <2>2 DEF Order
  <2>4. Order(w)'
    <3>1. top'[w] # Idle
          BY <2>1
    <3>2. mine[w] # {} => /\ top[w].fn \in Visitors
                          /\ \A i \in 1..Len(rest) : rest[i].fn \in AskedFns
          BY <1>2, <2>2 DEF Order
    <3>3. \A i \in 1..Len(rest) : rest[i].fn \in Visitors => top[w].fn \in Visitors
          BY <1>2, <2>2 DEF Order
    <3> QED BY <1>6, <1>7, <2>1, <2>3, <3>1, <3>2, <3>3 DEF Order
  <2> QED BY <1>0, <1>2, <1>3, <1>5, <1>7, <2>4 DEF Types
<1>8. CASE /\ todo' = [todo EXCEPT ![w] = <<>>]
           /\ top' = [top EXCEPT ![w] = Idle]
           /\ mine' = [mine EXCEPT ![w] = {}]
  <2>1. todo'[w] = <<>> /\ top'[w] = Idle /\ mine'[w] = {}
        BY <1>0, <1>8 DEF Types
  <2>2. Order(w)'
        BY <1>6, <2>1 DEF Order
  <2> QED BY <1>0, <1>3, <1>5, <1>8, <2>2 DEF Types
<1> QED BY <1>7, <1>8, AnsweredLeaves DEF rest

\* All of the worker's connections that the statement had are given back, lost to
\* ReconnDatabase or leaked.
LEMMA AnsweredAccounts ==
    ASSUME ConnInv, NEW w \in Workers, NEW a, NEW gone, NEW lost, NEW L, top[w] # Idle,
           Answered(w, a, gone, lost), gone \cup lost \cup L = inner[w],
           L \cap (gone \cup lost) = {}, leaked' = leaked \cup L
    PROVE  ConnAccounted'
<1>0. Types /\ ConnAccounted /\ Order(w)
      BY DEF ConnInv
<1>1. /\ \A v \in Workers \ {w} : mine'[v] = mine[v] /\ inner'[v] = inner[v]
      /\ inner'[w] = {}
      BY <1>0, AnsweredLeaves DEF Types
<1>2. mine[w] \cap inner[w] = {}
      BY <1>0 DEF Order
<1>3. CASE mine' = mine /\ used' = used \ (gone \cup lost)
  <2> DEFINE R == gone \cup lost
  <2>1. R \subseteq Holds(w) /\ L \subseteq Holds(w) /\ R \cap L = {}
        BY DEF Holds
  <2>2. used' = (used \ R) \cup {} /\ {} \cap used = {}
        BY <1>3
  <2>3. mine'[w] \cup inner'[w] = (Holds(w) \ (R \cup L)) \cup {}
        BY <1>1, <1>2, <1>3 DEF Holds
  <2> HIDE DEF R
  <2> QED BY <1>0, <1>1, <2>1, <2>2, <2>3, AccountStep
<1>4. CASE mine' = [mine EXCEPT ![w] = {}] /\ used' = used \ (gone \cup lost \cup mine[w])
  <2> DEFINE R == gone \cup lost \cup mine[w]
  <2>1. R \subseteq Holds(w) /\ L \subseteq Holds(w) /\ R \cap L = {}
        BY <1>2 DEF Holds
  <2>2. used' = (used \ R) \cup {} /\ {} \cap used = {}
        BY <1>4
  <2>3. mine'[w] \cup inner'[w] = (Holds(w) \ (R \cup L)) \cup {}
        BY <1>0, <1>1, <1>2, <1>4 DEF Holds, Types
  <2> HIDE DEF R
  <2> QED BY <1>0, <1>1, <2>1, <2>2, <2>3, AccountStep
<1> QED BY <1>3, <1>4, AnsweredLeaves

\* Together.
LEMMA AnsweredKeeps ==
    ASSUME ConnInv, NEW w \in Workers, NEW a, NEW gone, NEW lost, NEW L, top[w] # Idle,
           Answered(w, a, gone, lost), gone \cup lost \cup L = inner[w],
           L \cap (gone \cup lost) = {}, leaked' = leaked \cup L,
           scene' = scene, rows' \subseteq AllRows, IsFiniteSet(rows')
    PROVE  ConnInv'
<1>1. ConnAccounted'
      BY AnsweredAccounts
<1>2. Types'
      BY AnsweredOrder DEF ConnInv, Types
<1>3. \A v \in Workers : Order(v)'
      BY AnsweredOrder
<1> QED BY <1>1, <1>2, <1>3 DEF ConnInv

-----------------------------------------------------------------------------
(* The steps. *)

LEMMA SceneCalls ==
    ASSUME Types, NEW c \in scene
    PROVE  c \in KCalls /\ c.fn \in Functions /\ c # Idle
<1>1. c.fn \in Functions /\ c \in Calls
      BY TablesAssumption, HandlersAssumption DEF Types
<1>2. c \in KCalls
      BY <1>1 DEF Calls, KCalls, KnownFns
<1>3. Idle.fn \notin Functions
      BY DEF Idle, Call, Functions, LoginFns, InfoFns, GroupFns, FriendFns, StatusFns,
             ClusterFns, BelongFns, DetailFns
<1> QED BY <1>1, <1>2, <1>3

LEMMA PlanShape ==
    ASSUME NEW c \in KCalls, c.fn \in Functions
    PROVE  /\ Plan(c) \in Seq(KCalls) /\ Plan(c) # <<>>
           /\ \A i \in 1..Len(Plan(c)) :
                 /\ Plan(c)[i].fn \in Visitors => c.fn \in Visitors
                 /\ Plan(c)[i].fn = "GetClusterId" => i = 1 /\ Len(Plan(c)) = 3
<1>0. c.usr \in Int /\ c.key \in Int /\ c.val \in Int /\ Hundred \in Nat
      BY TablesAssumption DEF KCalls
<1>1. CASE c.fn \in Scans
  <2> DEFINE S(i) == [c EXCEPT !.usr = i * Hundred]
  <2>1. Plan(c) = [i \in 1..2 |-> S(i)]
        BY <1>1 DEF Plan, Scans
  <2>2. \A i \in 1..2 : S(i) \in KCalls /\ S(i).fn = c.fn
        BY <1>0 DEF KCalls
  <2> HIDE DEF S
  <2>3. [i \in 1..2 |-> S(i)] \in Seq(KCalls)
        BY <2>2
  <2>4. Len([i \in 1..2 |-> S(i)]) = 2
        OBVIOUS
  <2> QED BY <1>1, <2>1, <2>2, <2>3, <2>4 DEF Scans, Visitors
<1>2. CASE c.fn = "InsertClusterInfo"
  <2> DEFINE d == Call("GetClusterId", 0)
             e == [Call("GetTypeName", 0) EXCEPT !.key = c.val]
             f == [c EXCEPT !.key = 0]
  <2>1. Plan(c) = <<d, e, f>>
        BY <1>2 DEF Plan, Scans
  <2>2. d \in KCalls /\ e \in KCalls /\ d.fn = "GetClusterId" /\ e.fn = "GetTypeName"
        BY <1>0 DEF Call, KCalls, KnownFns, Functions
  <2>3. f \in KCalls /\ f.fn = c.fn
        BY DEF KCalls
  <2> HIDE DEF d, e, f
  <2> QED BY <1>2, <2>1, <2>2, <2>3 DEF Visitors
<1>3. CASE c.fn = "InsertClusterMember"
  <2> DEFINE d == Call("GetNickname", c.usr)
  <2>1. Plan(c) = <<d, c>>
        BY <1>3 DEF Plan, Scans
  <2>2. d \in KCalls /\ d.fn = "GetNickname"
        BY <1>0 DEF Call, KCalls, KnownFns, Functions, LoginFns
  <2> HIDE DEF d
  <2> QED BY <1>3, <2>1, <2>2 DEF Visitors
<1>4. CASE c.fn \notin Scans \cup {"InsertClusterInfo", "InsertClusterMember"}
  <2>1. Plan(c) = <<c>>
        BY <1>4 DEF Plan
  <2>2. c.fn # "GetClusterId"
        BY DEF Functions
  <2> QED BY <2>1, <2>2
<1> QED BY <1>1, <1>2, <1>3, <1>4

LEMMA BeginKeeps ==
    ASSUME ConnInv, NEW w \in Workers, NEW c \in scene, Begin(w, c)
    PROVE  ConnInv'
<1>0. Types /\ ConnAccounted /\ \A v \in Workers : Order(v)
      BY DEF ConnInv
<1>1. c \in KCalls /\ c.fn \in Functions /\ c # Idle
      BY <1>0, SceneCalls
<1> DEFINE p == Plan(c)
<1>2. /\ p \in Seq(KCalls) /\ p # <<>>
      /\ \A i \in 1..Len(p) : /\ p[i].fn \in Visitors => c.fn \in Visitors
                              /\ p[i].fn = "GetClusterId" => i = 1 /\ Len(p) = 3
      BY <1>1, PlanShape
<1>3. /\ top' = [top EXCEPT ![w] = c] /\ todo' = [todo EXCEPT ![w] = p]
      /\ at' = at /\ mine' = mine /\ inner' = inner /\ used' = used /\ leaked' = leaked
      /\ rows' = rows /\ scene' = scene /\ top[w] = Idle
      BY DEF Begin, poolVars
<1> HIDE DEF p
<1>4. Types'
      BY <1>0, <1>1, <1>2, <1>3 DEF Types
<1>5. Order(w)'
  <2>1. top'[w] = c /\ todo'[w] = p
        BY <1>0, <1>3 DEF Types
  <2>2. mine[w] = {} /\ at[w] = "GetConn" /\ inner[w] = {}
        BY <1>0, <1>3 DEF Order
  <2> QED BY <1>1, <1>2, <1>3, <2>1, <2>2 DEF Order
<1>6. \A v \in Workers \ {w} : Order(v)'
  <2>1. \A v \in Workers \ {w} : Stays(v)
        BY <1>0, <1>3 DEF Stays, Types
  <2> QED BY <1>0, <2>1, OrderStays
<1>7. ConnAccounted'
      BY <1>0, <1>3 DEF ConnAccounted, Holds
<1> QED BY <1>4, <1>5, <1>6, <1>7 DEF ConnInv

\* What the head of todo is.
LEMMA HeadKnown ==
    ASSUME ConnInv, NEW w \in Workers, top[w] # Idle
    PROVE  /\ todo[w] # <<>> /\ todo[w] \in Seq(KCalls)
           /\ Head(todo[w]) \in KCalls /\ Head(todo[w]) = todo[w][1]
           /\ 1 \in 1..Len(todo[w])
BY DEF ConnInv, Types, Order

LEMMA OutOfRangeKeeps ==
    ASSUME ConnInv, NEW w \in Workers, NEW c, Ready(w, "GetConn"),
           OutOfRange(w, c) \/ Refused(w, c)
    PROVE  ConnInv'
<1>1. PICK a : Answered(w, a, {}, {})
      BY DEF OutOfRange, Refused
<1>2. inner[w] = {} /\ top[w] # Idle
      BY DEF ConnInv, Order, Ready
<1>3. leaked' = leaked /\ scene' = scene /\ rows' = rows
      BY DEF OutOfRange, Refused
<1>4. rows' \subseteq AllRows /\ IsFiniteSet(rows')
      BY <1>3 DEF ConnInv, Types
<1> QED BY <1>1, <1>2, <1>3, <1>4, AnsweredKeeps

LEMMA ObtainsKeeps ==
    ASSUME ConnInv, NEW w \in Workers, NEW c \in Candidates(w), Ready(w, "GetConn"),
           Obtains(w, c)
    PROVE  ConnInv'
<1>0. Types /\ ConnAccounted /\ \A v \in Workers : Order(v)
      BY DEF ConnInv
<1>1. /\ todo[w] # <<>> /\ todo[w] \in Seq(KCalls) /\ Head(todo[w]) \in KCalls
      /\ Head(todo[w]) = todo[w][1] /\ 1 \in 1..Len(todo[w])
      BY HeadKnown DEF Ready
<1>2. c \in KCalls /\ c.fn = Head(todo[w]).fn
  <2>1. CASE Head(todo[w]).fn = "GetClusterId"
    <3>1. PICK n \in GenerateClusterNum : c = [Head(todo[w]) EXCEPT !.key = n]
          BY <2>1 DEF Candidates
    <3>2. n \in Int
          BY TablesAssumption DEF GenerateClusterNum
    <3> QED BY <1>1, <3>1, <3>2 DEF KCalls
  <2>2. CASE Head(todo[w]).fn # "GetClusterId"
        BY <1>1, <2>2 DEF Candidates
  <2> QED BY <2>1, <2>2
<1>3. PICK k \in Free(TableName(c)) :
          used' = used \cup {k} /\ inner' = [inner EXCEPT ![w] = {k}]
      BY DEF Obtains
<1>4. k \in Conns /\ k \notin used
  <2>1. TableName(c) \in TableNames
    <3>1. CASE c.fn = "GetTypeName"
          BY <3>1 DEF TableName, TableNames, LoginFns, InfoFns, GroupFns, FriendFns,
                      StatusFns, ClusterFns, BelongFns, DetailFns
    <3>2. CASE c.fn # "GetTypeName"
          BY <1>2, <3>2, TableKnown DEF ShardTables, Obtains
    <3> QED BY <3>1, <3>2
  <2> QED BY <1>3, <2>1 DEF Free, Conns
<1> DEFINE q == <<c>> \o Tail(todo[w])
<1>5. /\ at' = [at EXCEPT ![w] = "mysql_query"] /\ todo' = [todo EXCEPT ![w] = q]
      /\ top' = top /\ mine' = mine /\ leaked' = leaked /\ rows' = rows /\ scene' = scene
      /\ TableName(c) # NoTable
      BY DEF Obtains
<1>6. /\ q \in Seq(KCalls) /\ q # <<>> /\ Head(q) = c /\ Len(q) = Len(todo[w])
      /\ \A i \in 1..Len(q) : q[i].fn = todo[w][i].fn
  <2> DEFINE rest == Tail(todo[w])
  <2>1. /\ rest \in Seq(KCalls) /\ Len(rest) = Len(todo[w]) - 1
        /\ \A i \in 1..Len(rest) : rest[i] = todo[w][i+1]
        BY <1>1
  <2> HIDE DEF rest
  <2>2. /\ <<c>> \o rest \in Seq(KCalls) /\ Len(<<c>> \o rest) = Len(rest) + 1
        /\ (<<c>> \o rest)[1] = c
        /\ \A i \in 2..Len(rest)+1 : (<<c>> \o rest)[i] = rest[i-1]
        BY <1>2, <2>1
  <2>3. q = <<c>> \o rest
        BY DEF rest
  <2> HIDE DEF q
  <2>4. \A i \in 1..Len(q) : q[i].fn = todo[w][i].fn
    <3> TAKE i \in 1..Len(q)
    <3>1. CASE i = 1
          BY <1>1, <1>2, <2>2, <2>3, <3>1
    <3>2. CASE i # 1
      <4>1. i \in 2..Len(rest)+1 /\ i-1 \in 1..Len(rest)
            BY <2>1, <2>2, <2>3, <3>2
      <4>2. q[i] = rest[i-1] /\ rest[i-1] = todo[w][(i-1)+1]
            BY <2>1, <2>2, <2>3, <4>1
      <4> QED BY <4>1, <4>2
    <3> QED BY <3>1, <3>2
  <2> QED BY <1>1, <2>1, <2>2, <2>3, <2>4
<1> HIDE DEF q
<1>7. inner[w] = {} /\ top[w] # Idle
      BY <1>0 DEF Order, Ready
<1>8. Types'
      BY <1>0, <1>3, <1>4, <1>5, <1>6 DEF Types
<1>9. ConnAccounted'
  <2> DEFINE R == {}
             N == {k}
  <2>1. /\ used' = (used \ R) \cup N /\ N \cap used = {} /\ leaked' = leaked \cup R
        /\ R \subseteq Holds(w) /\ R \cap R = {}
        BY <1>3, <1>4, <1>5
  <2>2. /\ mine'[w] \cup inner'[w] = (Holds(w) \ (R \cup R)) \cup N
        /\ \A v \in Workers \ {w} : mine'[v] = mine[v] /\ inner'[v] = inner[v]
        BY <1>0, <1>3, <1>5, <1>7 DEF Holds, Types
  <2> HIDE DEF R, N
  <2> QED BY <1>0, <2>1, <2>2, AccountStep
<1>10. mine[w] \cap {k} = {}
      BY <1>0, <1>4 DEF ConnAccounted, Holds
<1>11. Order(w)'
  <2>1. /\ todo'[w] = q /\ at'[w] = "mysql_query" /\ inner'[w] = {k}
        BY <1>0, <1>3, <1>5 DEF Types
  <2> QED BY <1>0, <1>5, <1>6, <1>7, <1>10, <2>1 DEF Order
<1>12. \A v \in Workers \ {w} : Order(v)'
  <2>1. \A v \in Workers \ {w} : Stays(v)
        BY <1>0, <1>3, <1>5 DEF Stays, Types
  <2> QED BY <1>0, <2>1, OrderStays
<1> QED BY <1>8, <1>9, <1>11, <1>12 DEF ConnInv

\* The table of a statement that is under way.
LEMMA StatementKnown ==
    ASSUME ConnInv, NEW w \in Workers, Ready(w, "mysql_query"),
           Head(todo[w]).fn \notin {"GetClusterId", "GetTypeName"}
    PROVE  /\ Statement(Head(todo[w])).rows \subseteq AllRows
           /\ IsFiniteSet(Statement(Head(todo[w])).rows)
           /\ Statement(Head(todo[w])).more \in Seq(Asked)
           /\ Head(todo[w]).fn \notin Visitors => Statement(Head(todo[w])).more = <<>>
<1>1. Head(todo[w]) \in KCalls
      BY HeadKnown DEF Ready
<1>2. TableName(Head(todo[w])) # NoTable
      BY DEF ConnInv, Order, Ready
<1>3. rows \subseteq AllRows /\ IsFiniteSet(rows)
      BY DEF ConnInv, Types
<1> QED BY <1>1, <1>2, <1>3, RowsKnown, StatementDoes

\* The second select of GetClusterDetailData.
LEMMA SecondSelectKeeps ==
    ASSUME ConnInv, NEW w \in Workers, Ready(w, "mysql_query"),
           Head(todo[w]).fn = "GetClusterDetailData",
           todo' = [todo EXCEPT ![w] = <<[Head(todo[w]) EXCEPT !.val = 1]>>],
           rows' \subseteq AllRows, IsFiniteSet(rows'),
           UNCHANGED <<scene, used, leaked, top, at, mine, inner>>
    PROVE  ConnInv'
<1>0. Types /\ ConnAccounted /\ \A v \in Workers : Order(v)
      BY DEF ConnInv
<1> DEFINE c == Head(todo[w])
           d == [c EXCEPT !.val = 1]
<1>1. c \in KCalls /\ c = todo[w][1] /\ 1 \in 1..Len(todo[w])
      BY HeadKnown DEF Ready
<1>2. d \in KCalls /\ d.fn = "GetClusterDetailData" /\ d.key = c.key
      BY <1>1 DEF KCalls
<1>3. TableName(d) = TableName(c) /\ TableName(c) # NoTable
  <2>1. /\ TableName(c) = GetClusterDetailTableName(c.key)
        /\ TableName(d) = GetClusterDetailTableName(d.key)
        BY <1>2 DEF TableName, LoginFns, InfoFns, GroupFns, FriendFns, StatusFns,
                    ClusterFns, BelongFns, DetailFns
  <2> QED BY <1>0, <1>2, <2>1 DEF Order, Ready
<1>4. todo' = [todo EXCEPT ![w] = <<d>>]
      OBVIOUS
<1>5. mine[w] = {} /\ top[w].fn \in Visitors
      BY <1>0, <1>1 DEF Order, AskedFns, Visitors
<1> HIDE DEF d
<1> DEFINE q == <<d>>
<1>6. q \in Seq(KCalls) /\ Head(q) = d /\ Len(q) = 1 /\ q[1] = d /\ q # <<>>
      BY <1>2
<1>7. todo' = [todo EXCEPT ![w] = q]
      BY <1>4
<1> HIDE DEF q
<1>8. Types'
      BY <1>0, <1>6, <1>7 DEF Types
<1>9. Order(w)'
  <2>1. todo'[w] = q
        BY <1>0, <1>7 DEF Types
  <2>2. Order(w) /\ at[w] = "mysql_query" /\ top[w] # Idle
        BY <1>0 DEF Ready
  <2>3. \A i \in 1..Len(q) : q[i] = d
        BY <1>6
  <2> QED BY <1>2, <1>3, <1>5, <1>6, <2>1, <2>2, <2>3 DEF Order
<1>10. \A v \in Workers \ {w} : Order(v)'
  <2>1. \A v \in Workers \ {w} : Stays(v)
        BY <1>0, <1>7 DEF Stays, Types
  <2> QED BY <1>0, <2>1, OrderStays
<1>11. ConnAccounted'
      BY <1>0 DEF ConnAccounted, Holds
<1> QED BY <1>8, <1>9, <1>10, <1>11 DEF ConnInv

\* The connection is kept for the calls that follow.
LEMMA VisitKeeps ==
    ASSUME ConnInv, NEW w \in Workers, Ready(w, "mysql_query"),
           Head(todo[w]).fn \in Visitors, NEW more \in Seq(Asked), more # <<>>,
           todo' = [todo EXCEPT ![w] = more], mine' = [mine EXCEPT ![w] = inner[w]],
           inner' = [inner EXCEPT ![w] = {}], at' = [at EXCEPT ![w] = "GetConn"],
           rows' \subseteq AllRows, IsFiniteSet(rows'),
           UNCHANGED <<scene, used, leaked, top>>
    PROVE  ConnInv'
<1>0. Types /\ ConnAccounted /\ \A v \in Workers : Order(v)
      BY DEF ConnInv
<1>1. Head(todo[w]) = todo[w][1] /\ 1 \in 1..Len(todo[w])
      BY HeadKnown DEF Ready
<1>2. mine[w] = {} /\ top[w].fn \in Visitors /\ top[w] # Idle
      BY <1>0, <1>1 DEF Order, AskedFns, Visitors, Ready
<1>3. /\ mine'[w] = inner[w] /\ inner'[w] = {} /\ at'[w] = "GetConn" /\ todo'[w] = more
      /\ top'[w] = top[w]
      BY <1>0 DEF Types
<1>4. /\ more \in Seq(KCalls)
      /\ \A i \in 1..Len(more) : more[i].fn \in AskedFns
  <2>1. Asked \subseteq KCalls
        BY DEF Asked, KCalls, AskedFns, KnownFns, Functions, LoginFns, InfoFns, StatusFns
  <2>2. \A i \in 1..Len(more) : more[i] \in Asked
        OBVIOUS
  <2>3. more \in Seq(KCalls)
        BY <2>1, <2>2
  <2> QED BY <2>2, <2>3 DEF Asked
<1>5. Types'
      BY <1>0, <1>4 DEF Types
<1>6. Order(w)'
      BY <1>2, <1>3, <1>4 DEF Order, AskedFns
<1>7. \A v \in Workers \ {w} : Order(v)'
  <2>1. \A v \in Workers \ {w} : Stays(v)
        BY <1>0 DEF Stays, Types
  <2> QED BY <1>0, <2>1, OrderStays
<1>8. ConnAccounted'
  <2>1. \A v \in Workers : Holds(v)' = Holds(v)
        BY <1>0, <1>2, <1>3 DEF Holds, Types
  <2> HIDE DEF Holds
  <2> QED BY <1>0, <2>1 DEF ConnAccounted
<1> QED BY <1>5, <1>6, <1>7, <1>8 DEF ConnInv

LEMMA ExecutesKeeps ==
    ASSUME ConnInv, NEW w \in Workers, Executes(w)
    PROVE  ConnInv'
<1> DEFINE c == Head(todo[w])
           s == Statement(c)
<1>1. /\ Ready(w, "mysql_query") /\ c.fn \notin {"GetClusterId", "GetTypeName"}
      /\ rows' = s.rows /\ leaked' = leaked /\ scene' = scene /\ top[w] # Idle
      BY DEF Executes, Ready
<1>2. /\ rows' \subseteq AllRows /\ IsFiniteSet(rows') /\ s.more \in Seq(Asked)
      /\ c.fn \notin Visitors => s.more = <<>>
      BY <1>1, StatementKnown
<1>3. PICK a \in s.ans :
        \/ /\ c.fn = "GetClusterDetailData"
           /\ todo' = [todo EXCEPT ![w] = <<[c EXCEPT !.val = 1]>>]
           /\ UNCHANGED <<used, top, at, mine, inner>>
        \/ /\ s.more # <<>>
           /\ todo' = [todo EXCEPT ![w] = s.more]
           /\ mine' = [mine EXCEPT ![w] = inner[w]]
           /\ inner' = [inner EXCEPT ![w] = {}]
           /\ at' = [at EXCEPT ![w] = "GetConn"]
           /\ UNCHANGED <<used, top>>
        \/ Answered(w, a, inner[w], {})
  <2> HIDE DEF s
  <2>1. PICK a \in s.ans :
             IF c.fn = "GetClusterDetailData" /\ c.val = 0 /\ a = "TRUE"
             THEN /\ todo' = [todo EXCEPT ![w] = <<[c EXCEPT !.val = 1]>>]
                  /\ UNCHANGED <<used, down, top, at, mine, inner, ans>>
             ELSE IF s.more # <<>>
             THEN /\ todo' = [todo EXCEPT ![w] = s.more]
                  /\ mine' = [mine EXCEPT ![w] = inner[w]]
                  /\ inner' = [inner EXCEPT ![w] = {}]
                  /\ at' = [at EXCEPT ![w] = "GetConn"]
                  /\ UNCHANGED <<used, down, top, ans>>
             ELSE Answered(w, a, inner[w], {})
        BY Zenon DEF Executes, s
  <2> QED BY <2>1
<1> HIDE DEF s
<1>4. CASE /\ c.fn = "GetClusterDetailData"
           /\ todo' = [todo EXCEPT ![w] = <<[c EXCEPT !.val = 1]>>]
           /\ UNCHANGED <<used, top, at, mine, inner>>
      BY <1>1, <1>2, <1>4, SecondSelectKeeps
<1>5. CASE /\ s.more # <<>>
           /\ todo' = [todo EXCEPT ![w] = s.more]
           /\ mine' = [mine EXCEPT ![w] = inner[w]]
           /\ inner' = [inner EXCEPT ![w] = {}]
           /\ at' = [at EXCEPT ![w] = "GetConn"]
           /\ UNCHANGED <<used, top>>
      BY <1>1, <1>2, <1>5, VisitKeeps
<1>6. CASE Answered(w, a, inner[w], {})
  <2> DEFINE gone == inner[w]
             none == {}
  <2>1. gone \cup none \cup none = inner[w] /\ none \cap (gone \cup none) = {}
        /\ leaked' = leaked \cup none /\ Answered(w, a, gone, none)
        BY <1>1, <1>6
  <2> HIDE DEF gone, none
  <2> QED BY <1>1, <1>2, <2>1, AnsweredKeeps
<1> QED BY <1>3, <1>4, <1>5, <1>6

LEMMA GetClusterIdKeeps ==
    ASSUME ConnInv, NEW w \in Workers, GetClusterId(w)
    PROVE  ConnInv'
<1>0. Types /\ ConnAccounted /\ \A v \in Workers : Order(v)
      BY DEF ConnInv
<1> DEFINE c == Head(todo[w])
           p == todo[w]
<1>1. /\ p \in Seq(KCalls) /\ c \in KCalls /\ c = p[1] /\ 1 \in 1..Len(p) /\ p # <<>>
      /\ c.fn = "GetClusterId" /\ top[w] # Idle /\ at[w] = "mysql_query"
      BY HeadKnown DEF GetClusterId, Ready
<1>2. Len(p) = 3 /\ mine[w] = {}
      BY <1>0, <1>1 DEF Order, AskedFns
<1> DEFINE e == [p[3] EXCEPT !.key = c.key]
           q == IF Cluster(c.key) # {} THEN p ELSE <<p[2], e>>
<1>3. /\ todo' = [todo EXCEPT ![w] = q] /\ inner' = [inner EXCEPT ![w] = {}]
      /\ at' = [at EXCEPT ![w] = "GetConn"] /\ used' = used \ inner[w]
      /\ UNCHANGED <<rows, leaked, scene, top, mine>>
      BY <1>0 DEF GetClusterId, Settle, Types
<1>4. p[2] \in KCalls /\ p[3] \in KCalls
      BY <1>1, <1>2
<1>5. e \in KCalls /\ e.fn = p[3].fn
      BY <1>1, <1>4 DEF KCalls
<1> HIDE DEF e
<1>6. /\ q \in Seq(KCalls) /\ q # <<>>
      /\ \A i \in 1..Len(q) : /\ q[i].fn \in Visitors => top[w].fn \in Visitors
                              /\ q[i].fn = "GetClusterId" => i = 1 /\ Len(q) = 3
  <2>1. \A i \in 1..3 : /\ p[i].fn \in Visitors => top[w].fn \in Visitors
                        /\ p[i].fn = "GetClusterId" => i = 1
        BY <1>0, <1>2 DEF Order
  <2>2. CASE q = p
        BY <1>1, <1>2, <2>1, <2>2
  <2>3. CASE q = <<p[2], e>>
    <3> DEFINE b == p[2]
               r == <<b, e>>
    <3>1. b \in KCalls /\ b.fn = p[2].fn
          BY <1>4
    <3> HIDE DEF b
    <3>2. r \in Seq(KCalls) /\ Len(r) = 2 /\ r[1] = b /\ r[2] = e /\ r # <<>>
          BY <1>5, <3>1
    <3> HIDE DEF r
    <3>3. \A i \in 1..2 : r[i].fn = p[i+1].fn
          BY <1>5, <3>1, <3>2
    <3>4. q = r
          BY <2>3 DEF r, b
    <3> HIDE DEF q
    <3>5. ASSUME NEW i \in 1..2
          PROVE  /\ r[i].fn \in Visitors => top[w].fn \in Visitors
                 /\ r[i].fn # "GetClusterId"
      <4>1. i+1 \in 1..3 /\ i+1 # 1
            OBVIOUS
      <4> QED BY <2>1, <3>3, <4>1
    <3> QED BY <3>2, <3>4, <3>5
  <2> QED BY <2>2, <2>3
<1> HIDE DEF q
<1>7. Types'
      BY <1>0, <1>3, <1>6 DEF Types
<1>8. Order(w)'
  <2>1. todo'[w] = q /\ at'[w] = "GetConn" /\ inner'[w] = {}
        BY <1>0, <1>3 DEF Types
  <2> QED BY <1>1, <1>2, <1>3, <1>6, <2>1 DEF Order
<1>9. \A v \in Workers \ {w} : Order(v)'
  <2>1. \A v \in Workers \ {w} : Stays(v)
        BY <1>0, <1>3 DEF Stays, Types
  <2> QED BY <1>0, <2>1, OrderStays
<1>10. ConnAccounted'
  <2> DEFINE R == inner[w]
             none == {}
  <2>1. /\ used' = (used \ R) \cup none /\ none \cap used = {} /\ leaked' = leaked \cup none
        /\ R \subseteq Holds(w) /\ none \subseteq Holds(w) /\ R \cap none = {}
        BY <1>3 DEF Holds
  <2>2. /\ mine'[w] \cup inner'[w] = (Holds(w) \ (R \cup none)) \cup none
        /\ \A v \in Workers \ {w} : mine'[v] = mine[v] /\ inner'[v] = inner[v]
        BY <1>0, <1>2, <1>3 DEF Holds, Types
  <2> HIDE DEF R, none
  <2> QED BY <1>0, <2>1, <2>2, AccountStep
<1> QED BY <1>7, <1>8, <1>9, <1>10 DEF ConnInv

LEMMA GetTypeNameKeeps ==
    ASSUME ConnInv, NEW w \in Workers, GetTypeName(w)
    PROVE  ConnInv'
<1>0. Types /\ ConnAccounted /\ \A v \in Workers : Order(v)
      BY DEF ConnInv
<1> DEFINE c == Head(todo[w])
           p == todo[w]
<1>1. /\ p \in Seq(KCalls) /\ c \in KCalls /\ c = p[1] /\ 1 \in 1..Len(p) /\ p # <<>>
      /\ c.fn = "GetTypeName" /\ top[w] # Idle /\ at[w] = "mysql_query"
      /\ c.key \in DOMAIN Parent
      /\ UNCHANGED <<rows, leaked, scene>>
      BY HeadKnown DEF GetTypeName, Ready
<1>2. CASE Answered(w, "TRUE", inner[w], {})
  <2> DEFINE gone == inner[w]
             none == {}
  <2>1. /\ gone \cup none \cup none = inner[w] /\ none \cap (gone \cup none) = {}
        /\ leaked' = leaked \cup none /\ Answered(w, "TRUE", gone, none)
        BY <1>1, <1>2
  <2>2. rows' \subseteq AllRows /\ IsFiniteSet(rows')
        BY <1>0, <1>1 DEF Types
  <2> HIDE DEF gone, none
  <2> QED BY <1>1, <2>1, <2>2, AnsweredKeeps
<1> DEFINE d == [c EXCEPT !.key = Parent[c.key]]
           q == <<d>> \o Tail(p)
<1>3. CASE /\ todo' = [todo EXCEPT ![w] = q]
           /\ UNCHANGED <<used, top, at, mine, inner>>
  <2>1. d \in KCalls /\ d.fn = "GetTypeName"
    <3>1. Parent[c.key] \in Int
          BY <1>1, TablesAssumption
    <3> QED BY <1>1, <3>1 DEF KCalls
  <2> HIDE DEF d
  <2>2. /\ Tail(p) \in Seq(KCalls) /\ Len(Tail(p)) = Len(p) - 1
        /\ \A i \in 1..Len(Tail(p)) : Tail(p)[i] = p[i+1]
        BY <1>1
  <2>3. /\ q \in Seq(KCalls) /\ q # <<>> /\ Head(q) = d /\ Len(q) = Len(p) /\ q[1] = d
        /\ \A i \in 2..Len(p) : q[i] = Tail(p)[i-1]
        BY <1>1, <2>1, <2>2
  <2> HIDE DEF q
  <2>4. \A i \in 1..Len(q) : q[i].fn = p[i].fn
    <3> TAKE i \in 1..Len(q)
    <3>1. CASE i = 1
          BY <1>1, <2>1, <2>3, <3>1
    <3>2. CASE i # 1
      <4>1. i \in 2..Len(p) /\ i-1 \in 1..Len(Tail(p))
            BY <1>1, <2>2, <2>3, <3>2
      <4>2. q[i] = Tail(p)[i-1] /\ Tail(p)[i-1] = p[(i-1)+1]
            BY <2>2, <2>3, <4>1
      <4> QED BY <4>1, <4>2
    <3> QED BY <3>1, <3>2
  <2>5. TableName(d) # NoTable
        BY <2>1 DEF TableName, ClusterType, NoTable, LoginFns, InfoFns, GroupFns, FriendFns,
                    StatusFns, ClusterFns, BelongFns, DetailFns
  <2>6. todo'[w] = q
        BY <1>0, <1>3 DEF Types
  <2>7. Order(w)'
        BY <1>0, <1>1, <1>3, <2>3, <2>4, <2>5, <2>6 DEF Order
  <2>8. Types'
        BY <1>0, <1>1, <1>3, <2>3 DEF Types
  <2>9. \A v \in Workers \ {w} : Order(v)'
    <3>1. \A v \in Workers \ {w} : Stays(v)
          BY <1>0, <1>3 DEF Stays, Types
    <3> QED BY <1>0, <3>1, OrderStays
  <2>10. ConnAccounted'
        BY <1>0, <1>1, <1>3 DEF ConnAccounted, Holds
  <2> QED BY <2>7, <2>8, <2>9, <2>10 DEF ConnInv
<1>4. \/ Answered(w, "TRUE", inner[w], {})
      \/ /\ todo' = [todo EXCEPT ![w] = q]
         /\ UNCHANGED <<used, top, at, mine, inner>>
      BY <1>0 DEF GetTypeName, Types
<1> QED BY <1>2, <1>3, <1>4

LEMMA ServerLostKeeps ==
    ASSUME ConnInv, NEW w \in Workers, ServerLost(w)
    PROVE  ConnInv'
<1> DEFINE c == Head(todo[w])
           lost == inner[w]
           none == {}
<1>1. /\ Ready(w, "mysql_query") /\ top[w] # Idle /\ UNCHANGED <<leaked, scene>>
      /\ Answered(w, "DB_DISCONNECT", none, lost)
      /\ \/ rows' = rows
         \/ c.fn \notin {"GetClusterId", "GetTypeName"} /\ rows' = Statement(c).rows
      BY DEF ServerLost, Ready
<1>2. rows' \subseteq AllRows /\ IsFiniteSet(rows')
  <2>1. CASE rows' = rows
        BY <2>1 DEF ConnInv, Types
  <2>2. CASE c.fn \notin {"GetClusterId", "GetTypeName"} /\ rows' = Statement(c).rows
        BY <1>1, <2>2, StatementKnown
  <2> QED BY <1>1, <2>1, <2>2
<1>3. /\ none \cup lost \cup none = inner[w] /\ none \cap (none \cup lost) = {}
      /\ leaked' = leaked \cup none
      BY <1>1
<1> HIDE DEF lost, none
<1> QED BY <1>1, <1>2, <1>3, AnsweredKeeps

LEMMA OtherErrorKeeps ==
    ASSUME ConnInv, NEW w \in Workers, OtherError(w)
    PROVE  ConnInv'
<1>0. Types /\ ConnAccounted /\ \A v \in Workers : Order(v)
      BY DEF ConnInv
<1> DEFINE c == Head(todo[w])
           his == inner[w]
           none == {}
<1>1. /\ Ready(w, "mysql_query") /\ top[w] # Idle /\ UNCHANGED <<rows, scene>>
      /\ rows' \subseteq AllRows /\ IsFiniteSet(rows')
      BY <1>0 DEF OtherError, Ready, Types
<1>2. CASE UNCHANGED <<used, leaked, top, todo, at, mine, inner>>
  <2>1. \A v \in Workers : Stays(v)
        BY <1>2 DEF Stays
  <2>2. ConnAccounted'
        BY <1>0, <1>2 DEF ConnAccounted, Holds
  <2> QED BY <1>0, <1>1, <1>2, <2>1, <2>2, OrderStays DEF ConnInv, Types
<1>3. CASE Answered(w, "EXECUTE_SQL_ERROR", his, none) /\ leaked' = leaked
  <2>1. /\ his \cup none \cup none = inner[w] /\ none \cap (his \cup none) = {}
        /\ leaked' = leaked \cup none
        BY <1>3
  <2> HIDE DEF his, none
  <2> QED BY <1>1, <1>3, <2>1, AnsweredKeeps
<1>4. CASE /\ leaked' = leaked \cup his
           /\ inner' = [inner EXCEPT ![w] = {}]
           /\ at' = [at EXCEPT ![w] = "GetConn"]
           /\ UNCHANGED <<used, top, todo, mine>>
  <2>1. Types'
        BY <1>0, <1>1, <1>4 DEF Types
  <2>2. inner'[w] = {} /\ at'[w] = "GetConn"
        BY <1>0, <1>4 DEF Types
  <2>3. Order(w)'
        BY <1>0, <1>4, <2>2 DEF Order
  <2>4. \A v \in Workers \ {w} : Order(v)'
    <3>1. \A v \in Workers \ {w} : Stays(v)
          BY <1>0, <1>4 DEF Stays, Types
    <3> QED BY <1>0, <3>1, OrderStays
  <2>5. /\ used' = (used \ none) \cup none /\ none \cap used = {}
        /\ none \subseteq Holds(w) /\ his \subseteq Holds(w) /\ none \cap his = {}
        BY <1>4 DEF Holds
  <2>6. /\ mine'[w] \cup inner'[w] = (Holds(w) \ (none \cup his)) \cup none
        /\ \A v \in Workers \ {w} : mine'[v] = mine[v] /\ inner'[v] = inner[v]
        BY <1>0, <1>4, <2>2 DEF Holds, Types, Order
  <2> HIDE DEF his, none
  <2>7. ConnAccounted'
        BY <1>0, <1>4, <2>5, <2>6, AccountStep
  <2> QED BY <2>1, <2>3, <2>4, <2>7 DEF ConnInv
<1>5. CASE leaked' = leaked \cup his /\ Answered(w, Unforeseen(c), none, none)
  <2>1. none \cup none \cup his = inner[w] /\ his \cap (none \cup none) = {}
        OBVIOUS
  <2> HIDE DEF his, none
  <2> QED BY <1>1, <1>5, <2>1, AnsweredKeeps
<1>6. \/ UNCHANGED <<used, leaked, top, todo, at, mine, inner>>
      \/ Answered(w, "EXECUTE_SQL_ERROR", his, none) /\ leaked' = leaked
      \/ /\ leaked' = leaked \cup his
         /\ inner' = [inner EXCEPT ![w] = {}]
         /\ at' = [at EXCEPT ![w] = "GetConn"]
         /\ UNCHANGED <<used, top, todo, mine>>
      \/ leaked' = leaked \cup his /\ Answered(w, Unforeseen(c), none, none)
      BY DEF OtherError, poolVars
<1> QED BY <1>2, <1>3, <1>4, <1>5, <1>6

LEMMA PhotoOfNobodyKeeps ==
    ASSUME ConnInv, NEW w \in Workers, PhotoOfNobody(w)
    PROVE  ConnInv'
<1>0. Types
      BY DEF ConnInv
<1>1. /\ used' = {} /\ leaked' = {} /\ rows' = rows /\ scene' = scene
      /\ top' = [v \in Workers |-> Idle] /\ todo' = [v \in Workers |-> <<>>]
      /\ at' = [v \in Workers |-> "GetConn"] /\ mine' = [v \in Workers |-> {}]
      /\ inner' = [v \in Workers |-> {}]
      BY DEF PhotoOfNobody
<1>2. Types'
      BY <1>0, <1>1 DEF Types
<1>3. \A v \in Workers : Order(v)'
  <2> SUFFICES ASSUME NEW v \in Workers PROVE Order(v)'
      OBVIOUS
  <2>1. /\ top'[v] = Idle /\ todo'[v] = <<>> /\ at'[v] = "GetConn" /\ mine'[v] = {}
        /\ inner'[v] = {}
        BY <1>1
  <2> QED BY <2>1 DEF Order
<1>4. ConnAccounted'
      BY <1>1 DEF ConnAccounted, Holds
<1> QED BY <1>2, <1>3, <1>4 DEF ConnInv

\* Nothing of the workers changes.
LEMMA IdleKeeps ==
    ASSUME ConnInv, UNCHANGED <<rows, used, leaked, scene, top, todo, at, mine, inner>>
    PROVE  ConnInv'
<1>1. \A v \in Workers : Order(v) /\ Stays(v)
      BY DEF ConnInv, Stays
<1>2. \A v \in Workers : Order(v)'
      BY <1>1, OrderStays
<1>3. ConnAccounted'
      BY DEF ConnInv, ConnAccounted, Holds
<1>4. Types'
      BY DEF ConnInv, Types
<1> QED BY <1>2, <1>3, <1>4 DEF ConnInv

LEMMA InitConnInv == TablesInit => ConnInv
<1> SUFFICES ASSUME TablesInit PROVE ConnInv
    OBVIOUS
<1>1. Types
  <2>1. rows \subseteq AllRows /\ IsFiniteSet(rows)
        BY FS_EmptySet DEF TablesInit
  <2> QED BY <2>1 DEF TablesInit, Types
<1>2. \A w \in Workers : Order(w)
      BY DEF TablesInit, Order
<1>3. ConnAccounted
      BY DEF TablesInit, ConnAccounted, Holds
<1> QED BY <1>1, <1>2, <1>3 DEF ConnInv

LEMMA NextConnInv == ConnInv /\ [TablesNext]_tableVars => ConnInv'
<1> SUFFICES ASSUME ConnInv, [TablesNext]_tableVars PROVE ConnInv'
    OBVIOUS
<1>1. ASSUME NEW w \in Workers, NEW c \in scene, Begin(w, c) PROVE ConnInv'
      BY <1>1, BeginKeeps
<1>2. ASSUME NEW w \in Workers, GetConn(w) PROVE ConnInv'
  <2>1. Ready(w, "GetConn")
        BY <1>2 DEF GetConn
  <2>2. PICK c \in Candidates(w) : OutOfRange(w, c) \/ Obtains(w, c) \/ Refused(w, c)
        BY <1>2 DEF GetConn
  <2> QED BY <2>1, <2>2, OutOfRangeKeeps, ObtainsKeeps
<1>3. ASSUME NEW w \in Workers, Executes(w) PROVE ConnInv'
      BY <1>3, ExecutesKeeps
<1>4. ASSUME NEW w \in Workers, GetClusterId(w) PROVE ConnInv'
      BY <1>4, GetClusterIdKeeps
<1>5. ASSUME NEW w \in Workers, GetTypeName(w) PROVE ConnInv'
      BY <1>5, GetTypeNameKeeps
<1>6. ASSUME NEW w \in Workers, PhotoOfNobody(w) PROVE ConnInv'
      BY <1>6, PhotoOfNobodyKeeps
<1>7. ASSUME NEW w \in Workers, ServerLost(w) PROVE ConnInv'
      BY <1>7, ServerLostKeeps
<1>8. ASSUME NEW w \in Workers, OtherError(w) PROVE ConnInv'
      BY <1>8, OtherErrorKeeps
<1>9. ASSUME NEW k \in down, Reconnects(k) PROVE ConnInv'
      BY <1>9, IdleKeeps DEF Reconnects, callVars
<1>10. CASE UNCHANGED tableVars
      BY <1>10, IdleKeeps DEF tableVars, poolVars, callVars
<1> QED BY <1>1, <1>2, <1>3, <1>4, <1>5, <1>6, <1>7, <1>8, <1>9, <1>10
        DEF TablesNext, Runs

\* A connection that is not free is in the hands of exactly one call, is being
\* reconnected, or belongs to a statement that failed in an unforeseen way
\* (service_table_group_detail.c:285, service_table_cluster_detail.c:139): for every
\* number of workers and connections, and every set of calls.
THEOREM EveryConnAccounted == TablesSpec => []ConnAccounted
<1>1. ConnInv => ConnAccounted
      BY DEF ConnInv
<1> QED BY <1>1, InitConnInv, NextConnInv, PTL DEF TablesSpec

-----------------------------------------------------------------------------
(* What the statements answer. *)

LEMMA UserAnswers ==
    ASSUME NEW c, c.fn \in {"IsUsridAndPasswdCorrect", "JudgeAccountAndPasswd",
                            "IsTheSameUsrID", "InsertRegisInfoIntoDB", "IsTheSameAccount",
                            "IsUsrIDExistOrNot", "GetNickname", "GetMaxUsridInTheRange",
                            "GetSigAndPhotoIdx", "GetPhotoIdx", "InsertUsrInfo",
                            "IsEnoughClusterLevel", "InsertImageData", "IsUsrLogin",
                            "InsertLoginInfoIntoDB", "DeleteItemByUsrId"}
    PROVE  Statement(c).ans \subseteq Answers
<1>1. Statement(c) \in {IsUsridAndPasswdCorrect(c), JudgeAccountAndPasswd(c),
                      IsTheSameUsrID(c), InsertRegisInfoIntoDB(c), IsTheSameAccount(c),
                      IsUsrIDExistOrNot(c), GetNickname(c), GetMaxUsridInTheRange(c),
                      GetSigAndPhotoIdx(c), GetPhotoIdx(c), InsertUsrInfo(c),
                      IsEnoughClusterLevel(c), InsertImageData(c), IsUsrLogin(c),
                      InsertLoginInfoIntoDB(c), DeleteItemByUsrId(c)}
      BY DEF Statement, UserStatement, GroupFns, FriendFns, ClusterFns, BelongFns, DetailFns
<1>2. \A s \in {IsUsridAndPasswdCorrect(c), JudgeAccountAndPasswd(c), IsTheSameUsrID(c),
                InsertRegisInfoIntoDB(c), IsTheSameAccount(c), IsUsrIDExistOrNot(c),
                GetNickname(c), GetMaxUsridInTheRange(c), GetSigAndPhotoIdx(c),
                GetPhotoIdx(c), InsertUsrInfo(c), IsEnoughClusterLevel(c),
                InsertImageData(c), IsUsrLogin(c), InsertLoginInfoIntoDB(c),
                DeleteItemByUsrId(c)} : s.ans \subseteq Answers
      BY DEF Answers, Reads, Asks, Writes, Visits, IsUsridAndPasswdCorrect, JudgeAccountAndPasswd, IsTheSameUsrID,
             InsertRegisInfoIntoDB, IsTheSameAccount, IsUsrIDExistOrNot, GetNickname,
             GetMaxUsridInTheRange, GetSigAndPhotoIdx, GetPhotoIdx, InsertUsrInfo,
             IsEnoughClusterLevel, InsertImageData, IsUsrLogin, InsertLoginInfoIntoDB,
             DeleteItemByUsrId
<1> QED BY <1>1, <1>2

LEMMA FriendAnswers ==
    ASSUME NEW c, c.fn \in {"IsGroupIDExistOrNot", "FindMaxGroupID", "GetGroupNum",
                            "InsertFriGroupData", "DeleteFriGroupData",
                            "GetFriendGroupInfo", "IsFriendDataExistOrNot",
                            "InsertFriendData", "DeleteFriendData", "GetFriendInfoFromDB"}
    PROVE  Statement(c).ans \subseteq Answers
<1>1. Statement(c) \in {IsGroupIDExistOrNot(c), FindMaxGroupID(c), GetGroupNum(c),
                      InsertFriGroupData(c), DeleteFriGroupData(c), GetFriendGroupInfo(c),
                      IsFriendDataExistOrNot(c), InsertFriendData(c), DeleteFriendData(c),
                      GetFriendInfoFromDB(c)}
      BY DEF Statement, FriendStatement, GroupFns, FriendFns, ClusterFns, BelongFns, DetailFns
<1>2. \A s \in {IsGroupIDExistOrNot(c), FindMaxGroupID(c), GetGroupNum(c),
                InsertFriGroupData(c), DeleteFriGroupData(c), GetFriendGroupInfo(c),
                IsFriendDataExistOrNot(c), InsertFriendData(c), DeleteFriendData(c),
                GetFriendInfoFromDB(c)} : s.ans \subseteq Answers
      BY DEF Answers, Reads, Asks, Writes, Visits, IsGroupIDExistOrNot, FindMaxGroupID, GetGroupNum, InsertFriGroupData,
             DeleteFriGroupData, GetFriendGroupInfo, IsFriendDataExistOrNot,
             InsertFriendData, DeleteFriendData, GetFriendInfoFromDB
<1> QED BY <1>1, <1>2

LEMMA ClusterAnswers ==
    ASSUME NEW c, c.fn \in {"InsertClusterInfo", "GetClusterTypeName", "DeleteCluster",
                            "GetClusterData", "InsertOwnClusterInfo", "DelOwnClusterInfo",
                            "IsUsrHavePowerToDelCluster", "DeleteUsrsOwnCluster",
                            "InsertClusterMember", "DelClusterMember", "GetUsrsId",
                            "DelAllClusterMember", "GetClusterDetailData"}
    PROVE  Statement(c).ans \subseteq Answers
<1>1. Statement(c) \in {InsertClusterInfo(c), GetClusterTypeName(c), DeleteCluster(c),
                      GetClusterData(c), InsertOwnClusterInfo(c), DelOwnClusterInfo(c),
                      IsUsrHavePowerToDelCluster(c), DeleteUsrsOwnCluster(c),
                      InsertClusterMember(c), DelClusterMember(c), GetUsrsId(c),
                      DelAllClusterMember(c), GetClusterDetailData(c)}
      BY DEF Statement, ClusterStatement, GroupFns, FriendFns, ClusterFns, BelongFns, DetailFns
<1>2. \A s \in {InsertClusterInfo(c), GetClusterTypeName(c), DeleteCluster(c),
                GetClusterData(c), InsertOwnClusterInfo(c), DelOwnClusterInfo(c),
                IsUsrHavePowerToDelCluster(c), DeleteUsrsOwnCluster(c),
                InsertClusterMember(c), DelClusterMember(c), GetUsrsId(c),
                DelAllClusterMember(c), GetClusterDetailData(c)} : s.ans \subseteq Answers
      BY DEF Answers, Reads, Asks, Writes, Visits, InsertClusterInfo, GetClusterTypeName, DeleteCluster, GetClusterData,
             InsertOwnClusterInfo, DelOwnClusterInfo, IsUsrHavePowerToDelCluster,
             DeleteUsrsOwnCluster, InsertClusterMember, DelClusterMember, GetUsrsId,
             DelAllClusterMember, GetClusterDetailData
<1> QED BY <1>1, <1>2

\* What any statement answers.
LEMMA StatementAnswers ==
    ASSUME NEW c \in KCalls, c.fn \notin {"GetClusterId", "GetTypeName"}
    PROVE  Statement(c).ans \subseteq Answers
<1>1. c.fn \in KnownFns
      BY DEF KCalls
<1> QED BY <1>1, UserAnswers, FriendAnswers, ClusterAnswers
           DEF KnownFns, Functions, LoginFns, InfoFns, GroupFns, FriendFns, StatusFns,
               ClusterFns, BelongFns, DetailFns

-----------------------------------------------------------------------------
(* The types.  No connection is in use and being reconnected at once: what a   *)
(* statement loses was in use, and GetConn gives out what is neither.           *)

PoolsOk == leaked \subseteq Conns /\ down \subseteq Conns /\ down \cap used = {}

Asking ==
    /\ top \in [Workers -> scene \cup {Idle}]
    /\ \A w \in Workers : top[w] = Idle => todo[w] = <<>>
    /\ ans \in [Workers -> Answers]

Counts == /\ known \in [Workers -> BOOLEAN] /\ upset \in [Workers -> BOOLEAN]
          /\ ncalls \in 0..MaxCalls /\ nfaults \in 0..MaxFaults

TypeInv == PoolsOk /\ Asking /\ Counts

\* A call of w goes on or returns: its connections are given back or lost.
LEMMA AnsweredTypes ==
    ASSUME ConnInv, TypeInv, NEW w \in Workers, NEW a \in Answers, NEW gone, NEW lost,
           NEW L, top[w] # Idle, Answered(w, a, gone, lost), lost \subseteq inner[w],
           L \subseteq inner[w], leaked' = leaked \cup L, scene' = scene, Counts'
    PROVE  TypeInv'
<1> DEFINE rest == Tail(todo[w])
<1>1. inner[w] \subseteq used /\ inner[w] \subseteq Conns
      BY DEF ConnInv, Types, ConnAccounted, Holds
<1>2. PICK R : Settle(R, lost)
      BY DEF Answered
<1>3. PoolsOk'
      BY <1>1, <1>2 DEF TypeInv, PoolsOk, Settle
<1>4. \/ Continue(w, rest) /\ rest # <<>>
      \/ \E b \in Answers : Finish(w, b)
  <2>1. "TRUE" \in Answers /\ "FALSE" \in Answers
        BY DEF Answers
  <2> HIDE DEF rest
  <2>2. (IF top[w].fn \in Hidden THEN "FALSE" ELSE a) \in Answers
        BY <2>1
  <2> QED BY <2>1, <2>2 DEF Answered, rest
<1> HIDE DEF rest
<1>5. Asking'
  <2>1. CASE Continue(w, rest) /\ rest # <<>>
    <3>1. \A v \in Workers : top'[v] = Idle => todo'[v] = <<>>
          BY <2>1 DEF TypeInv, Asking, Continue, ConnInv, Types
    <3> QED BY <2>1, <3>1 DEF TypeInv, Asking, Continue
  <2>2. ASSUME NEW b \in Answers, Finish(w, b) PROVE Asking'
    <3>1. \A v \in Workers : top'[v] = Idle => todo'[v] = <<>>
          BY <2>2 DEF TypeInv, Asking, Finish, ConnInv, Types
    <3>2. top' \in [Workers -> scene \cup {Idle}] /\ ans' \in [Workers -> Answers]
          BY <2>2 DEF TypeInv, Asking, Finish
    <3> QED BY <3>1, <3>2 DEF Asking
  <2> QED BY <1>4, <2>1, <2>2
<1> QED BY <1>3, <1>5 DEF TypeInv

\* The steps in which a call goes on without an answer.
LEMMA WorksOn ==
    ASSUME ConnInv, TypeInv, NEW w \in Workers, NEW q, top[w] # Idle,
           todo' = [todo EXCEPT ![w] = q], UNCHANGED <<scene, top, ans>>
    PROVE  Asking'
<1>1. \A v \in Workers : top'[v] = Idle => todo'[v] = <<>>
      BY DEF TypeInv, Asking, ConnInv, Types
<1> QED BY <1>1 DEF TypeInv, Asking

LEMMA CountsStay ==
    ASSUME Counts, UNCHANGED <<known, ncalls>>, upset' = upset \/ (\E w \in Workers :
                                                    upset' = [upset EXCEPT ![w] = TRUE]),
           nfaults' = nfaults \/ Fault
    PROVE  Counts'
<1>1. nfaults' \in 0..MaxFaults
      BY TablesAssumption DEF Counts, Fault
<1>2. upset' \in [Workers -> BOOLEAN]
      BY DEF Counts
<1> QED BY <1>1, <1>2 DEF Counts

LEMMA TypeInvInit == TablesInit => TypeInv
<1> SUFFICES ASSUME TablesInit PROVE TypeInv
    OBVIOUS
<1>1. PoolsOk
      BY DEF TablesInit, PoolsOk
<1>2. Asking
      BY DEF TablesInit, Asking, Answers
<1>3. Counts
      BY TablesAssumption DEF TablesInit, Counts
<1> QED BY <1>1, <1>2, <1>3 DEF TypeInv

LEMMA BeginTypes ==
    ASSUME ConnInv, TypeInv, NEW w \in Workers, NEW c \in scene, Begin(w, c)
    PROVE  TypeInv'
<1>1. PoolsOk'
      BY DEF TypeInv, PoolsOk, Begin, poolVars
<1>2. c # Idle
      BY SceneCalls DEF ConnInv
<1>3. Asking'
  <2>1. \A v \in Workers : top'[v] = Idle => todo'[v] = <<>>
        BY <1>2 DEF TypeInv, Asking, Begin, ConnInv, Types
  <2>2. top' \in [Workers -> scene \cup {Idle}]
        BY DEF TypeInv, Asking, Begin
  <2> QED BY <2>1, <2>2 DEF TypeInv, Asking, Begin
<1>4. Counts'
  <2> DEFINE b == c.fn \in Scans /\ \E r \in rows : Sought(c, r)
  <2>1. b \in BOOLEAN
        OBVIOUS
  <2>2. known' = [known EXCEPT ![w] = b]
        BY Zenon DEF Begin
  <2> HIDE DEF b
  <2>3. known' \in [Workers -> BOOLEAN]
        BY <2>1, <2>2, Zenon DEF TypeInv, Counts
  <2>4. upset' \in [Workers -> BOOLEAN]
        BY DEF TypeInv, Counts, Begin
  <2>5. ncalls' \in 0..MaxCalls /\ nfaults' = nfaults
        BY TablesAssumption DEF TypeInv, Counts, Begin
  <2> QED BY <2>3, <2>4, <2>5 DEF TypeInv, Counts
<1> QED BY <1>1, <1>3, <1>4 DEF TypeInv

LEMMA GetConnTypes ==
    ASSUME ConnInv, TypeInv, NEW w \in Workers, GetConn(w), ConnInv'
    PROVE  TypeInv'
<1>1. top[w] # Idle
      BY DEF GetConn, Ready
<1>2. PICK c \in Candidates(w) : OutOfRange(w, c) \/ Obtains(w, c) \/ Refused(w, c)
      BY DEF GetConn
<1>3. CASE OutOfRange(w, c) \/ Refused(w, c)
  <2> DEFINE none == {}
  <2>1. PICK a \in Answers : Answered(w, a, none, none)
        BY <1>3 DEF OutOfRange, Refused, Answers
  <2>2. Counts'
        BY <1>3, CountsStay DEF TypeInv, OutOfRange, Refused
  <2>3. leaked' = leaked \cup none /\ none \subseteq inner[w] /\ scene' = scene
        BY <1>3 DEF OutOfRange, Refused
  <2> HIDE DEF none
  <2> QED BY <1>1, <2>1, <2>2, <2>3, AnsweredTypes
<1>4. CASE Obtains(w, c)
  <2>1. PICK k \in Free(TableName(c)) : used' = used \cup {k}
        BY <1>4 DEF Obtains
  <2>2. PoolsOk'
        BY <1>4, <2>1 DEF TypeInv, PoolsOk, Obtains, Free
  <2>3. Asking'
        BY <1>1, <1>4, WorksOn DEF Obtains
  <2>4. Counts'
        BY <1>4, CountsStay DEF TypeInv, Obtains
  <2> QED BY <2>2, <2>3, <2>4 DEF TypeInv
<1> QED BY <1>2, <1>3, <1>4

LEMMA ExecutesTypes ==
    ASSUME ConnInv, TypeInv, NEW w \in Workers, Executes(w)
    PROVE  TypeInv'
<1> DEFINE c == Head(todo[w])
           s == Statement(c)
<1>1. /\ top[w] # Idle /\ c.fn \notin {"GetClusterId", "GetTypeName"}
      /\ UNCHANGED <<leaked, scene, known, upset, ncalls, nfaults>>
      BY DEF Executes, Ready
<1>2. s.ans \subseteq Answers
      BY <1>1, HeadKnown, StatementAnswers
<1>3. Counts'
      BY <1>1, CountsStay DEF TypeInv
<1>4. PICK a \in s.ans :
        \/ /\ \E q : todo' = [todo EXCEPT ![w] = q]
           /\ UNCHANGED <<used, down, top, ans>>
        \/ Answered(w, a, inner[w], {})
  <2> HIDE DEF s
  <2>1. PICK a \in s.ans :
             IF c.fn = "GetClusterDetailData" /\ c.val = 0 /\ a = "TRUE"
             THEN /\ todo' = [todo EXCEPT ![w] = <<[c EXCEPT !.val = 1]>>]
                  /\ UNCHANGED <<used, down, top, at, mine, inner, ans>>
             ELSE IF s.more # <<>>
             THEN /\ todo' = [todo EXCEPT ![w] = s.more]
                  /\ mine' = [mine EXCEPT ![w] = inner[w]]
                  /\ inner' = [inner EXCEPT ![w] = {}]
                  /\ at' = [at EXCEPT ![w] = "GetConn"]
                  /\ UNCHANGED <<used, down, top, ans>>
             ELSE Answered(w, a, inner[w], {})
        BY Zenon DEF Executes, s
  <2> QED BY <2>1
<1> HIDE DEF s
<1>5. CASE /\ \E q : todo' = [todo EXCEPT ![w] = q]
           /\ UNCHANGED <<used, down, top, ans>>
  <2>1. Asking'
        BY <1>1, <1>5, WorksOn
  <2>2. PoolsOk'
        BY <1>1, <1>5 DEF TypeInv, PoolsOk
  <2> QED BY <1>3, <2>1, <2>2 DEF TypeInv
<1>6. CASE Answered(w, a, inner[w], {})
  <2> DEFINE gone == inner[w]
             none == {}
  <2>1. /\ Answered(w, a, gone, none) /\ none \subseteq inner[w] /\ leaked' = leaked \cup none
        /\ a \in Answers
        BY <1>1, <1>2, <1>6
  <2> HIDE DEF gone, none
  <2> QED BY <1>1, <1>3, <2>1, AnsweredTypes
<1> QED BY <1>4, <1>5, <1>6

LEMMA NestedTypes ==
    ASSUME ConnInv, TypeInv, NEW w \in Workers, GetClusterId(w) \/ GetTypeName(w)
    PROVE  TypeInv'
<1>1. /\ top[w] # Idle
      /\ UNCHANGED <<leaked, scene, known, upset, ncalls, nfaults>>
      BY DEF GetClusterId, GetTypeName, Ready
<1>2. Counts'
      BY <1>1, CountsStay DEF TypeInv
<1>3. \/ /\ \E q : todo' = [todo EXCEPT ![w] = q]
         /\ top' = top /\ ans' = ans /\ down' = down /\ used' \subseteq used
      \/ Answered(w, "TRUE", inner[w], {})
  <2>1. CASE GetClusterId(w)
    <3>1. \E q : todo' = [todo EXCEPT ![w] = q]
          BY <2>1 DEF GetClusterId
    <3>2. top' = top /\ ans' = ans /\ down' = down /\ used' \subseteq used
          BY <2>1 DEF GetClusterId, Settle
    <3> QED BY <3>1, <3>2
  <2>2. CASE GetTypeName(w)
        BY <2>2 DEF GetTypeName
  <2> QED BY <2>1, <2>2
<1>4. CASE /\ \E q : todo' = [todo EXCEPT ![w] = q]
           /\ top' = top /\ ans' = ans /\ down' = down /\ used' \subseteq used
  <2>1. Asking'
        BY <1>1, <1>4, WorksOn
  <2>2. PoolsOk'
        BY <1>1, <1>4 DEF TypeInv, PoolsOk
  <2> QED BY <1>2, <2>1, <2>2 DEF TypeInv
<1>5. CASE Answered(w, "TRUE", inner[w], {})
  <2> DEFINE gone == inner[w]
             none == {}
             a == "TRUE"
  <2>1. /\ Answered(w, a, gone, none) /\ none \subseteq inner[w] /\ leaked' = leaked \cup none
        /\ a \in Answers
        BY <1>1, <1>5 DEF Answers
  <2> HIDE DEF gone, none, a
  <2> QED BY <1>1, <1>2, <2>1, AnsweredTypes
<1> QED BY <1>3, <1>4, <1>5

LEMMA ServerLostTypes ==
    ASSUME ConnInv, TypeInv, NEW w \in Workers, ServerLost(w)
    PROVE  TypeInv'
<1> DEFINE lost == inner[w]
           none == {}
           a == "DB_DISCONNECT"
<1>1. /\ top[w] # Idle /\ scene' = scene /\ Answered(w, a, none, lost)
      /\ leaked' = leaked \cup none /\ none \subseteq inner[w] /\ lost \subseteq inner[w]
      /\ a \in Answers
      BY DEF ServerLost, Ready, Answers
<1>2. Counts'
      BY CountsStay DEF TypeInv, ServerLost
<1> HIDE DEF lost, none, a
<1> QED BY <1>1, <1>2, AnsweredTypes

LEMMA OtherErrorTypes ==
    ASSUME ConnInv, TypeInv, NEW w \in Workers, OtherError(w)
    PROVE  TypeInv'
<1> DEFINE his == inner[w]
           none == {}
           c == Head(todo[w])
<1>1. top[w] # Idle /\ scene' = scene
      BY DEF OtherError, Ready
<1>2. Counts'
      BY CountsStay DEF TypeInv, OtherError
<1>3. \/ UNCHANGED <<used, down, leaked, top, todo, ans>>
      \/ leaked' = leaked \cup his /\ UNCHANGED <<used, down, top, todo, ans>>
      \/ Answered(w, "EXECUTE_SQL_ERROR", his, none) /\ leaked' = leaked
      \/ Answered(w, Unforeseen(c), none, none) /\ leaked' = leaked \cup his
      BY DEF OtherError
<1>4. his \subseteq inner[w] /\ none \subseteq inner[w]
      OBVIOUS
<1> HIDE DEF none
<1>5. CASE \/ UNCHANGED <<used, down, leaked, top, todo, ans>>
           \/ leaked' = leaked \cup his /\ UNCHANGED <<used, down, top, todo, ans>>
  <2>1. his \subseteq Conns
        BY DEF ConnInv, Types
  <2>2. PoolsOk'
        BY <1>5, <2>1 DEF TypeInv, PoolsOk
  <2>3. Asking'
        BY <1>1, <1>5 DEF TypeInv, Asking
  <2> QED BY <1>2, <2>2, <2>3 DEF TypeInv
<1>6. CASE Answered(w, "EXECUTE_SQL_ERROR", his, none) /\ leaked' = leaked
  <2> DEFINE a == "EXECUTE_SQL_ERROR"
  <2>1. Answered(w, a, his, none) /\ leaked' = leaked \cup none /\ a \in Answers
        BY <1>6 DEF Answers, none
  <2> HIDE DEF a, his
  <2> QED BY <1>1, <1>2, <1>4, <2>1, AnsweredTypes
<1>7. CASE Answered(w, Unforeseen(c), none, none) /\ leaked' = leaked \cup his
  <2> DEFINE a == Unforeseen(c)
  <2>1. Answered(w, a, none, none) /\ a \in Answers
        BY <1>7 DEF Answers, Unforeseen
  <2> HIDE DEF a, his
  <2> QED BY <1>1, <1>2, <1>4, <1>7, <2>1, AnsweredTypes
<1> QED BY <1>3, <1>5, <1>6, <1>7

LEMMA TypeInvNext == ConnInv /\ TypeInv /\ [TablesNext]_tableVars => TypeInv'
<1> SUFFICES ASSUME ConnInv, TypeInv, [TablesNext]_tableVars PROVE TypeInv'
    OBVIOUS
<1>0. ConnInv'
      BY NextConnInv
<1>1. ASSUME NEW w \in Workers, NEW c \in scene, Begin(w, c) PROVE TypeInv'
      BY <1>1, BeginTypes
<1>2. ASSUME NEW w \in Workers, GetConn(w) PROVE TypeInv'
      BY <1>0, <1>2, GetConnTypes
<1>3. ASSUME NEW w \in Workers, Executes(w) PROVE TypeInv'
      BY <1>3, ExecutesTypes
<1>4. ASSUME NEW w \in Workers, GetClusterId(w) \/ GetTypeName(w) PROVE TypeInv'
      BY <1>4, NestedTypes
<1>5. ASSUME NEW w \in Workers, PhotoOfNobody(w) PROVE TypeInv'
  <2>1. PoolsOk'
        BY <1>5 DEF PoolsOk, PhotoOfNobody
  <2>2. Asking'
        BY <1>5 DEF Asking, PhotoOfNobody, Answers
  <2>3. Counts'
        BY <1>5 DEF TypeInv, Counts, PhotoOfNobody
  <2> QED BY <2>1, <2>2, <2>3 DEF TypeInv
<1>6. ASSUME NEW w \in Workers, ServerLost(w) PROVE TypeInv'
      BY <1>6, ServerLostTypes
<1>7. ASSUME NEW w \in Workers, OtherError(w) PROVE TypeInv'
      BY <1>7, OtherErrorTypes
<1>8. ASSUME NEW k \in down, Reconnects(k) PROVE TypeInv'
      BY <1>8 DEF TypeInv, PoolsOk, Asking, Counts, Reconnects, callVars
<1>9. CASE UNCHANGED tableVars
      BY <1>9 DEF TypeInv, PoolsOk, Asking, Counts, tableVars, poolVars, callVars
<1> QED BY <1>1, <1>2, <1>3, <1>4, <1>5, <1>6, <1>7, <1>8, <1>9 DEF TablesNext, Runs

\* Only a connection in the hands of GetTypeName fails for good.
LEMMA BrokenNext ==
    ASSUME ConnInv, broken \subseteq Conns, [TablesNext]_tableVars
    PROVE  broken' \subseteq Conns
<1>1. ASSUME NEW w \in Workers, NEW c \in scene, Begin(w, c) PROVE broken' \subseteq Conns
      BY <1>1 DEF Begin, poolVars
<1>2. ASSUME NEW w \in Workers, Runs(w) PROVE broken' \subseteq Conns
  <2>1. broken' = broken \/ broken' = {}
        BY <1>2 DEF Runs, GetConn, OutOfRange, Obtains, Refused, Executes, GetClusterId,
                    GetTypeName, PhotoOfNobody
  <2> QED BY <2>1
<1>3. ASSUME NEW w \in Workers, ServerLost(w) PROVE broken' \subseteq Conns
      BY <1>3 DEF ServerLost
<1>4. ASSUME NEW w \in Workers, OtherError(w) PROVE broken' \subseteq Conns
  <2>1. broken' = broken \/ broken' = broken \cup inner[w]
        BY <1>4 DEF OtherError
  <2>2. inner[w] \subseteq Conns
        BY DEF ConnInv, Types
  <2> QED BY <2>1, <2>2
<1>5. ASSUME NEW k \in down, Reconnects(k) PROVE broken' \subseteq Conns
      BY <1>5 DEF Reconnects
<1>6. CASE UNCHANGED tableVars
      BY <1>6 DEF tableVars, poolVars
<1> QED BY <1>1, <1>2, <1>3, <1>4, <1>5, <1>6 DEF TablesNext

\* For every number of workers, connections and failures and every set of calls: rows are
\* in a shard of their table, a connection that is being reconnected is in no hands
\* (ReconnDatabase), and a worker has something to do exactly while it is in a call.
THEOREM TypesAreKept == TablesSpec => []TablesTypeOK
<1> DEFINE Sound == broken \subseteq Conns
<1>1. ConnInv /\ TypeInv /\ Sound => TablesTypeOK
  <2> SUFFICES ASSUME ConnInv, TypeInv, Sound PROVE TablesTypeOK
      OBVIOUS
  <2>1. \A r \in rows : r.table \in TableNames \ {ClusterType}
        BY DEF ConnInv, Types, AllRows, ShardTables
  <2>2. used \subseteq Conns /\ down \subseteq Conns \ used
        BY DEF ConnInv, Types, ConnAccounted, Holds, TypeInv, PoolsOk
  <2>3. KCalls = Steps
        BY DEF KCalls, KnownFns, Steps, Functions
  <2>4. \A w \in Workers : todo[w] \in Seq(Steps) /\ (todo[w] = <<>> <=> top[w] = Idle)
        BY <2>3 DEF ConnInv, Types, Order, TypeInv, Asking
  <2> QED BY <2>1, <2>2, <2>4 DEF TablesTypeOK, ConnInv, Types, TypeInv, PoolsOk, Asking, Counts
<1>2. TablesInit => ConnInv /\ TypeInv /\ Sound
      BY InitConnInv, TypeInvInit DEF TablesInit
<1>3. ConnInv /\ TypeInv /\ Sound /\ [TablesNext]_tableVars => (ConnInv /\ TypeInv /\ Sound)'
      BY NextConnInv, TypeInvNext, BrokenNext
<1> QED BY <1>1, <1>2, <1>3, PTL DEF TablesSpec

-----------------------------------------------------------------------------
(* Scans. *)

\* The statement of a scan in the i-th user_login table.
Look(c, i) == [c EXCEPT !.usr = i * Hundred]

\* While nothing unforeseen happened, a row that was there when the question was asked
\* is in a table the scan still has to look through.
Scan(w) ==
    top[w].fn \in Scans =>
        /\ todo[w] \in {<<Look(top[w], 1), Look(top[w], 2)>>, <<Look(top[w], 2)>>}
        /\ known[w] /\ ~upset[w] =>
              \E r \in rows : /\ Sought(top[w], r)
                              /\ Len(todo[w]) = 1 => r.table = <<"user_login", 2>>

FindInv ==
    /\ known \in [Workers -> BOOLEAN] /\ upset \in [Workers -> BOOLEAN]
    /\ ans = [w \in Workers |-> ans[w]]
    /\ \A w \in Workers : Scan(w)

Found(w) == Denies(w) => upset'[w]
AccountsStay == \A r \in rows : IsAccount(r) => r \in rows'

\* No row that w looks for is in the table its statement is about.
NoRow(w) ==
    \A r \in rows : Sought(top[w], r) => r.table # GetLoginTableName(Head(todo[w]).usr)

LEMMA IdleScansNothing == Idle.fn \notin Scans
BY DEF Idle, Call, Scans

\* The statement of a scan is about one of the two tables.
LEMMA LookKnown ==
    ASSUME ConnInv, NEW w \in Workers, Scan(w), top[w].fn \in Scans
    PROVE  /\ top[w] \in KCalls
           /\ Head(todo[w]).fn = top[w].fn /\ Head(todo[w]).key = top[w].key
           /\ Head(todo[w]).val = top[w].val
           /\ \/ /\ Tail(todo[w]) = <<Look(top[w], 2)>> /\ Len(todo[w]) = 2
                 /\ GetLoginTableName(Head(todo[w]).usr) = <<"user_login", 1>>
              \/ /\ Tail(todo[w]) = <<>> /\ Len(todo[w]) = 1
                 /\ GetLoginTableName(Head(todo[w]).usr) = <<"user_login", 2>>
           /\ <<Head(todo[w])>> \o Tail(todo[w]) = todo[w]
<1>1. top[w] \in KCalls
      BY IdleScansNothing DEF ConnInv, Types
<1>2. \A i \in 1..2 : /\ Look(top[w], i).fn = top[w].fn /\ Look(top[w], i).key = top[w].key
                      /\ Look(top[w], i).val = top[w].val /\ Look(top[w], i).usr = i * Hundred
      BY <1>1 DEF Look, KCalls
<1> DEFINE a == Look(top[w], 1)
           b == Look(top[w], 2)
<1>3. /\ GetLoginTableName(a.usr) = <<"user_login", 1>>
      /\ GetLoginTableName(b.usr) = <<"user_login", 2>>
      BY <1>2, TableOfScan
<1>4. todo[w] = <<a, b>> \/ todo[w] = <<b>>
      BY DEF Scan
<1>5. /\ a.fn = top[w].fn /\ a.key = top[w].key /\ a.val = top[w].val
      /\ b.fn = top[w].fn /\ b.key = top[w].key /\ b.val = top[w].val
      BY <1>2
<1> HIDE DEF a, b
<1>6. CASE todo[w] = <<a, b>>
  <2>1. Head(todo[w]) = a /\ Len(todo[w]) = 2
        BY <1>6
  <2>2. Tail(todo[w]) = <<b>>
        BY <1>6
  <2>3. <<a>> \o <<b>> = <<a, b>>
    <3> DEFINE s == <<a>> \o <<b>>
               t == <<a, b>>
    <3>1. /\ s \in Seq({a, b}) /\ Len(s) = 2 /\ s[1] = a /\ s[2] = b
          /\ t \in Seq({a, b}) /\ Len(t) = 2 /\ t[1] = a /\ t[2] = b
          OBVIOUS
    <3> HIDE DEF s, t
    <3>2. \A i \in 1..Len(s) : s[i] = t[i]
          BY <3>1
    <3>3. s = t
          BY <3>1, <3>2, SeqEqual
    <3> QED BY <3>3 DEF s, t
  <2>4. <<Head(todo[w])>> \o Tail(todo[w]) = todo[w]
        BY <1>6, <2>1, <2>2, <2>3
  <2> QED BY <1>1, <1>3, <1>5, <2>1, <2>2, <2>4 DEF b
<1>7. CASE todo[w] = <<b>>
  <2>1. Head(todo[w]) = b /\ Tail(todo[w]) = <<>> /\ Len(todo[w]) = 1
        /\ <<b>> \o <<>> = <<b>>
        BY <1>7
  <2> QED BY <1>1, <1>3, <1>5, <1>7, <2>1
<1> QED BY <1>4, <1>6, <1>7

LEMMA ScanStays ==
    ASSUME FindInv, NEW v \in Workers, AccountsStay, top'[v] = top[v], todo'[v] = todo[v],
           known'[v] = known[v], upset'[v] = upset[v]
    PROVE  Scan(v)' /\ Found(v)
<1>1. Scan(v)
      BY DEF FindInv
<1>2. \A r \in rows : Sought(top[v], r) => r \in rows'
      BY DEF AccountsStay, Sought, IsAccount
<1>3. Scan(v)'
      BY <1>1, <1>2 DEF Scan, Look, Sought
<1>4. Found(v)
      BY IdleScansNothing DEF Found, Denies
<1> QED BY <1>3, <1>4

\* Steps in which w neither begins nor ends a statement of a scan.
LEMMA QuietFinds ==
    ASSUME ConnInv, FindInv, AccountsStay, NEW w \in Workers,
           top' = top, known' = known, ans' = ans, upset' \in [Workers -> BOOLEAN],
           \A v \in Workers \ {w} : todo'[v] = todo[v] /\ upset'[v] = upset[v],
           top[w].fn \in Scans => todo'[w] = todo[w] /\ upset'[w] = upset[w]
    PROVE  FindInv' /\ \A v \in Workers : Found(v)
<1>1. ASSUME NEW v \in Workers PROVE Scan(v)' /\ Found(v)
  <2>1. CASE v # w \/ top[w].fn \in Scans
    <3>1. todo'[v] = todo[v] /\ upset'[v] = upset[v]
          BY <2>1
    <3> QED BY <3>1, ScanStays
  <2>2. CASE v = w /\ top[w].fn \notin Scans
        BY <2>2 DEF Scan, Found, Denies
  <2> QED BY <2>1, <2>2
<1>2. ans' = [v \in Workers |-> ans'[v]]
      BY DEF FindInv
<1> QED BY <1>1, <1>2 DEF FindInv

\* A statement is over.
LEMMA AnsweredFinds ==
    ASSUME ConnInv, FindInv, AccountsStay, NEW w \in Workers, NEW a, NEW gone, NEW lost,
           top[w] # Idle, Answered(w, a, gone, lost), known' = known,
           upset' = upset \/ upset' = [upset EXCEPT ![w] = TRUE],
           top[w].fn \in Scans /\ a = "FALSE" =>
              \/ upset' = upset /\ NoRow(w)
              \/ upset'[w]
    PROVE  FindInv' /\ \A v \in Workers : Found(v)
<1>0. Types /\ Scan(w) /\ known \in [Workers -> BOOLEAN] /\ upset \in [Workers -> BOOLEAN]
      BY DEF ConnInv, FindInv
<1>1. \A v \in Workers \ {w} : Scan(v)' /\ Found(v)
  <2>1. \A v \in Workers \ {w} : top'[v] = top[v] /\ todo'[v] = todo[v]
        BY <1>0, AnsweredLeaves DEF Types
  <2>2. \A v \in Workers \ {w} : known'[v] = known[v] /\ upset'[v] = upset[v]
        BY <1>0
  <2> QED BY <2>1, <2>2, ScanStays
<1>2. upset' \in [Workers -> BOOLEAN] /\ (upset[w] => upset'[w])
      BY <1>0
<1>3. ans' = [v \in Workers |-> ans'[v]]
  <2>1. ans = [v \in Workers |-> ans[v]]
        BY DEF FindInv
  <2>2. ans' = ans \/ \E b : ans' = [ans EXCEPT ![w] = b]
        BY DEF Answered, Finish, Continue
  <2>3. CASE ans' = ans
        BY <2>1, <2>3
  <2>4. ASSUME NEW b, ans' = [ans EXCEPT ![w] = b]
        PROVE  ans' = [v \in Workers |-> ans'[v]]
        BY <2>1, <2>4
  <2> QED BY <2>2, <2>3, <2>4
<1>4. CASE top[w].fn \notin Scans
  <2>1. top'[w] = top[w] \/ top'[w] = Idle
        BY <1>0, AnsweredLeaves DEF Types
  <2>2. Scan(w)' /\ Found(w)
        BY <1>4, <2>1, IdleScansNothing DEF Scan, Found, Denies
  <2> QED BY <1>0, <1>1, <1>2, <1>3, <2>2 DEF FindInv
<1>5. CASE top[w].fn \in Scans
  <2> DEFINE rest == Tail(todo[w])
  <2>1. /\ Head(todo[w]).fn = top[w].fn
        /\ \/ /\ rest = <<Look(top[w], 2)>> /\ Len(todo[w]) = 2
              /\ GetLoginTableName(Head(todo[w]).usr) = <<"user_login", 1>>
           \/ /\ rest = <<>> /\ Len(todo[w]) = 1
              /\ GetLoginTableName(Head(todo[w]).usr) = <<"user_login", 2>>
        BY <1>0, <1>5, LookKnown
  <2>2. \/ /\ a = "FALSE" /\ rest # <<>>
           /\ todo' = [todo EXCEPT ![w] = rest] /\ top' = top
        \/ /\ a = "FALSE" => rest = <<>>
           /\ ans' = [ans EXCEPT ![w] = a] /\ top' = [top EXCEPT ![w] = Idle]
        BY <1>5, <2>1 DEF Answered, Finish, Continue
  <2> HIDE DEF rest
  <2>3. \A r \in rows : Sought(top[w], r) =>
            r \in rows' /\ r.table \in {<<"user_login", 1>>, <<"user_login", 2>>}
        BY DEF AccountsStay, Sought, IsAccount
  <2>4. CASE /\ a = "FALSE" /\ rest # <<>>
             /\ todo' = [todo EXCEPT ![w] = rest] /\ top' = top
    <3>1. /\ top'[w] = top[w] /\ todo'[w] = rest /\ rest = <<Look(top[w], 2)>>
          /\ Len(rest) = 1 /\ known'[w] = known[w]
          BY <1>0, <2>1, <2>4 DEF Types
    <3>2. ASSUME known[w], ~upset'[w]
          PROVE  \E r \in rows' : Sought(top[w], r) /\ r.table = <<"user_login", 2>>
      <4>1. ~upset[w] /\ NoRow(w)
            BY <1>2, <1>5, <2>4, <3>2
      <4>2. PICK r \in rows : Sought(top[w], r)
            BY <1>0, <1>5, <3>2, <4>1 DEF Scan
      <4>3. r.table # <<"user_login", 1>>
            BY <2>1, <2>4, <4>1, <4>2 DEF NoRow
      <4> QED BY <2>3, <4>2, <4>3
    <3>3. Scan(w)'
          BY <3>1, <3>2 DEF Scan, Look, Sought
    <3>4. Found(w)
          BY <1>5, <3>1, IdleScansNothing DEF Found, Denies
    <3> QED BY <1>0, <1>1, <1>2, <1>3, <3>3, <3>4 DEF FindInv
  <2>5. CASE /\ a = "FALSE" => rest = <<>>
             /\ ans' = [ans EXCEPT ![w] = a] /\ top' = [top EXCEPT ![w] = Idle]
    <3>1. top'[w] = Idle
          BY <1>0, <2>5 DEF Types
    <3>2. ans'[w] = a
      <4>1. ans = [v \in Workers |-> ans[v]]
            BY DEF FindInv
      <4> QED BY <2>5, <4>1
    <3>3. Scan(w)'
          BY <3>1, IdleScansNothing DEF Scan
    <3>4. ASSUME a = "FALSE", known[w]
          PROVE  upset'[w]
      <4>1. CASE upset[w]
            BY <1>2, <4>1
      <4>2. CASE ~upset[w]
        <5>1. PICK r \in rows : Sought(top[w], r) /\ r.table = <<"user_login", 2>>
              BY <1>0, <1>5, <2>1, <2>5, <3>4, <4>2 DEF Scan
        <5>2. ~NoRow(w)
              BY <2>1, <2>5, <3>4, <5>1 DEF NoRow
        <5> QED BY <1>5, <3>4, <5>2
      <4> QED BY <4>1, <4>2
    <3>5. Found(w)
          BY <3>2, <3>4 DEF Found, Denies
    <3> QED BY <1>0, <1>1, <1>2, <1>3, <3>3, <3>5 DEF FindInv
  <2> QED BY <2>2, <2>4, <2>5
<1> QED BY <1>4, <1>5

\* What has to be shown of a step.
Finds == FindInv' /\ \A v \in Workers : Found(v)

LEMMA BeginFinds ==
    ASSUME ConnInv, FindInv, NEW w \in Workers, NEW c \in scene, Begin(w, c)
    PROVE  Finds
<1>0. Types /\ known \in [Workers -> BOOLEAN] /\ upset \in [Workers -> BOOLEAN]
      BY DEF ConnInv, FindInv
<1>1. c \in KCalls
      BY <1>0, SceneCalls
<1>2. /\ top' = [top EXCEPT ![w] = c] /\ todo' = [todo EXCEPT ![w] = Plan(c)]
      /\ known' = [known EXCEPT ![w] = c.fn \in Scans /\ \E r \in rows : Sought(c, r)]
      /\ upset' = [upset EXCEPT ![w] = FALSE]
      /\ top[w] = Idle /\ rows' = rows /\ ans' = ans
      BY DEF Begin
<1>3. \A v \in Workers \ {w} : Scan(v)' /\ Found(v)
  <2>1. AccountsStay
        BY <1>2 DEF AccountsStay
  <2>2. \A v \in Workers \ {w} : /\ top'[v] = top[v] /\ todo'[v] = todo[v]
                                 /\ known'[v] = known[v] /\ upset'[v] = upset[v]
        BY <1>0, <1>2 DEF Types
  <2> QED BY <2>1, <2>2, ScanStays
<1>4. Found(w)
      BY <1>2, IdleScansNothing DEF Found, Denies
<1>5. /\ top'[w] = c /\ todo'[w] = Plan(c) /\ upset'[w] = FALSE
      /\ known'[w] = (c.fn \in Scans /\ \E r \in rows : Sought(c, r))
      BY <1>0, <1>2 DEF Types
<1>6. ASSUME c.fn \in Scans PROVE Scan(w)'
  <2> DEFINE s == Look(c, 1)
             t == Look(c, 2)
             p == [i \in 1..2 |-> Look(c, i)]
  <2>1. Plan(c) = p
        BY <1>6 DEF Plan, Look, Scans
  <2>2. p[1] = s /\ p[2] = t
        OBVIOUS
  <2>3. p \in Seq({s, t}) /\ Len(p) = 2
    <3>1. \A i \in 1..2 : Look(c, i) \in {s, t}
          OBVIOUS
    <3> HIDE DEF s, t
    <3> QED BY <3>1
  <2> HIDE DEF s, t, p
  <2>4. <<s, t>> \in Seq({s, t}) /\ Len(<<s, t>>) = 2 /\ <<s, t>>[1] = s /\ <<s, t>>[2] = t
        OBVIOUS
  <2>5. p = <<s, t>>
    <3> DEFINE q == <<s, t>>
    <3>1. q \in Seq({s, t}) /\ Len(q) = 2 /\ q[1] = s /\ q[2] = t
          BY <2>4
    <3> HIDE DEF q
    <3>2. \A i \in 1..Len(p) : p[i] = q[i]
          BY <2>2, <2>3, <3>1
    <3>3. p = q
          BY <2>3, <3>1, <3>2, SeqEqual
    <3> QED BY <3>3 DEF q
  <2>6. todo'[w] = <<Look(c, 1), Look(c, 2)>> /\ Len(todo'[w]) = 2
        BY <1>5, <2>1, <2>3, <2>5 DEF s, t
  <2>7. known'[w] => \E r \in rows' : Sought(c, r)
        BY <1>2, <1>5
  <2> QED BY <1>5, <2>6, <2>7 DEF Scan, Look, Sought
<1>7. Scan(w)'
  <2>1. CASE c.fn \in Scans
        BY <1>6, <2>1
  <2>2. CASE c.fn \notin Scans
        BY <1>5, <2>2 DEF Scan
  <2> QED BY <2>1, <2>2
<1>8. known' \in [Workers -> BOOLEAN] /\ upset' \in [Workers -> BOOLEAN]
      BY <1>0, <1>2
<1>9. ans' = [v \in Workers |-> ans'[v]]
      BY <1>2 DEF FindInv
<1> QED BY <1>3, <1>4, <1>7, <1>8, <1>9 DEF Finds, FindInv

LEMMA GetConnFinds ==
    ASSUME ConnInv, FindInv, NEW w \in Workers, GetConn(w)
    PROVE  Finds
<1>0. Types /\ Scan(w) /\ upset \in [Workers -> BOOLEAN] /\ top[w] # Idle
      BY DEF ConnInv, FindInv, GetConn, Ready
<1>1. PICK c \in Candidates(w) : OutOfRange(w, c) \/ Obtains(w, c) \/ Refused(w, c)
      BY DEF GetConn
<1>2. rows' = rows /\ known' = known /\ upset' = upset /\ AccountsStay
      BY <1>1 DEF OutOfRange, Obtains, Refused, AccountsStay
<1>3. CASE Obtains(w, c)
  <2>1. todo' = [todo EXCEPT ![w] = <<c>> \o Tail(todo[w])] /\ top' = top /\ ans' = ans
        BY <1>0, <1>3 DEF Obtains, Types
  <2>2. ASSUME top[w].fn \in Scans PROVE todo'[w] = todo[w]
    <3>1. /\ Head(todo[w]).fn = top[w].fn
          /\ <<Head(todo[w])>> \o Tail(todo[w]) = todo[w]
          BY <1>0, <2>2, LookKnown
    <3>2. c = Head(todo[w])
          BY <1>1, <2>2, <3>1 DEF Candidates, Scans
    <3> QED BY <1>0, <2>1, <3>1, <3>2 DEF Types
  <2>3. \A v \in Workers \ {w} : todo'[v] = todo[v]
        BY <1>0, <2>1 DEF Types
  <2> QED BY <1>0, <1>2, <2>1, <2>2, <2>3, QuietFinds DEF Finds
<1>4. ASSUME NEW a, a # "FALSE", Answered(w, a, {}, {}) PROVE Finds
      BY <1>0, <1>2, <1>4, AnsweredFinds DEF Finds
<1>5. CASE OutOfRange(w, c)
      BY <1>4, <1>5 DEF OutOfRange
<1>6. CASE Refused(w, c)
      BY <1>4, <1>6 DEF Refused
<1> QED BY <1>1, <1>3, <1>5, <1>6

\* A scan that is told FALSE did not see a row in its table.
LEMMA ScanAnswers ==
    ASSUME ConnInv, FindInv, NEW w \in Workers, top[w].fn \in Scans,
           "FALSE" \in Statement(Head(todo[w])).ans
    PROVE  NoRow(w)
<1> DEFINE c == Head(todo[w])
<1>1. Scan(w)
      BY DEF FindInv
<1>2. c.fn = top[w].fn /\ c.key = top[w].key /\ c.val = top[w].val
      BY <1>1, LookKnown
<1> HIDE DEF c
<1>3. CASE top[w].fn = "JudgeAccountAndPasswd"
  <2>1. Statement(c) = JudgeAccountAndPasswd(c)
        BY <1>2, <1>3 DEF Statement, UserStatement, GroupFns, FriendFns, ClusterFns,
                          BelongFns, DetailFns
  <2>2. ~\E r \in InTable(GetLoginTableName(c.usr)) : r.key = c.key /\ r.val = c.val
        BY <2>1 DEF JudgeAccountAndPasswd, Asks, Reads, c
  <2> QED BY <1>2, <1>3, <2>2 DEF NoRow, Sought, InTable, c
<1>4. CASE top[w].fn = "IsTheSameAccount"
  <2>1. Statement(c) = IsTheSameAccount(c)
        BY <1>2, <1>4 DEF Statement, UserStatement, GroupFns, FriendFns, ClusterFns,
                          BelongFns, DetailFns
  <2>2. ~\E r \in InTable(GetLoginTableName(c.usr)) : r.key = c.key
        BY <2>1 DEF IsTheSameAccount, Asks, Reads, c
  <2> QED BY <1>2, <2>2 DEF NoRow, Sought, InTable, c
<1> QED BY <1>3, <1>4 DEF Scans

\* Scans are over one table at a time and visit nobody.
LEMMA ScansAreSimple ==
    ASSUME ConnInv, FindInv, NEW w \in Workers, top[w] # Idle,
           Head(todo[w]).fn \in {"GetClusterId", "GetTypeName"} \cup Visitors
    PROVE  top[w].fn \notin Scans
<1>1. Scan(w)
      BY DEF FindInv
<1>2. top[w].fn \in Scans => Head(todo[w]).fn \in Scans
      BY <1>1, LookKnown
<1> QED BY <1>2 DEF Scans, Visitors

LEMMA ExecutesFinds ==
    ASSUME ConnInv, FindInv, NEW w \in Workers, Executes(w)
    PROVE  Finds
<1> DEFINE c == Head(todo[w])
           s == Statement(c)
<1>0. Types /\ upset \in [Workers -> BOOLEAN]
      BY DEF ConnInv, FindInv
<1>1. /\ Ready(w, "mysql_query") /\ c.fn \notin {"GetClusterId", "GetTypeName"}
      /\ rows' = s.rows /\ known' = known /\ upset' = upset /\ top[w] # Idle
      BY DEF Executes, Ready
<1>2. c \in KCalls
      BY <1>1, HeadKnown
<1>3. AccountsStay /\ (c.fn \notin Visitors => s.more = <<>>)
      BY <1>0, <1>1, <1>2, StatementDoes DEF AccountsStay, Types
<1>4. PICK a \in s.ans :
        \/ /\ c.fn = "GetClusterDetailData"
           /\ \E q : todo' = [todo EXCEPT ![w] = q]
           /\ UNCHANGED <<top, ans>>
        \/ /\ s.more # <<>>
           /\ \E q : todo' = [todo EXCEPT ![w] = q]
           /\ UNCHANGED <<top, ans>>
        \/ Answered(w, a, inner[w], {})
  <2> HIDE DEF s
  <2>1. PICK a \in s.ans :
             IF c.fn = "GetClusterDetailData" /\ c.val = 0 /\ a = "TRUE"
             THEN /\ todo' = [todo EXCEPT ![w] = <<[c EXCEPT !.val = 1]>>]
                  /\ UNCHANGED <<used, down, top, at, mine, inner, ans>>
             ELSE IF s.more # <<>>
             THEN /\ todo' = [todo EXCEPT ![w] = s.more]
                  /\ mine' = [mine EXCEPT ![w] = inner[w]]
                  /\ inner' = [inner EXCEPT ![w] = {}]
                  /\ at' = [at EXCEPT ![w] = "GetConn"]
                  /\ UNCHANGED <<used, down, top, ans>>
             ELSE Answered(w, a, inner[w], {})
        BY Zenon DEF Executes, s
  <2> QED BY <2>1
<1>5. CASE c.fn \in Visitors /\ (\E q : todo' = [todo EXCEPT ![w] = q]) /\ UNCHANGED <<top, ans>>
  <2>1. top[w].fn \notin Scans
        BY <1>1, <1>5, ScansAreSimple
  <2>2. \A v \in Workers \ {w} : todo'[v] = todo[v]
        BY <1>0, <1>5 DEF Types
  <2> QED BY <1>0, <1>1, <1>3, <1>5, <2>1, <2>2, QuietFinds DEF Finds
<1>6. CASE Answered(w, a, inner[w], {})
  <2>1. top[w].fn \in Scans /\ a = "FALSE" => NoRow(w)
        BY ScanAnswers
  <2> QED BY <1>1, <1>3, <1>6, <2>1, AnsweredFinds DEF Finds
<1> HIDE DEF s
<1> QED BY <1>3, <1>4, <1>5, <1>6 DEF Visitors

LEMMA ClusterStepsFind ==
    ASSUME ConnInv, FindInv, NEW w \in Workers, GetClusterId(w) \/ GetTypeName(w)
    PROVE  Finds
<1>0. Types /\ upset \in [Workers -> BOOLEAN]
      BY DEF ConnInv, FindInv
<1>1. /\ top[w] # Idle /\ Head(todo[w]).fn \in {"GetClusterId", "GetTypeName"}
      /\ rows' = rows /\ known' = known /\ upset' = upset
      BY DEF GetClusterId, GetTypeName, Ready
<1>2. top[w].fn \notin Scans
      BY <1>1, ScansAreSimple
<1>3. AccountsStay
      BY <1>1 DEF AccountsStay
<1>4. \/ Answered(w, "TRUE", inner[w], {})
      \/ (\E q : todo' = [todo EXCEPT ![w] = q]) /\ top' = top /\ ans' = ans
  <2>1. CASE GetClusterId(w)
        BY <2>1 DEF GetClusterId
  <2>2. CASE GetTypeName(w)
        BY <2>2 DEF GetTypeName
  <2> QED BY <2>1, <2>2
<1>5. CASE Answered(w, "TRUE", inner[w], {})
      BY <1>1, <1>2, <1>3, <1>5, AnsweredFinds DEF Finds
<1>6. CASE (\E q : todo' = [todo EXCEPT ![w] = q]) /\ top' = top /\ ans' = ans
  <2>1. \A v \in Workers \ {w} : todo'[v] = todo[v]
        BY <1>0, <1>6 DEF Types
  <2> QED BY <1>0, <1>1, <1>2, <1>3, <1>6, <2>1, QuietFinds DEF Finds
<1> QED BY <1>4, <1>5, <1>6

LEMMA ServerLostFinds ==
    ASSUME ConnInv, FindInv, NEW w \in Workers, ServerLost(w)
    PROVE  Finds
<1> DEFINE c == Head(todo[w])
           s == Statement(c)
<1>1. /\ Ready(w, "mysql_query") /\ top[w] # Idle /\ known' = known /\ upset' = upset
      /\ Answered(w, "DB_DISCONNECT", {}, inner[w])
      /\ \/ rows' = rows
         \/ c.fn \notin {"GetClusterId", "GetTypeName"} /\ rows' = s.rows
      BY DEF ServerLost, Ready
<1>2. AccountsStay
  <2>1. CASE rows' = rows
        BY <2>1 DEF AccountsStay
  <2>2. CASE c.fn \notin {"GetClusterId", "GetTypeName"} /\ rows' = s.rows
    <3>1. c \in KCalls
          BY <1>1, HeadKnown
    <3> QED BY <2>2, <3>1, StatementDoes DEF AccountsStay, ConnInv, Types
  <2> QED BY <1>1, <2>1, <2>2
<1> QED BY <1>1, <1>2, AnsweredFinds DEF Finds

LEMMA OtherErrorFinds ==
    ASSUME ConnInv, FindInv, NEW w \in Workers, OtherError(w)
    PROVE  Finds
<1> DEFINE c == Head(todo[w])
<1>0. Types /\ Scan(w) /\ upset \in [Workers -> BOOLEAN]
      BY DEF ConnInv, FindInv
<1>1. /\ top[w] # Idle /\ rows' = rows /\ known' = known
      /\ upset' = [upset EXCEPT ![w] = TRUE] /\ AccountsStay
      BY DEF OtherError, Ready, AccountsStay
<1>2. /\ upset'[w] /\ upset' \in [Workers -> BOOLEAN]
      /\ \A v \in Workers \ {w} : upset'[v] = upset[v]
      BY <1>0, <1>1
<1>3. CASE c.fn \in {"GetTypeName", "GetClusterId"} /\ UNCHANGED <<top, todo, ans>>
  <2>1. top[w].fn \notin Scans
        BY <1>1, <1>3, ScansAreSimple
  <2> QED BY <1>1, <1>2, <1>3, <2>1, QuietFinds DEF Finds
<1>4. CASE Answered(w, "EXECUTE_SQL_ERROR", inner[w], {})
      BY <1>1, <1>4, AnsweredFinds DEF Finds
<1>5. CASE Answered(w, Unforeseen(c), {}, {})
  <2> DEFINE a == Unforeseen(c)
  <2>1. Answered(w, a, {}, {})
        BY <1>5
  <2> HIDE DEF a
  <2> QED BY <1>1, <1>2, <2>1, AnsweredFinds DEF Finds
<1>6. \/ c.fn \in {"GetTypeName", "GetClusterId"} /\ UNCHANGED <<top, todo, ans>>
      \/ Answered(w, "EXECUTE_SQL_ERROR", inner[w], {})
      \/ Answered(w, Unforeseen(c), {}, {})
      BY DEF OtherError
<1> QED BY <1>3, <1>4, <1>5, <1>6

LEMMA PhotoOfNobodyFinds ==
    ASSUME ConnInv, FindInv, NEW w \in Workers, PhotoOfNobody(w)
    PROVE  Finds
<1>1. /\ top' = [v \in Workers |-> Idle] /\ ans' = [v \in Workers |-> "TRUE"]
      /\ known' = [v \in Workers |-> FALSE] /\ upset' = [v \in Workers |-> FALSE]
      BY DEF PhotoOfNobody
<1>2. \A v \in Workers : Scan(v)'
      BY <1>1, IdleScansNothing DEF Scan
<1>3. \A v \in Workers : Found(v)
      BY <1>1 DEF Found, Denies
<1> QED BY <1>1, <1>2, <1>3 DEF Finds, FindInv

LEMMA IdleFinds ==
    ASSUME ConnInv, FindInv, UNCHANGED <<rows, top, todo, ans, known, upset>>
    PROVE  Finds
<1>1. AccountsStay
      BY DEF AccountsStay
<1>2. \A v \in Workers : Scan(v)' /\ Found(v)
      BY <1>1, ScanStays
<1>3. /\ known' \in [Workers -> BOOLEAN] /\ upset' \in [Workers -> BOOLEAN]
      /\ ans' = [v \in Workers |-> ans'[v]]
      BY DEF FindInv
<1> QED BY <1>2, <1>3 DEF Finds, FindInv

LEMMA InitFindInv == TablesInit => FindInv
BY IdleScansNothing DEF TablesInit, FindInv, Scan

LEMMA NextFinds == ConnInv /\ FindInv /\ [TablesNext]_tableVars => Finds
<1> SUFFICES ASSUME ConnInv, FindInv, [TablesNext]_tableVars PROVE Finds
    OBVIOUS
<1>1. ASSUME NEW w \in Workers, NEW c \in scene, Begin(w, c) PROVE Finds
      BY <1>1, BeginFinds
<1>2. ASSUME NEW w \in Workers, GetConn(w) PROVE Finds
      BY <1>2, GetConnFinds
<1>3. ASSUME NEW w \in Workers, Executes(w) PROVE Finds
      BY <1>3, ExecutesFinds
<1>4. ASSUME NEW w \in Workers, GetClusterId(w) \/ GetTypeName(w) PROVE Finds
      BY <1>4, ClusterStepsFind
<1>5. ASSUME NEW w \in Workers, PhotoOfNobody(w) PROVE Finds
      BY <1>5, PhotoOfNobodyFinds
<1>6. ASSUME NEW w \in Workers, ServerLost(w) PROVE Finds
      BY <1>6, ServerLostFinds
<1>7. ASSUME NEW w \in Workers, OtherError(w) PROVE Finds
      BY <1>7, OtherErrorFinds
<1>8. ASSUME NEW k \in down, Reconnects(k) PROVE Finds
      BY <1>8, IdleFinds DEF Reconnects, callVars
<1>9. CASE UNCHANGED tableVars
      BY <1>9, IdleFinds DEF tableVars, callVars
<1> QED BY <1>1, <1>2, <1>3, <1>4, <1>5, <1>6, <1>7, <1>8, <1>9 DEF TablesNext, Runs

\* Who registered before the question is found, whatever is registered and whatever
\* fails while the tables are looked through one after the other; only an unforeseen
\* failure of one of its statements makes a scan miss a row
\* (service_table_user_login.c:152, 380).
THEOREM AccountsAreFound == TablesSpec => AccountFound
<1>1. ConnInv /\ FindInv /\ [TablesNext]_tableVars =>
          FindInv' /\ \A w \in Workers :
              Denies(w) => upset'[w]
      BY NextFinds DEF Finds, Found
<1> QED BY <1>1, InitConnInv, NextConnInv, InitFindInv, PTL DEF TablesSpec, AccountFound

=============================================================================
