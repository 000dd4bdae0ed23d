--------------------------- MODULE MCServiceData ---------------------------
(* What a service server does with its data, for TLC. *)
EXTENDS Tables, BatchInsert, TLC

C(fn, u, k, v) == [fn |-> fn, usr |-> u, key |-> k, val |-> v]

\* Users 1 and 3 are in two shards, user 5 in none; numbers 1 and 3 as well.
LoginScene ==
    {C("InsertRegisInfoIntoDB", 1, 1, 1), C("InsertRegisInfoIntoDB", 3, 1, 1),
     C("JudgeAccountAndPasswd", 0, 1, 1), C("IsTheSameAccount", 0, 1, 0),
     C("IsUsridAndPasswdCorrect", 1, 0, 1), C("IsTheSameUsrID", 3, 0, 0),
     C("IsUsrIDExistOrNot", 5, 0, 0), C("GetMaxUsridInTheRange", 1, 0, 2),
     C("GetNickname", 3, 0, 0)}

InfoScene ==
    {C("InsertUsrInfo", 1, 0, 0), C("GetSigAndPhotoIdx", 1, 0, 0), C("GetPhotoIdx", 1, 0, 0),
     C("IsEnoughClusterLevel", 1, 0, 0), C("InsertImageData", 5, 0, 0)}

GroupScene ==
    {C("InsertFriGroupData", 1, 1, 0), C("DeleteFriGroupData", 1, 1, 0),
     C("IsGroupIDExistOrNot", 1, 1, 0), C("FindMaxGroupID", 1, 0, 0),
     C("GetGroupNum", 3, 0, 0), C("GetFriendGroupInfo", 5, 0, 0)}

FriendScene ==
    {C("InsertFriendData", 1, 1, 3), C("InsertFriendData", 1, 1, 5),
     C("DeleteFriendData", 1, 1, 3), C("IsFriendDataExistOrNot", 1, 1, 3),
     C("GetFriendInfoFromDB", 1, 1, 0), C("InsertLoginInfoIntoDB", 3, 0, 0),
     C("DeleteItemByUsrId", 3, 0, 0), C("IsUsrLogin", 3, 0, 0)}

ClusterScene ==
    {C("InsertClusterInfo", 1, 0, 1), C("InsertClusterInfo", 3, 0, 9),
     C("GetTypeName", 0, 9, 0), C("GetClusterTypeName", 0, 1, 0),
     C("DeleteCluster", 0, 1, 0)}

BelongScene ==
    {C("InsertOwnClusterInfo", 1, 1, 1), C("InsertOwnClusterInfo", 2, 1, 0),
     C("GetClusterData", 1, 0, 0), C("DelOwnClusterInfo", 1, 1, 0),
     C("IsUsrHavePowerToDelCluster", 1, 1, 0), C("DeleteUsrsOwnCluster", 2, 1, 0)}

MemberScene ==
    {C("InsertClusterMember", 1, 3, 0), C("InsertClusterMember", 5, 3, 0),
     C("DelClusterMember", 1, 3, 0), C("GetUsrsId", 0, 3, 0),
     C("DelAllClusterMember", 0, 3, 0), C("GetClusterDetailData", 1, 3, 0),
     C("InsertUsrInfo", 1, 0, 0)}

AllScenes == {LoginScene, InfoScene, GroupScene, FriendScene, ClusterScene, BelongScene,
              MemberScene}

\* Type 1 has a parent, type 9 has no row.
TypeTree == (1 :> 2) @@ (2 :> -1)

T(type, edition, exact) == [type |-> type, edition |-> edition, exact |-> exact]
Reg0 == [phone |-> 0]
Reg1 == [phone |-> 1]

\* One task of each type for two clients; two tasks for three clients; the task of
\* InsertExactSndTaskData for four.
OneTask == {<<T(type, 0, FALSE)>> : type \in Types}
SomeTasks == {T("BOOK_TYPE", 0, FALSE), T("SOFTWARE_TYPE", 1, FALSE),
              T("SOFTWARE_TYPE", 2, FALSE), T("CLIENT_UPDATE_TYPE", 0, FALSE),
              T("RECOMM_URL", 0, TRUE), T("unknown", 0, FALSE)}
AllJobs ==
    [fn : {"InsertTaskData", "BatchInsertTaskData"}, tasks : OneTask, regs : {<<Reg0, Reg1>>}]
    \cup
    [fn : {"InsertTaskData", "BatchInsertTaskData"},
     tasks : {<<a, b>> : a, b \in SomeTasks},
     regs : {<<>>} \cup {<<a, b, c>> : a, b, c \in {Reg0, Reg1}}]
    \cup
    [fn : {"InsertExactSndTaskData"}, tasks : {<<t>> : t \in SomeTasks},
     regs : {<<Reg0>>} \cup {<<a, b, c, Reg1>> : a, b, c \in {Reg0, Reg1}}]

\* The two parts share no state: a behaviour follows one of them, the other stays at
\* the first of its initial states.
OneScene == CHOOSE s \in Scenes : TRUE
OneJob == CHOOSE j \in Jobs : TRUE
NoBatch == job = OneJob /\ handles /\ room = CHOOSE r \in Rooms : TRUE
Init ==
    /\ TablesInit /\ BatchInit
    /\ NoBatch \/ scene = OneScene
Next ==
    \/ TablesNext /\ NoBatch /\ bpc = "start" /\ UNCHANGED batchVars
    \/ BatchNext /\ scene = OneScene /\ ncalls = 0 /\ UNCHANGED tableVars
Spec == Init /\ [][Next]_<<tableVars, batchVars>> /\ TablesFairness
=============================================================================
