--------------------------- MODULE RecvConns_proofs ---------------------------
(***************************************************************************)
(* What becomes of the connections of RecvPool, of what their clients send  *)
(* and of the buffers it is kept in, for every number of workers, closers,  *)
(* descriptors and connections: no connection is lost sight of, nothing a   *)
(* client sends is forgotten, no worker that is alone reads into a freed    *)
(* buffer, and, as long as only workers tear connections down, what is      *)
(* handed to the service side is whole and allocated.                       *)
(***************************************************************************)
EXTENDS RecvPool_proofs

-----------------------------------------------------------------------------
(* The inductive invariant.                                                   *)

\* Connections are numbered in the order they are accepted; a teardown belongs to one of them.
Numbered ==
    /\ \A f \in Fds : conn[f] =< nconn
    /\ \A a \in Actors : td[a].conn =< nconn

\* A thread that is in no teardown names no descriptor.
IdleOrNot == \A a \in Actors : td[a].at = 0 => td[a] = Idle

\* After the close of a teardown its connection is gone for good.
ClosedForGood ==
    \A a \in Actors :
        (td[a].at > 0 /\ td[a].conn # 0 /\ \E i \in 1..(td[a].at - 1) : Script(a)[i] = "close")
        => conn[td[a].fd] # td[a].conn

\* Some thread tears down the very connection f stands for.
Torn(f) == \E a \in Actors : td[a].at > 0 /\ td[a].fd = f /\ td[a].conn = conn[f]

\* A connection that is up, that no stray call hit and that nobody tears down.
Sound(f) == conn[f] # 0 /\ conn[f] \notin victims /\ ~Torn(f)

\* Such a connection is registered and watched as far as main has got with it.
Watched ==
    \A f \in Fds : Sound(f) =>
        /\ (f = mfd /\ mpc = "register") \/ f \in epoll
        /\ (f = mfd /\ mpc \in {"register", "insert"}) \/ f \in beat

Watch == Numbered /\ IdleOrNot /\ ClosedForGood /\ Watched

Queued(f) == \E i \in 1..Len(queue) : queue[i] = f

\* What has come for such a connection is on its way to a worker.
OnItsWay(f) == f \in ready \cup batch \/ Queued(f) \/ \E w \in Workers : WillLook(w, f)

Fine(f) == (f = mfd /\ mpc = "register") \/ (unread[f] = 0 /\ ~fin[f]) \/ OnItsWay(f)

Seen == \A f \in Fds : Sound(f) => Fine(f)

-----------------------------------------------------------------------------
(* Steps of the teardowns.                                                    *)

\* Every script has a close.
LEMMA ScriptCloses == \A a \in Actors : \E i \in 1..Calls : Script(a)[i] = "close"
BY DEF Script, DetectorScript, SenderScript, CheckerScript, WorkerScript, Calls

\* What a call of a teardown may do to the descriptor and its connection.
Call(a) ==
    LET t == td[a] IN
    /\ t.at \in 1..Calls /\ t.fd \in Fds /\ t.conn \in Nat
    /\ \A b \in Actors \ {a} : td'[b] = td[b]
    /\ \/ td'[a] = t
       \/ t.at < Calls /\ td'[a] = [fd |-> t.fd, conn |-> t.conn, at |-> t.at + 1]
       \/ t.at = Calls /\ td'[a] = Idle
    /\ victims' = Strays(a) /\ UNCHANGED <<nconn, mpc, mfd>>
    /\ \/ Script(a)[t.at] = "close" /\ conn' = [conn EXCEPT ![t.fd] = 0]
       \/ Script(a)[t.at] # "close" /\ conn' = conn
    /\ epoll \subseteq epoll' \cup {t.fd} /\ beat \subseteq beat' \cup {t.fd}

LEMMA Called == ASSUME TypeOK, NEW a \in Actors, TeardownStep(a) PROVE Call(a)
<1>1. td[a] \in [fd : Fds \cup {None}, conn : 0..MaxConns, at : 0..Calls] /\ MaxConns \in Nat
      BY Constants DEF TypeOK, TeardownType
<1>2. td[a].at > 0 /\ (Advance(a) \/ td' = td)
      BY DEF TeardownStep, DelSockEvent, DelClientSockFromQueue, DelTmpClientSock,
             DelClientMsgBuf, DeleteHeartbeatDetectItem, CloseSock, Calling
<1>3. td[a].at \in 1..Calls /\ td[a].fd \in Fds /\ td[a].conn \in Nat
      BY <1>1, <1>2 DEF TypeOK, TeardownType, Calls
<1>4. /\ \A b \in Actors \ {a} : td'[b] = td[b]
      /\ \/ td'[a] = td[a]
         \/ /\ td[a].at < Calls
            /\ td'[a] = [fd |-> td[a].fd, conn |-> td[a].conn, at |-> td[a].at + 1]
         \/ td[a].at = Calls /\ td'[a] = Idle
      BY <1>1, <1>2, <1>3 DEF Advance, TypeOK, TeardownType, Calls
<1>5. victims' = Strays(a) /\ UNCHANGED <<nconn, mpc, mfd>>
      BY DEF TeardownStep, DelSockEvent, DelClientSockFromQueue, DelTmpClientSock,
             DelClientMsgBuf, DeleteHeartbeatDetectItem, CloseSock, kernelVars, mainVars
<1>6. /\ \/ Script(a)[td[a].at] = "close" /\ conn' = [conn EXCEPT ![td[a].fd] = 0]
         \/ Script(a)[td[a].at] # "close" /\ conn' = conn
      /\ epoll \subseteq epoll' \cup {td[a].fd} /\ beat \subseteq beat' \cup {td[a].fd}
      BY DEF TeardownStep, DelSockEvent, DelClientSockFromQueue, DelTmpClientSock, Calling,
             DelClientMsgBuf, DeleteHeartbeatDetectItem, CloseSock, kernelVars, mainVars
<1> QED BY <1>3, <1>4, <1>5, <1>6 DEF Call

\* A descriptor that is sound after a call was sound before, and is another one.
LEMMA SoundBefore ==
    ASSUME TypeOK, Watch, NEW a \in Actors, TeardownStep(a), NEW f \in Fds, Sound(f)'
    PROVE  f # td[a].fd /\ Sound(f) /\ conn'[f] = conn[f]
<1>0. Call(a)
      BY Called
<1>1. conn \in [Fds -> 0..MaxConns] /\ td[a].fd \in Fds
      BY <1>0 DEF TypeOK, KernelType, Call
<1>2. victims \subseteq victims' /\ victims' = Strays(a)
      BY <1>0 DEF Call, Strays
<1>3. CASE f = td[a].fd
  <2>1. conn' = conn /\ Script(a)[td[a].at] # "close"
        BY <1>0, <1>1, <1>3 DEF Sound, Call
  <2>2. conn[f] = td[a].conn /\ conn[f] # 0
        BY <1>2, <1>3, <2>1 DEF Sound, Strays
  <2>3. ~(td'[a].at > 0 /\ td'[a].fd = f /\ td'[a].conn = conn[f])
        BY <2>1 DEF Sound, Torn
  <2>4. td[a].at = Calls /\ td[a].at \in 1..Calls
        BY <1>0, <1>3, <2>2, <2>3 DEF Call, Calls
  <2>5. PICK i \in 1..Calls : Script(a)[i] = "close"
        BY ScriptCloses
  <2>6. i \in 1..(td[a].at - 1)
        BY <2>1, <2>4, <2>5 DEF Calls
  <2>7. td[a].at > 0 /\ \E n \in 1..(td[a].at - 1) : Script(a)[n] = "close"
        BY <2>4, <2>5, <2>6 DEF Calls
  <2> QED BY <1>3, <2>2, <2>7 DEF Watch, ClosedForGood
<1>4. CASE f # td[a].fd
  <2>1. conn'[f] = conn[f]
        BY <1>0, <1>1, <1>4 DEF Call
  <2>2. ~Torn(f)
    <3> SUFFICES ASSUME NEW b \in Actors, td[b].at > 0, td[b].fd = f, td[b].conn = conn[f]
                 PROVE  FALSE
        BY DEF Torn
    <3>1. td'[b] = td[b]
          BY <1>0, <1>4 DEF Call
    <3> QED BY <2>1, <3>1 DEF Sound, Torn
  <2> QED BY <1>2, <1>4, <2>1, <2>2 DEF Sound
<1> QED BY <1>3, <1>4

LEMMA WatchCalled ==
    ASSUME TypeOK, Watch, NEW a \in Actors, TeardownStep(a)
    PROVE  Watch'
<1>0. Call(a)
      BY Called
<1>1. /\ conn \in [Fds -> 0..MaxConns] /\ nconn \in Nat /\ MaxConns \in Nat
      /\ nconn' = nconn /\ td[a].at \in 1..Calls /\ td[a].fd \in Fds /\ td[a].conn \in Nat
      /\ \A b \in Actors \ {a} : td'[b] = td[b]
      BY <1>0, Constants DEF TypeOK, KernelType, Call
<1>2. /\ \/ td'[a] = td[a]
         \/ td'[a] = [fd |-> td[a].fd, conn |-> td[a].conn, at |-> td[a].at + 1]
         \/ td'[a] = Idle
      /\ \A g \in Fds : conn'[g] \in {conn[g], 0}
      BY <1>0, <1>1 DEF Call
<1>3. Numbered'
  <2>1. \A g \in Fds : conn[g] \in Nat /\ conn[g] =< nconn
        BY <1>1 DEF Watch, Numbered
  <2>2. \A g \in Fds : conn'[g] =< nconn
        BY <1>1, <1>2, <2>1
  <2>3. td[a].conn =< nconn
        BY DEF Watch, Numbered
  <2>4. td'[a].conn =< nconn
        BY <1>1, <1>2, <2>3 DEF Idle
  <2>5. \A b \in Actors : td'[b].conn =< nconn
        BY <1>1, <2>4 DEF Watch, Numbered
  <2> QED BY <1>1, <2>2, <2>5 DEF Numbered
<1>4. IdleOrNot'
  <2>1. td'[a].at = 0 => td'[a] = Idle
        BY <1>1, <1>2 DEF Watch, IdleOrNot, Calls
  <2> QED BY <1>1, <2>1 DEF Watch, IdleOrNot
<1>5. ClosedForGood'
  <2> SUFFICES ASSUME NEW b \in Actors, td'[b].at > 0, td'[b].conn # 0,
                      NEW i \in 1..(td'[b].at - 1), Script(b)[i] = "close"
               PROVE  conn'[td'[b].fd] # td'[b].conn
      BY DEF ClosedForGood
  <2>1. CASE b # a
    <3>1. td'[b] = td[b] /\ conn[td[b].fd] # td[b].conn
          BY <1>1, <2>1 DEF Watch, ClosedForGood
    <3>2. td[b].fd \in Fds
          BY <3>1 DEF TypeOK, TeardownType
    <3> QED BY <1>2, <3>1, <3>2
  <2>2. CASE b = a
    <3>1. /\ td'[a].fd = td[a].fd /\ td'[a].conn = td[a].conn /\ td[a].conn # 0
          /\ i \in 1..td[a].at
          BY <1>1, <1>2, <2>2 DEF Idle, Calls
    <3>2. CASE i = td[a].at
      <4>1. conn' = [conn EXCEPT ![td[a].fd] = 0]
            BY <1>0, <2>2, <3>2 DEF Call
      <4> QED BY <1>1, <2>2, <3>1, <4>1
    <3>3. CASE i \in 1..(td[a].at - 1)
      <4>1. conn[td[a].fd] # td[a].conn
            BY <1>1, <2>2, <3>1, <3>3 DEF Watch, ClosedForGood, Calls
      <4> QED BY <1>1, <1>2, <2>2, <3>1, <4>1
    <3> QED BY <1>1, <3>1, <3>2, <3>3 DEF Calls
  <2> QED BY <2>1, <2>2
<1>6. Watched'
  <2> SUFFICES ASSUME NEW f \in Fds, Sound(f)'
               PROVE  /\ (f = mfd' /\ mpc' = "register") \/ f \in epoll'
                      /\ (f = mfd' /\ mpc' \in {"register", "insert"}) \/ f \in beat'
      BY DEF Watched
  <2>1. f # td[a].fd /\ Sound(f)
        BY SoundBefore
  <2> QED BY <1>0, <2>1 DEF Call, Watch, Watched
<1> QED BY <1>3, <1>4, <1>5, <1>6 DEF Watch

-----------------------------------------------------------------------------
(* Every connection is watched.                                               *)

\* Steps that move no connection and no teardown.
LEMMA WatchQuiet ==
    ASSUME Watch, UNCHANGED <<conn, nconn, td, epoll, mpc, mfd>>,
           beat \subseteq beat', victims \subseteq victims'
    PROVE  Watch' /\ \A f \in Fds : Sound(f)' => Sound(f)
<1>1. Numbered' /\ IdleOrNot' /\ ClosedForGood'
      BY DEF Watch, Numbered, IdleOrNot, ClosedForGood
<1>2. \A f \in Fds : Sound(f)' => Sound(f)
      BY DEF Sound, Torn
<1>3. Watched'
      BY <1>2 DEF Watch, Watched
<1> QED BY <1>1, <1>2, <1>3 DEF Watch

\* A thread begins a teardown.
LEMMA WatchBegin ==
    ASSUME TypeOK, Watch, NEW a \in Actors, NEW f \in Fds, Begin(a, f), td[a].at = 0,
           UNCHANGED <<conn, nconn, epoll, mpc, mfd, beat, victims>>
    PROVE  Watch' /\ \A g \in Fds : Sound(g)' => Sound(g) /\ g # f
<1>1. /\ td'[a] = [fd |-> f, conn |-> conn[f], at |-> 1]
      /\ \A b \in Actors \ {a} : td'[b] = td[b]
      BY DEF Begin, TypeOK, TeardownType
<1>2. Numbered'
      BY <1>1 DEF Watch, Numbered
<1>3. IdleOrNot'
      BY <1>1 DEF Watch, IdleOrNot
<1>4. ClosedForGood'
      BY <1>1 DEF Watch, ClosedForGood
<1>5. ASSUME NEW g \in Fds, Sound(g)' PROVE Sound(g) /\ g # f
  <2>1. ~Torn(g)
    <3> SUFFICES ASSUME NEW b \in Actors, td[b].at > 0, td[b].fd = g, td[b].conn = conn[g]
                 PROVE  FALSE
        BY DEF Torn
    <3>1. td'[b] = td[b]
          BY <1>1
    <3> QED BY <1>5, <3>1 DEF Sound, Torn
  <2>2. g # f
        BY <1>1, <1>5 DEF Sound, Torn
  <2> QED BY <1>5, <2>1, <2>2 DEF Sound
<1>6. Watched'
      BY <1>5 DEF Watch, Watched
<1> QED BY <1>2, <1>3, <1>4, <1>5, <1>6 DEF Watch

\* The new connection has a number that no teardown has seen.
LEMMA WatchAccept ==
    ASSUME TypeOK, Watch, NEW f \in Fds, AcceptConn(f)
    PROVE  Watch' /\ \A g \in Fds : Sound(g)' => Sound(g) \/ (g = mfd' /\ mpc' = "register")
<1>1. /\ conn \in [Fds -> Nat] /\ nconn \in Nat /\ \A a \in Actors : td[a].conn \in Nat
      /\ conn' = [conn EXCEPT ![f] = nconn + 1] /\ nconn' = nconn + 1
      /\ mfd' = f /\ mpc = "idle" /\ mpc' = "register"
      /\ UNCHANGED <<td, epoll, beat, victims>>
      BY Constants DEF AcceptConn, ghostVars, TypeOK, KernelType, TeardownType
<1>2. /\ conn'[f] = nconn + 1
      /\ \A g \in Fds \ {f} : conn'[g] = conn[g]
      /\ \A a \in Actors : td[a].conn < nconn + 1 /\ td[a].conn # nconn + 1
      BY <1>1 DEF Watch, Numbered
<1>3. Numbered'
  <2>1. \A g \in Fds : conn'[g] =< nconn'
        BY <1>1, <1>2 DEF Watch, Numbered
  <2>2. \A a \in Actors : td'[a].conn =< nconn'
        BY <1>1 DEF Watch, Numbered
  <2> QED BY <2>1, <2>2 DEF Numbered
<1>4. IdleOrNot'
      BY <1>1 DEF Watch, IdleOrNot
<1>5. ClosedForGood'
  <2> SUFFICES ASSUME NEW a \in Actors, td[a].at > 0, td[a].conn # 0,
                      \E i \in 1..(td[a].at - 1) : Script(a)[i] = "close"
               PROVE  conn'[td[a].fd] # td[a].conn
      BY <1>1 DEF ClosedForGood
  <2>1. conn[td[a].fd] # td[a].conn /\ td[a].fd \in Fds
        BY DEF Watch, ClosedForGood, TypeOK, TeardownType
  <2> QED BY <1>2, <2>1
<1>6. ASSUME NEW g \in Fds, Sound(g)' PROVE Sound(g) \/ g = f
  <2>1. CASE g # f
    <3>1. conn'[g] = conn[g]
          BY <1>2, <2>1
    <3> QED BY <1>1, <1>6, <3>1 DEF Sound, Torn
  <2> QED BY <2>1
<1>7. Watched'
  <2> SUFFICES ASSUME NEW g \in Fds, Sound(g)'
               PROVE  /\ (g = mfd' /\ mpc' = "register") \/ g \in epoll'
                      /\ (g = mfd' /\ mpc' \in {"register", "insert"}) \/ g \in beat'
      BY DEF Watched
  <2>1. CASE g = f
        BY <1>1, <2>1
  <2>2. CASE Sound(g)
        BY <1>1, <2>2 DEF Watch, Watched
  <2> QED BY <1>6, <2>1, <2>2
<1> QED BY <1>1, <1>3, <1>4, <1>5, <1>6, <1>7 DEF Watch

\* main registers the connection and makes its heartbeat entry.
LEMMA WatchMain ==
    ASSUME TypeOK, Watch, Register \/ InsertHeartbeatDetectItem \/ RefreshHeartbeat
    PROVE  Watch' /\ \A g \in Fds : Sound(g)' => Sound(g)
<1>1. UNCHANGED <<conn, nconn, td, victims>>
      BY DEF Register, InsertHeartbeatDetectItem, RefreshHeartbeat, kernelVars, ghostVars
<1>2. Numbered' /\ IdleOrNot' /\ ClosedForGood'
      BY <1>1 DEF Watch, Numbered, IdleOrNot, ClosedForGood
<1>3. \A g \in Fds : Sound(g)' => Sound(g) /\ conn[g] # 0
      BY <1>1 DEF Sound, Torn
<1>4. Watched'
      BY <1>3 DEF Watch, Watched, Register, InsertHeartbeatDetectItem, RefreshHeartbeat, kernelVars
<1> QED BY <1>2, <1>3, <1>4 DEF Watch

\* What a step may do to the sound connections, worker by worker and thread by thread.
WatchStep == Watch' /\ \A f \in Fds : Sound(f)' => Sound(f) \/ (f = mfd' /\ mpc' = "register")

LEMMA WatchWorker ==
    ASSUME TypeOK, Watch, NEW w \in Workers, Worker(w)
    PROVE  WatchStep
<1>1. CASE TeardownStep(w)
      BY <1>1, WatchCalled, SoundBefore DEF WatchStep, Actors
<1>2. CASE RecvError(w) \/ (Peek(w) /\ td' # td)
  <2>1. /\ Begin(w, sock[w]) /\ sock[w] \in Fds /\ td[w].at = 0 /\ w \in Actors
        /\ UNCHANGED <<conn, nconn, epoll, mpc, mfd, beat, victims>>
        BY <1>2 DEF RecvError, Peek, TypeOK, WorkerType, TeardownType, Holding, Receiving, Actors,
                    kernelVars, mainVars, ghostVars, Calls
  <2> QED BY <2>1, WatchBegin DEF WatchStep
<1>3. CASE ~TeardownStep(w) /\ ~RecvError(w) /\ ~(Peek(w) /\ td' # td)
  <2>1. /\ UNCHANGED <<conn, nconn, td, epoll, mpc, mfd>>
        /\ beat \subseteq beat' /\ victims \subseteq victims'
        BY <1>3 DEF Worker, LockQueue, FindEmpty, FindNone, CondWait, WakeUp, ClaimSock, Fetch,
                    RecvPiece, RecvNothing, InsertClientMsgBufToHash, PutMessageToQueue,
                    RemoveMsgBuf, ChangeHeartBeatPacketTime, Peek, Release, Requeue, WorkerSignal,
                    MeddleIfRobbed, kernelVars, mainVars, ghostVars
  <2> QED BY <2>1, WatchQuiet DEF WatchStep
<1> QED BY <1>1, <1>2, <1>3

LEMMA WatchCloser ==
    ASSUME TypeOK, Watch, NEW k \in Closers, Closer(k)
    PROVE  WatchStep
<1>1. CASE TeardownStep(k)
      BY <1>1, WatchCalled, SoundBefore DEF WatchStep, Actors
<1>2. ASSUME NEW f \in Fds, Expire(k, f) \/ SendFailed(k, f) \/ TimeoutSendFailed(k, f)
      PROVE  WatchStep
  <2>1. /\ Begin(k, f) /\ td[k].at = 0 /\ k \in Actors
        /\ UNCHANGED <<conn, nconn, epoll, mpc, mfd, beat, victims>>
        BY <1>2 DEF Expire, SendFailed, TimeoutSendFailed, Idle, kernelVars, mainVars, ghostVars, Actors
  <2> QED BY <2>1, WatchBegin DEF WatchStep
<1> QED BY <1>1, <1>2 DEF Closer

LEMMA WatchNext == TypeOK /\ Watch /\ [Next]_vars => WatchStep
<1> SUFFICES ASSUME TypeOK, Watch, [Next]_vars PROVE WatchStep
    OBVIOUS
<1>1. CASE Clients \/ Forward \/ EpollWait \/ MainSignal \/ (\E f \in Fds : Enqueue(f)) \/ UNCHANGED vars
  <2>1. Watch' /\ \A f \in Fds : Sound(f)' => Sound(f)
    <3>1. CASE ~MainSignal /\ ~(\E f \in Fds : Enqueue(f))
      <4>1. UNCHANGED <<conn, nconn, td, epoll, mpc, mfd, beat, victims>>
            BY <1>1, <3>1 DEF Clients, ClientSend, ClientClose, Forward, EpollWait, vars,
                              kernelVars, mainVars, ghostVars
      <4> QED BY <4>1, WatchQuiet
    <3>2. CASE MainSignal \/ (\E f \in Fds : Enqueue(f))
      <4>1. /\ UNCHANGED <<conn, nconn, td, epoll, mfd, beat, victims>>
            /\ mpc \in {"idle", "signal"}
            BY <3>2 DEF MainSignal, Enqueue, kernelVars, ghostVars
      <4>2. Numbered' /\ IdleOrNot' /\ ClosedForGood'
            BY <4>1 DEF Watch, Numbered, IdleOrNot, ClosedForGood
      <4>3. \A f \in Fds : Sound(f)' => Sound(f)
            BY <4>1 DEF Sound, Torn
      <4>4. Watched'
            BY <4>1, <4>3 DEF Watch, Watched
      <4> QED BY <4>2, <4>3, <4>4 DEF Watch
    <3> QED BY <3>1, <3>2
  <2> QED BY <2>1 DEF WatchStep
<1>2. CASE Register \/ InsertHeartbeatDetectItem \/ RefreshHeartbeat
      BY <1>2, WatchMain DEF WatchStep
<1>3. ASSUME NEW f \in Fds, AcceptConn(f) PROVE WatchStep
      BY <1>3, WatchAccept DEF WatchStep
<1>4. ASSUME NEW w \in Workers, Worker(w) PROVE WatchStep
      BY <1>4, WatchWorker
<1>5. ASSUME NEW k \in Closers, Closer(k) PROVE WatchStep
      BY <1>5, WatchCloser
<1> QED BY <1>1, <1>2, <1>3, <1>4, <1>5 DEF Next, Main

LEMMA WatchInit == Init => Watch
BY DEF Init, Watch, Numbered, IdleOrNot, ClosedForGood, Watched, Sound, Idle

LEMMA WatchAlways == Spec => []Watch
<1>1. TypeOK /\ Watch /\ [Next]_vars => Watch'
      BY WatchNext DEF WatchStep
<1> QED BY <1>1, WatchInit, TypeCorrect, PTL DEF Spec

\* Whatever the number of workers, detectors, senders and connections: a connection that
\* ProcessClientRequest has taken into its loop is registered in g_epoll_fd and has an entry
\* in g_heartbeatdetect_table, unless a thread is tearing its descriptor down or a call meant
\* for an earlier connection of the descriptor hit it.
THEOREM ConnectionsAreWatched == Spec => []EveryConnWatched
<1>1. TypeOK /\ Watch => EveryConnWatched
  <2> SUFFICES ASSUME TypeOK, Watch, NEW f \in Fds, conn[f] # 0, conn[f] \notin victims, f # mfd
               PROVE  Tearing(f) \/ (f \in epoll /\ f \in beat)
      BY DEF EveryConnWatched
  <2>1. CASE Torn(f)
        BY <2>1 DEF Torn, Tearing
  <2>2. CASE Sound(f)
        BY <2>2 DEF Watch, Watched
  <2> QED BY <2>1, <2>2 DEF Sound
<1> QED BY <1>1, WatchAlways, TypeCorrect, PTL

-----------------------------------------------------------------------------
(* Nothing is forgotten.                                                      *)

\* Taking one entry out of the queue leaves the others in it.
LEMMA WithoutKeeps ==
    ASSUME NEW q \in Seq(Fds), NEW i \in 1..Len(q), NEW j \in 1..Len(q), i # j
    PROVE  \E n \in 1..Len(Without(q, i)) : Without(q, i)[n] = q[j]
<1> DEFINE s == SubSeq(q, 1, i - 1)
           t == SubSeq(q, i + 1, Len(q))
<1>1. /\ s \in Seq(Fds) /\ Len(s) = i - 1
      /\ \A n \in 1..(i - 1) : s[n] = q[n]
      BY SubSeqProperties
<1>2. /\ t \in Seq(Fds) /\ Len(t) = Len(q) - i
      /\ \A n \in 1..(Len(q) - i) : t[n] = q[i + n]
      BY SubSeqProperties
<1> HIDE DEF s, t
<1>3. /\ Len(s \o t) = Len(q) - 1
      /\ \A n \in 1..(Len(q) - 1) : (s \o t)[n] = IF n <= i - 1 THEN s[n] ELSE t[n - (i - 1)]
  <2>1. Len(s) + Len(t) = Len(q) - 1
        BY <1>1, <1>2
  <2>2. /\ Len(s \o t) = Len(s) + Len(t)
        /\ \A n \in 1..(Len(s) + Len(t)) :
              (s \o t)[n] = IF n <= Len(s) THEN s[n] ELSE t[n - Len(s)]
        BY <1>1, <1>2, ConcatProperties, Zenon
  <2>3. Len(s) = i - 1
        BY <1>1
  <2> QED BY <2>1, <2>2, <2>3, Zenon
<1>4. CASE j < i
  <2>1. j \in 1..(Len(q) - 1) /\ j \in 1..(i - 1)
        BY <1>4
  <2>2. (s \o t)[j] = q[j]
        BY <1>1, <1>3, <2>1
  <2> QED BY <1>3, <2>1, <2>2 DEF Without, s, t
<1>5. CASE j > i
  <2>1. j - 1 \in 1..(Len(q) - 1) /\ ~(j - 1 <= i - 1) /\ (j - 1) - (i - 1) = j - i
        /\ j - i \in 1..(Len(q) - i) /\ i + (j - i) = j
        BY <1>5
  <2>2. (s \o t)[j - 1] = q[j]
        BY <1>2, <1>3, <2>1
  <2> QED BY <1>3, <2>1, <2>2 DEF Without, s, t
<1> QED BY <1>4, <1>5

\* An entry of f is in the queue as long as the entries taken out are of others.
LEMMA QueuedKeeps ==
    ASSUME TypeOK, NEW f \in Fds, Queued(f),
           \/ queue' = queue
           \/ \E g \in Fds : queue' = Append(queue, g)
           \/ \E i \in 1..Len(queue) : queue[i] # f /\ queue' = Without(queue, i)
    PROVE  Queued(f)'
<1>1. queue \in Seq(Fds)
      BY DEF TypeOK, PoolType
<1>2. PICK j \in 1..Len(queue) : queue[j] = f
      BY DEF Queued
<1>3. CASE queue' = queue
      BY <1>3 DEF Queued
<1>4. ASSUME NEW g \in Fds, queue' = Append(queue, g) PROVE Queued(f)'
  <2>1. j \in 1..Len(queue') /\ queue'[j] = f
        BY <1>1, <1>2, <1>4
  <2> QED BY <2>1 DEF Queued
<1>5. ASSUME NEW i \in 1..Len(queue), queue[i] # f, queue' = Without(queue, i) PROVE Queued(f)'
      BY <1>1, <1>2, <1>5, WithoutKeeps DEF Queued
<1> QED BY <1>3, <1>4, <1>5

\* The bytes of a buffer that somebody still refers to are kept, or grow.
Keeps(b) == bytes'[b] = bytes[b] \/ \E x : bytes'[b] = Append(bytes[b], x)

\* A worker that does not move looks as it did before.
LEMMA LookKept ==
    ASSUME TypeOK, NEW v \in Workers, NEW f \in Fds, WillLook(v, f), pc'[v] = pc[v],
           sock'[v] = sock[v], buf'[v] = buf[v], buf[v] \in Bufs => Keeps(buf[v])
    PROVE  WillLook(v, f)'
<1>1. CASE pc[v] = "insert"
  <2>1. buf[v] \in Bufs /\ Len(bytes[buf[v]]) \in Nat /\ Len(bytes[buf[v]]) >= MsgPieces
        BY <1>1 DEF WillLook, Complete, TypeOK, BufType
  <2>2. bytes[buf[v]] \in Seq((0..MaxConns) \X Nat)
        BY <2>1 DEF TypeOK, BufType
  <2>3. \A x : Len(Append(bytes[buf[v]], x)) = Len(bytes[buf[v]]) + 1
        BY <2>2
  <2>4. Len(bytes'[buf[v]]) >= MsgPieces
        BY <2>1, <2>3, Constants DEF Keeps
  <2> QED BY <1>1, <2>4 DEF WillLook, Complete
<1>2. CASE pc[v] # "insert"
      BY <1>2 DEF WillLook
<1> QED BY <1>1, <1>2

\* Nobody loses bytes that another worker refers to.
LEMMA BytesKept ==
    ASSUME TypeOK, NEW v \in Workers, buf[v] \in Bufs, buf'[v] = buf[v],
           \/ bytes' = bytes
           \/ bytes' = Remembered
           \/ \E b \in Bufs \ Referenced : bytes' = [bytes EXCEPT ![b] = <<>>]
           \/ \E b \in Bufs, x \in (0..MaxConns) \X Nat :
                 bytes' = [bytes EXCEPT ![b] = Append(@, x)]
    PROVE  Keeps(buf[v])
<1>1. bytes \in [Bufs -> Seq((0..MaxConns) \X Nat)]
      BY DEF TypeOK, BufType
<1>2. CASE bytes' = Remembered
      BY <1>2 DEF Remembered, Referenced, Keeps
<1>3. ASSUME NEW b \in Bufs \ Referenced, bytes' = [bytes EXCEPT ![b] = <<>>]
      PROVE  Keeps(buf[v])
  <2>1. b # buf[v]
        BY DEF Referenced
  <2> QED BY <1>1, <1>3, <2>1 DEF Keeps
<1>4. ASSUME NEW b \in Bufs, NEW x, bytes' = [bytes EXCEPT ![b] = Append(@, x)]
      PROVE  Keeps(buf[v])
      BY <1>1, <1>4 DEF Keeps
<1> QED BY <1>2, <1>3, <1>4 DEF Keeps

LEMMA FineKept ==
    ASSUME NEW f \in Fds, Fine(f), UNCHANGED <<mpc, mfd>>,
           unread'[f] = unread[f], fin'[f] = fin[f],
           f \in ready \cup batch => f \in ready' \cup batch',
           Queued(f) => OnItsWay(f)',
           \A v \in Workers : WillLook(v, f) => OnItsWay(f)' \/ (unread[f] = 0 /\ ~fin[f])
    PROVE  Fine(f)'
BY DEF Fine, OnItsWay

\* The workers other than w do not move in a step of w.
LEMMA OthersLook ==
    ASSUME TypeOK, NEW w \in Workers, Worker(w), NEW v \in Workers \ {w}, NEW f \in Fds,
           WillLook(v, f)
    PROVE  WillLook(v, f)'
<1>1. pc'[v] = pc[v] /\ sock'[v] = sock[v] /\ buf'[v] = buf[v]
      BY DEF Worker, LockQueue, FindEmpty, FindNone, CondWait, WakeUp, ClaimSock, Fetch,
             RecvPiece, RecvNothing, RecvError, InsertClientMsgBufToHash, PutMessageToQueue,
             RemoveMsgBuf, ChangeHeartBeatPacketTime, Peek, Release, Requeue, WorkerSignal,
             TeardownStep, DelSockEvent, DelClientSockFromQueue, DelTmpClientSock,
             DelClientMsgBuf, DeleteHeartbeatDetectItem, CloseSock, Advance,
             TypeOK, WorkerType, BufType
<1>2. \/ bytes' = bytes
      \/ bytes' = Remembered
      \/ \E b \in Bufs \ Referenced : bytes' = [bytes EXCEPT ![b] = <<>>]
      \/ \E b \in Bufs, x \in (0..MaxConns) \X Nat : bytes' = [bytes EXCEPT ![b] = Append(@, x)]
  <2>1. CASE Fetch(w)
        BY <2>1 DEF Fetch
  <2>2. CASE RecvPiece(w)
    <3>1. /\ buf[w] \in Bufs /\ conn[sock[w]] \in 0..MaxConns /\ taken[sock[w]] + 1 \in Nat
          BY <2>2, Constants DEF RecvPiece, TypeOK, KernelType, WorkerType, BufType, Holding, Receiving
    <3>2. <<conn[sock[w]], taken[sock[w]] + 1>> \in (0..MaxConns) \X Nat
          BY <3>1
    <3> QED BY <2>2, <3>1, <3>2 DEF RecvPiece
  <2>3. CASE ~Fetch(w) /\ ~RecvPiece(w)
        BY <2>3 DEF Worker, LockQueue, FindEmpty, FindNone, CondWait, WakeUp, ClaimSock,
                    RecvNothing, RecvError, InsertClientMsgBufToHash, PutMessageToQueue,
                    RemoveMsgBuf, ChangeHeartBeatPacketTime, Peek, Release, Requeue, WorkerSignal,
                    TeardownStep, DelSockEvent, DelClientSockFromQueue, DelTmpClientSock,
                    DelClientMsgBuf, DeleteHeartbeatDetectItem, CloseSock, bufVars
  <2> QED BY <2>1, <2>2, <2>3
<1>3. buf[v] \in Bufs => Keeps(buf[v])
      BY <1>1, <1>2, BytesKept
<1> QED BY <1>1, <1>3, LookKept

\* Taking a socket from the queue.
LEMMA SeenQueueing ==
    ASSUME TypeOK, NEW w \in Workers, NEW f \in Fds, Fine(f), Worker(w),
           \/ LockQueue(w) \/ FindEmpty(w) \/ FindNone(w) \/ CondWait(w) \/ WakeUp(w)
           \/ \E i \in 1..Len(queue) : ClaimSock(w, i)
    PROVE  Fine(f)'
<1>1. /\ UNCHANGED <<mpc, mfd, unread, fin, ready, batch>>
      /\ ~WillLook(w, f)
      BY DEF LockQueue, FindEmpty, FindNone, CondWait, WakeUp, ClaimSock, kernelVars, mainVars, WillLook
<1>2. \A v \in Workers : WillLook(v, f) => OnItsWay(f)'
      BY <1>1, OthersLook DEF OnItsWay
<1>3. CASE queue' = queue
  <2>1. Queued(f) => OnItsWay(f)'
        BY <1>3 DEF Queued, OnItsWay
  <2> QED BY <1>1, <1>2, <2>1, FineKept
<1>4. ASSUME NEW i \in 1..Len(queue), ClaimSock(w, i) PROVE Fine(f)'
  <2>1. Queued(f) => OnItsWay(f)'
    <3>1. CASE queue[i] = f
      <4>1. WillLook(w, f)'
            BY <1>4, <3>1 DEF ClaimSock, WillLook, TypeOK, WorkerType
      <4> QED BY <4>1 DEF OnItsWay
    <3>2. CASE queue[i] # f
          BY <1>4, <3>2, QueuedKeeps DEF ClaimSock, OnItsWay
    <3> QED BY <3>1, <3>2
  <2> QED BY <1>1, <1>2, <2>1, FineKept
<1> QED BY <1>3, <1>4 DEF LockQueue, FindEmpty, FindNone, CondWait, WakeUp, poolVars

\* Reading from the socket.
LEMMA SeenReceiving ==
    ASSUME TypeOK, NEW w \in Workers, NEW f \in Fds, Fine(f), Sound(f)', Worker(w),
           \/ Fetch(w) \/ RecvPiece(w) \/ RecvNothing(w) \/ RecvError(w)
           \/ InsertClientMsgBufToHash(w) \/ PutMessageToQueue(w) \/ RemoveMsgBuf(w)
           \/ ChangeHeartBeatPacketTime(w)
    PROVE  Fine(f)'
<1>1. /\ UNCHANGED <<mpc, mfd, fin, ready, batch, queue, sock>>
      /\ UNCHANGED unread \/ RecvPiece(w)
      BY DEF Fetch, RecvPiece, RecvNothing, RecvError, InsertClientMsgBufToHash,
             PutMessageToQueue, RemoveMsgBuf, ChangeHeartBeatPacketTime, kernelVars, mainVars, poolVars
<1>2. \A v \in Workers \ {w} : WillLook(v, f) => OnItsWay(f)'
      BY OthersLook DEF OnItsWay
<1>3. Queued(f) => OnItsWay(f)'
      BY <1>1 DEF Queued, OnItsWay
<1>4. WillLook(w, f) => WillLook(w, f)' \/ (unread[f] = 0 /\ ~fin[f])
  <2> SUFFICES ASSUME WillLook(w, f) PROVE WillLook(w, f)' \/ (unread[f] = 0 /\ ~fin[f])
      OBVIOUS
  <2>1. sock[w] = f /\ sock'[w] = f
        BY <1>1 DEF WillLook
  <2>2. pc \in [Workers -> Pcs]
        BY DEF TypeOK, WorkerType
  <2>3. CASE Fetch(w) \/ PutMessageToQueue(w) \/ RemoveMsgBuf(w) \/ ChangeHeartBeatPacketTime(w)
        BY <2>1, <2>2, <2>3 DEF Fetch, PutMessageToQueue, RemoveMsgBuf,
                                ChangeHeartBeatPacketTime, WillLook
  <2>4. CASE RecvNothing(w)
        BY <2>1, <2>4 DEF RecvNothing
  <2>5. CASE RecvError(w)
    <3>1. conn' = conn /\ Begin(w, f)
          BY <2>1, <2>5 DEF RecvError, kernelVars
    <3>2. td'[w] = [fd |-> f, conn |-> conn'[f], at |-> 1]
          BY <3>1 DEF Begin, TypeOK, TeardownType, Actors
    <3> QED BY <3>2 DEF Sound, Torn, Actors
  <2>6. CASE InsertClientMsgBufToHash(w)
        BY <2>1, <2>2, <2>6 DEF InsertClientMsgBufToHash, WillLook
  <2>7. CASE RecvPiece(w)
    <3>1. /\ bytes[buf[w]] \in Seq((0..MaxConns) \X Nat) /\ buf'[w] = buf[w] /\ buf[w] \in Bufs
          /\ \E x : bytes'[buf[w]] = Append(bytes[buf[w]], x)
          /\ pc'[w] = IF Len(bytes[buf[w]]) + 1 >= MsgPieces THEN "insert" ELSE "recv"
          BY <2>2, <2>7 DEF RecvPiece, TypeOK, BufType
    <3>2. Len(bytes'[buf'[w]]) = Len(bytes[buf[w]]) + 1
          BY <3>1
    <3>3. pc'[w] = "recv" \/ (pc'[w] = "insert" /\ Complete(buf[w])')
          BY <3>1, <3>2 DEF Complete
    <3> QED BY <2>1, <3>3 DEF WillLook
  <2> QED BY <2>3, <2>4, <2>5, <2>6, <2>7
<1>5. CASE UNCHANGED unread
      BY <1>1, <1>2, <1>3, <1>4, <1>5, FineKept DEF OnItsWay
<1>6. CASE RecvPiece(w)
  <2>1. CASE sock[w] = f
    <3>1. WillLook(w, f)
          BY <1>6, <2>1 DEF RecvPiece, WillLook
    <3>2. unread[f] > 0
          BY <1>6, <2>1 DEF RecvPiece
    <3>3. WillLook(w, f)'
          BY <1>4, <3>1, <3>2
    <3> QED BY <3>3 DEF Fine, OnItsWay
  <2>2. CASE sock[w] # f
    <3>1. unread'[f] = unread[f]
          BY <1>6, <2>2 DEF RecvPiece, TypeOK, KernelType
    <3> QED BY <1>1, <1>2, <1>3, <1>4, <3>1, FineKept DEF OnItsWay
  <2> QED BY <2>1, <2>2
<1> QED BY <1>1, <1>5, <1>6

\* Giving the socket back, or into the queue again.
LEMMA SeenReleasing ==
    ASSUME TypeOK, NEW w \in Workers, NEW f \in Fds, Fine(f), Sound(f)', Worker(w),
           Peek(w) \/ Release(w) \/ Requeue(w) \/ WorkerSignal(w)
    PROVE  Fine(f)'
<1>1. UNCHANGED <<mpc, mfd, unread, fin, ready, batch>>
      BY DEF Peek, Release, Requeue, WorkerSignal, kernelVars, mainVars
<1>2. \A v \in Workers \ {w} : WillLook(v, f) => OnItsWay(f)'
      BY OthersLook DEF OnItsWay
<1>3. Queued(f) => OnItsWay(f)'
  <2>1. queue' = queue \/ \E g \in Fds : queue' = Append(queue, g)
        BY DEF Peek, Release, Requeue, WorkerSignal, poolVars, TypeOK, WorkerType
  <2> QED BY <2>1, QueuedKeeps DEF OnItsWay
<1>4. WillLook(w, f) => OnItsWay(f)' \/ (unread[f] = 0 /\ ~fin[f])
  <2> SUFFICES ASSUME WillLook(w, f) PROVE OnItsWay(f)' \/ (unread[f] = 0 /\ ~fin[f])
      OBVIOUS
  <2>1. sock[w] = f /\ pc \in [Workers -> Pcs]
        BY DEF WillLook, TypeOK, WorkerType
  <2>2. CASE Peek(w)
    <3>1. conn' = conn /\ sock' = sock /\ unread[f] \in Nat
          BY <2>2 DEF Peek, kernelVars, TypeOK, KernelType
    <3>2. CASE pc'[w] = "releaseAgain"
          BY <2>1, <3>1, <3>2 DEF OnItsWay, WillLook
    <3>3. CASE Begin(w, f)
      <4>1. td'[w] = [fd |-> f, conn |-> conn'[f], at |-> 1]
            BY <3>1, <3>3 DEF Begin, TypeOK, TeardownType, Actors
      <4> QED BY <4>1 DEF Sound, Torn, Actors
    <3> QED BY <2>1, <2>2, <3>1, <3>2, <3>3 DEF Peek
  <2>3. CASE Release(w)
    <3>1. pc[w] = "releaseAgain" /\ pc'[w] = "requeue" /\ sock' = sock
          BY <2>1, <2>3 DEF Release, WillLook
    <3> QED BY <2>1, <3>1 DEF OnItsWay, WillLook
  <2>4. CASE Requeue(w)
    <3>1. queue' = Append(queue, f) /\ queue \in Seq(Fds)
          BY <2>1, <2>4 DEF Requeue, TypeOK, PoolType
    <3>2. Len(queue) + 1 \in 1..Len(queue') /\ queue'[Len(queue) + 1] = f
          BY <3>1
    <3> QED BY <3>2 DEF OnItsWay, Queued
  <2>5. CASE WorkerSignal(w)
        BY <2>5 DEF WorkerSignal, WillLook
  <2> QED BY <2>2, <2>3, <2>4, <2>5
<1> QED BY <1>1, <1>2, <1>3, <1>4, FineKept

\* A teardown of another descriptor takes nothing of f away.
LEMMA SeenCalled ==
    ASSUME TypeOK, Watch, NEW a \in Actors, TeardownStep(a), NEW f \in Fds, Sound(f)', Fine(f)
    PROVE  Fine(f)'
<1>1. f # td[a].fd
      BY SoundBefore
<1>2. /\ UNCHANGED <<mpc, mfd, batch>> /\ unread'[f] = unread[f] /\ fin'[f] = fin[f]
      /\ ready \subseteq ready' \cup {td[a].fd}
      BY <1>1 DEF TeardownStep, DelSockEvent, DelClientSockFromQueue, DelTmpClientSock,
             DelClientMsgBuf, DeleteHeartbeatDetectItem, CloseSock, kernelVars, mainVars,
             TypeOK, KernelType
<1>3. Queued(f) => OnItsWay(f)'
  <2>1. \/ queue' = queue
        \/ \E i \in 1..Len(queue) : queue[i] # f /\ queue' = Without(queue, i)
        BY <1>1 DEF TeardownStep, DelSockEvent, DelClientSockFromQueue, DelTmpClientSock,
             DelClientMsgBuf, DeleteHeartbeatDetectItem, CloseSock, poolVars
  <2> QED BY <2>1, QueuedKeeps DEF OnItsWay
<1>4. \A v \in Workers : WillLook(v, f) => OnItsWay(f)'
  <2> SUFFICES ASSUME NEW v \in Workers, WillLook(v, f) PROVE WillLook(v, f)'
      BY DEF OnItsWay
  <2>1. pc[v] # "teardown" /\ (v = a => td[v].at > 0)
        BY DEF WillLook, TeardownStep, DelSockEvent, DelClientSockFromQueue, DelTmpClientSock,
             DelClientMsgBuf, DeleteHeartbeatDetectItem, CloseSock, Calling
  <2>2. v # a
        BY <2>1 DEF TypeOK, TeardownType
  <2>3. pc'[v] = pc[v] /\ sock'[v] = sock[v] /\ buf' = buf
        BY <2>2 DEF TeardownStep, DelSockEvent, DelClientSockFromQueue, DelTmpClientSock,
             DelClientMsgBuf, DeleteHeartbeatDetectItem, CloseSock, Advance, TypeOK, WorkerType
  <2>4. bytes' = bytes \/ bytes' = Remembered
        BY DEF TeardownStep, DelSockEvent, DelClientSockFromQueue, DelTmpClientSock,
             DelClientMsgBuf, DeleteHeartbeatDetectItem, CloseSock, bufVars
  <2>5. buf[v] \in Bufs => Keeps(buf[v])
        BY <2>3, <2>4, BytesKept
  <2> QED BY <2>3, <2>5, LookKept
<1> QED BY <1>1, <1>2, <1>3, <1>4, FineKept

\* Steps of the clients, of main and of the consumer of g_msg_queue, and the beginning of a
\* teardown: the workers do not move.
LEMMA StillLook ==
    ASSUME TypeOK, UNCHANGED <<pc, sock, buf>>, bytes' = bytes \/ bytes' = Remembered,
           NEW v \in Workers, NEW f \in Fds, WillLook(v, f)
    PROVE  WillLook(v, f)'
<1>1. buf[v] \in Bufs => Keeps(buf[v])
      BY BytesKept
<1> QED BY <1>1, LookKept

LEMMA SeenClients ==
    ASSUME TypeOK, Watch, NEW f \in Fds, Sound(f), Fine(f), Clients
    PROVE  Fine(f)'
<1>1. UNCHANGED <<mpc, mfd, batch, queue, pc, sock, buf, bytes>> /\ ready \subseteq ready'
      BY DEF Clients, ClientSend, ClientClose, mainVars, poolVars, workerVars, bufVars
<1>2. \A v \in Workers : WillLook(v, f) => OnItsWay(f)'
      BY <1>1, StillLook DEF OnItsWay
<1>3. Queued(f) => OnItsWay(f)'
      BY <1>1 DEF Queued, OnItsWay
<1>4. CASE unread'[f] = unread[f] /\ fin'[f] = fin[f]
      BY <1>1, <1>2, <1>3, <1>4, FineKept
<1>5. CASE ~(unread'[f] = unread[f] /\ fin'[f] = fin[f])
  <2>1. ClientSend(f) \/ ClientClose(f)
        BY <1>5 DEF Clients, ClientSend, ClientClose, TypeOK, KernelType
  <2>2. f \in epoll => f \in ready'
        BY <2>1 DEF ClientSend, ClientClose
  <2>3. (f = mfd /\ mpc = "register") \/ f \in epoll
        BY DEF Watch, Watched
  <2> QED BY <1>1, <2>2, <2>3 DEF Fine, OnItsWay
<1> QED BY <1>4, <1>5

LEMMA SeenMain ==
    ASSUME TypeOK, NEW f \in Fds, Sound(f), Fine(f), Sound(f)', Main
    PROVE  Fine(f)'
<1>1. UNCHANGED <<pc, sock, buf, bytes, unread, fin>>
      BY DEF Main, EpollWait, MainSignal, Register, InsertHeartbeatDetectItem, RefreshHeartbeat,
             Enqueue, AcceptConn, kernelVars, workerVars, bufVars
<1>2. \A v \in Workers : WillLook(v, f) => OnItsWay(f)'
      BY <1>1, StillLook DEF OnItsWay
<1>3. Queued(f) => Queued(f)'
  <2>1. queue' = queue \/ \E g \in Fds : queue' = Append(queue, g)
        BY DEF Main, EpollWait, MainSignal, Register, InsertHeartbeatDetectItem, RefreshHeartbeat,
               Enqueue, AcceptConn, poolVars
  <2> QED BY <2>1, QueuedKeeps
<1>4. f \in ready \cup batch => OnItsWay(f)'
  <2>1. CASE \E g \in Fds : Enqueue(g) /\ g = f
    <3>1. queue' = Append(queue, f) /\ queue \in Seq(Fds)
          BY <2>1 DEF Enqueue, TypeOK, PoolType
    <3>2. Len(queue) + 1 \in 1..Len(queue') /\ queue'[Len(queue) + 1] = f
          BY <3>1
    <3> QED BY <3>2 DEF OnItsWay, Queued
  <2>2. CASE ~\E g \in Fds : Enqueue(g) /\ g = f
    <3>1. f \in ready \cup batch => f \in ready' \cup batch'
          BY <2>2 DEF Main, EpollWait, MainSignal, Register, InsertHeartbeatDetectItem,
                      RefreshHeartbeat, Enqueue, AcceptConn, kernelVars
    <3> QED BY <3>1 DEF OnItsWay
  <2> QED BY <2>1, <2>2
<1>5. OnItsWay(f) => OnItsWay(f)'
      BY <1>2, <1>3, <1>4 DEF OnItsWay
<1>6. CASE f = mfd /\ mpc = "register"
  <2>1. Register /\ conn[mfd] # 0
        BY <1>6 DEF Main, EpollWait, MainSignal, Register, InsertHeartbeatDetectItem,
                    RefreshHeartbeat, Enqueue, AcceptConn, Sound
  <2>2. unread[f] = 0 \/ unread[f] > 0
        BY DEF TypeOK, KernelType
  <2> QED BY <1>1, <1>6, <2>1, <2>2 DEF Register, Fine, OnItsWay
<1>7. CASE ~(f = mfd /\ mpc = "register")
      BY <1>1, <1>5, <1>7 DEF Fine
<1> QED BY <1>6, <1>7

LEMMA SeenOthers ==
    ASSUME TypeOK, NEW f \in Fds, Fine(f),
           \/ Forward \/ UNCHANGED vars
           \/ \E k \in Closers, g \in Fds : Expire(k, g) \/ SendFailed(k, g) \/ TimeoutSendFailed(k, g)
    PROVE  Fine(f)'
<1>1. /\ UNCHANGED <<mpc, mfd, batch, queue, pc, sock, buf, ready, unread, fin>>
      /\ bytes' = bytes \/ bytes' = Remembered
      BY DEF Forward, Expire, SendFailed, TimeoutSendFailed, vars, kernelVars, mainVars, poolVars,
             workerVars, bufVars
<1>2. \A v \in Workers : WillLook(v, f) => OnItsWay(f)'
      BY <1>1, StillLook DEF OnItsWay
<1>3. Queued(f) => OnItsWay(f)'
      BY <1>1 DEF Queued, OnItsWay
<1> QED BY <1>1, <1>2, <1>3, FineKept

LEMMA SeenNext == TypeOK /\ Watch /\ Seen /\ [Next]_vars => Seen'
<1> SUFFICES ASSUME TypeOK, Watch, Seen, [Next]_vars, NEW f \in Fds, Sound(f)' PROVE Fine(f)'
    BY DEF Seen
<1>1. Sound(f) \/ (f = mfd' /\ mpc' = "register")
      BY WatchNext DEF WatchStep
<1>2. CASE f = mfd' /\ mpc' = "register"
      BY <1>2 DEF Fine
<1>3. CASE Sound(f)
  <2>1. Fine(f)
        BY <1>3 DEF Seen
  <2>2. ASSUME NEW a \in Actors, TeardownStep(a) PROVE Fine(f)'
        BY <2>1, <2>2, SeenCalled
  <2>3. ASSUME NEW w \in Workers, Worker(w) PROVE Fine(f)'
        BY <2>1, <2>2, <2>3, SeenQueueing, SeenReceiving, SeenReleasing DEF Worker, Actors
  <2>4. ASSUME NEW k \in Closers, Closer(k) PROVE Fine(f)'
        BY <2>1, <2>2, <2>4, SeenOthers DEF Closer, Actors
  <2>5. CASE Clients
        BY <1>3, <2>1, <2>5, SeenClients
  <2>6. CASE Main
        BY <1>3, <2>1, <2>6, SeenMain
  <2> QED BY <2>1, <2>3, <2>4, <2>5, <2>6, SeenOthers DEF Next
<1> QED BY <1>1, <1>2, <1>3

\* Whatever the number of workers, detectors, senders and connections: what a client sent, or
\* that it hung up, is reported by epoll, in g_clientsocket_queue or in the hands of a worker
\* that will still look at the socket, unless a thread is tearing the descriptor down or a
\* call meant for an earlier connection of the descriptor hit this one.
THEOREM NothingIsForgotten == Spec => []NothingForgotten
<1>1. Init => Seen
      BY DEF Init, Seen, Sound
<1>2. TypeOK /\ Watch /\ Seen /\ [Next]_vars => Seen'
      BY SeenNext
<1>3. TypeOK /\ Seen => NothingForgotten
  <2> SUFFICES ASSUME TypeOK, Seen, NEW f \in Fds, conn[f] # 0, conn[f] \notin victims, f # mfd,
                      unread[f] > 0 \/ fin[f]
               PROVE  Tearing(f) \/ OnItsWay(f)
      BY DEF NothingForgotten, OnItsWay, Queued
  <2>1. CASE Torn(f)
        BY <2>1 DEF Torn, Tearing
  <2>2. CASE Sound(f)
        BY <2>2 DEF Seen, Fine
  <2> QED BY <2>1, <2>2 DEF Sound
<1> QED BY <1>1, <1>2, <1>3, WatchAlways, TypeCorrect, PTL DEF Spec

-----------------------------------------------------------------------------
(* The buffers.                                                               *)

\* A worker has a buffer in these states only.
Filling == {"recv", "insert", "put"}

InMsgs(b) == \E i \in 1..Len(msgs) : msgs[i] = b

\* A buffer that is allocated and that nobody else is going to free.
Safe(b) == b \in live /\ ~InMsgs(b)

\* Buffers are held while a message is received; a new one is not in the table.
OnlyFilling ==
    \A w \in Workers : /\ buf[w] # None => pc[w] \in Filling
                       /\ isnew[w] => buf[w] # None /\ pc[w] # "put"

\* A buffer a worker has just allocated is its own.
NewIsOwn ==
    \A w \in Workers : isnew[w] =>
        /\ Safe(buf[w])
        /\ \A f \in Fds : store[f] # buf[w]
        /\ \A v \in Workers \ {w} : buf[v] # buf[w]

\* A buffer belongs to one descriptor.
OneSocket ==
    /\ \A f, g \in Fds : (store[f] # None /\ store[f] = store[g]) => f = g
    /\ \A w \in Workers, f \in Fds : (buf[w] # None /\ store[f] = buf[w]) => f = sock[w]
    /\ \A v, w \in Workers : (buf[v] # None /\ buf[v] = buf[w]) => sock[v] = sock[w]

\* A buffer that is in the table, or was found there, holds a part of a message.
NotEmpty ==
    /\ \A f \in Fds : store[f] # None => bytes[store[f]] # <<>>
    /\ \A w \in Workers : (buf[w] # None /\ (~isnew[w] \/ pc[w] # "recv")) => bytes[buf[w]] # <<>>

\* What the table holds is safe, unless a worker is about to take it out.
TableSafe ==
    \A f \in Fds :
        (store[f] # None /\ \A v \in Workers : ~(pc[v] = "remove" /\ sock[v] = f)) => Safe(store[f])

\* What a worker that is alone has found in the table is safe.
FoundSafe == \A w \in Workers : (buf[w] # None /\ ~isnew[w] /\ Alone(w)) => Safe(buf[w])

Buffers == OnlyFilling /\ NewIsOwn /\ OneSocket /\ NotEmpty /\ TableSafe /\ FoundSafe

\* A worker that is alone after a step, in the same hold of its socket, was so before.
LEMMA AloneBefore ==
    ASSUME TypeOK, [Next]_vars, NEW w \in Workers, pc[w] \in Holding, pc'[w] \in Holding,
           sock'[w] = sock[w], Alone(w)'
    PROVE  Alone(w)
<1>1. ASSUME NEW v \in Workers, Worker(v), ~TeardownStep(v), v # w PROVE Alone(w)
  <2>1. \A u \in Workers \ {v} : pc'[u] = pc[u] /\ sock'[u] = sock[u] /\ td'[u] = td[u]
        BY <1>1 DEF Worker, LockQueue, FindEmpty, FindNone, CondWait, WakeUp, ClaimSock, Fetch,
             RecvPiece, RecvNothing, RecvError, InsertClientMsgBufToHash, PutMessageToQueue,
             RemoveMsgBuf, ChangeHeartBeatPacketTime, Peek, Release, Requeue, WorkerSignal,
             Begin, TypeOK, WorkerType, TeardownType, Actors
  <2>2. \A u \in Workers \ {v, w} : HoldsClaim(u, sock[w]) => HoldsClaim(u, sock[w])'
        BY <2>1 DEF HoldsClaim
  <2>3. w \in robbed => w \in robbed'
        BY <1>1 DEF Worker, LockQueue, FindEmpty, FindNone, CondWait, WakeUp, ClaimSock, Fetch,
             RecvPiece, RecvNothing, RecvError, InsertClientMsgBufToHash, PutMessageToQueue,
             RemoveMsgBuf, ChangeHeartBeatPacketTime, Peek, Release, Requeue, WorkerSignal,
             Rob, ghostVars
  <2>4. ~HoldsClaim(v, sock[w])
    <3> SUFFICES ASSUME HoldsClaim(v, sock[w]) PROVE FALSE
        OBVIOUS
    <3>1. sock[v] = sock[w] /\ (pc[v] \in Holding \/ pc[v] = "teardown")
          BY DEF HoldsClaim
    <3>2. ~HoldsClaim(v, sock[w])'
          BY <1>1 DEF Alone
    <3>3. CASE Release(v)
          BY <1>1, <3>1, <3>3 DEF Release, Rob, Alone
    <3>4. CASE pc'[v] = "teardown" /\ Begin(v, sock[v]) /\ sock' = sock
      <4>1. td'[v].at = 1
            BY <3>4 DEF Begin, TypeOK, TeardownType, Actors
      <4>2. \E i \in 1..Calls : WorkerScript[i] = "claim"
            BY ClaimPending DEF Calls
      <4> QED BY <3>1, <3>2, <3>4, <4>1, <4>2 DEF HoldsClaim
    <3>5. CASE pc'[v] \in Holding /\ sock'[v] = sock[v]
          BY <3>1, <3>2, <3>5 DEF HoldsClaim
    <3>6. pc[v] \in Pcs
          BY DEF TypeOK, WorkerType
    <3> QED BY <1>1, <3>1, <3>3, <3>4, <3>5, <3>6 DEF Worker, LockQueue, FindEmpty, FindNone,
             CondWait, WakeUp, ClaimSock, Fetch,
             RecvPiece, RecvNothing, RecvError, InsertClientMsgBufToHash, PutMessageToQueue,
             RemoveMsgBuf, ChangeHeartBeatPacketTime, Peek, Requeue, WorkerSignal,
             Holding, Receiving, TypeOK, WorkerType
  <2> QED BY <1>1, <2>2, <2>3, <2>4 DEF Alone
<1>2. ASSUME Worker(w), ~TeardownStep(w) PROVE Alone(w)
  <2>1. \A u \in Workers \ {w} : HoldsClaim(u, sock[w]) => HoldsClaim(u, sock[w])'
        BY <1>2 DEF Worker, LockQueue, FindEmpty, FindNone, CondWait, WakeUp, ClaimSock, Fetch,
             RecvPiece, RecvNothing, RecvError, InsertClientMsgBufToHash, PutMessageToQueue,
             RemoveMsgBuf, ChangeHeartBeatPacketTime, Peek, Release, Requeue, WorkerSignal,
             Begin, TypeOK, WorkerType, TeardownType, Actors, HoldsClaim
  <2>2. w \in robbed => w \in robbed'
        BY <1>2 DEF Worker, LockQueue, FindEmpty, FindNone, CondWait, WakeUp, ClaimSock, Fetch,
             RecvPiece, RecvNothing, RecvError, InsertClientMsgBufToHash, PutMessageToQueue,
             RemoveMsgBuf, ChangeHeartBeatPacketTime, Peek, Release, Requeue, WorkerSignal,
             ghostVars, Holding, Receiving, TypeOK, WorkerType
  <2> QED BY <1>2, <2>1, <2>2 DEF Alone
<1>3. ASSUME NEW a \in Actors, TeardownStep(a) PROVE Alone(w)
  <2>1. Call(a) /\ w # a
    <3>1. Call(a)
          BY <1>3, Called
    <3>2. w # a
          BY <3>1 DEF Call, TypeOK, TeardownType, Holding, Receiving, Calls
    <3> QED BY <3>1, <3>2
  <2>2. w \in robbed => w \in robbed'
        BY <1>3 DEF TeardownStep, DelSockEvent, DelClientSockFromQueue, DelTmpClientSock,
             DelClientMsgBuf, DeleteHeartbeatDetectItem, CloseSock, Rob
  <2>3. \A u \in Workers \ {a} : pc'[u] = pc[u] /\ sock'[u] = sock[u] /\ td'[u] = td[u]
        BY <1>3, <2>1 DEF Call, TeardownStep, DelSockEvent, DelClientSockFromQueue, DelTmpClientSock,
             DelClientMsgBuf, DeleteHeartbeatDetectItem, CloseSock, Advance, TypeOK, WorkerType, Actors
  <2>4. \A u \in Workers \ {a} : HoldsClaim(u, sock[w]) => HoldsClaim(u, sock[w])'
        BY <2>3 DEF HoldsClaim
  <2>5. CASE a \notin Workers
        BY <1>3, <2>2, <2>4, <2>5 DEF Alone
  <2>6. CASE a \in Workers
    <3>1. /\ pc[a] = "teardown" /\ td[a].fd = sock[a] /\ td[a].at \in 1..Calls
          BY <2>1, <2>6 DEF Call, TypeOK, TeardownType, Calls
    <3>2. HoldsClaim(a, sock[w]) => HoldsClaim(a, sock[w])'
      <4> SUFFICES ASSUME HoldsClaim(a, sock[w]), ~HoldsClaim(a, sock[w])' PROVE FALSE
          OBVIOUS
      <4>1. sock[a] = sock[w] /\ td[a].at <= 3
            BY <2>6, <3>1, ClaimPending DEF HoldsClaim, Holding, Receiving, Calls
      <4>2. CASE td[a].at = 3
        <5>1. Script(a)[td[a].at] = "claim"
              BY <2>6, <4>2, ClaimPending DEF Calls
        <5>2. robbed' = Rob(a, td[a].fd)
              BY <1>3, <5>1 DEF TeardownStep, DelSockEvent, DelClientSockFromQueue,
                 DelTmpClientSock, DelClientMsgBuf, DeleteHeartbeatDetectItem, CloseSock, Calling
        <5> QED BY <2>1, <3>1, <4>1, <5>2, <1>3 DEF Rob, Alone
      <4>3. CASE td[a].at < 3
        <5>1. pc'[a] = pc[a] /\ sock'[a] = sock[a] /\ td'[a].at \in {td[a].at, td[a].at + 1}
              BY <1>3, <2>6, <3>1, <4>3 DEF TeardownStep, DelSockEvent, DelClientSockFromQueue,
                 DelTmpClientSock, DelClientMsgBuf, DeleteHeartbeatDetectItem, CloseSock, Advance,
                 Calls, TypeOK, TeardownType
        <5>2. \E i \in td'[a].at..Calls : WorkerScript[i] = "claim"
              BY <2>6, <3>1, <4>3, <5>1, ClaimPending DEF Calls
        <5> QED BY <3>1, <4>1, <5>1, <5>2 DEF HoldsClaim
      <4> QED BY <3>1, <4>1, <4>2, <4>3 DEF Calls
    <3> QED BY <1>3, <2>2, <2>4, <3>2 DEF Alone
  <2> QED BY <2>5, <2>6
<1>4. CASE ~(\E v \in Workers : Worker(v)) /\ ~(\E a \in Actors : TeardownStep(a))
  <2>1. \A u \in Workers : pc'[u] = pc[u] /\ sock'[u] = sock[u] /\ td'[u] = td[u]
    <3>1. CASE \E k \in Closers, f \in Fds : Expire(k, f) \/ SendFailed(k, f) \/ TimeoutSendFailed(k, f)
          BY <3>1, Constants DEF Expire, SendFailed, TimeoutSendFailed, Begin, workerVars, TypeOK, TeardownType
    <3>2. CASE ~\E k \in Closers, f \in Fds : Expire(k, f) \/ SendFailed(k, f) \/ TimeoutSendFailed(k, f)
          BY <1>4, <3>2 DEF Next, Clients, ClientSend, ClientClose, Main, EpollWait, MainSignal,
             Register, InsertHeartbeatDetectItem, RefreshHeartbeat, Enqueue, AcceptConn, Forward,
             Closer, vars, workerVars, Actors
    <3> QED BY <3>1, <3>2
  <2>2. robbed' = robbed
        BY <1>4 DEF Next, Clients, ClientSend, ClientClose, Main, EpollWait, MainSignal,
             Register, InsertHeartbeatDetectItem, RefreshHeartbeat, Enqueue, AcceptConn, Forward,
             Closer, Expire, SendFailed, TimeoutSendFailed, vars, ghostVars, Actors
  <2>3. \A u \in Workers : HoldsClaim(u, sock[w]) => HoldsClaim(u, sock[w])'
        BY <2>1 DEF HoldsClaim
  <2> QED BY <2>2, <2>3 DEF Alone
<1> QED BY <1>1, <1>2, <1>3, <1>4 DEF Actors

\* Steps that touch no buffer, and in which nobody who has one moves.
LEMMA BuffersQuiet ==
    ASSUME TypeOK, Buffers, [Next]_vars, UNCHANGED <<buf, isnew, bufVars>>,
           \A v \in Workers : pc[v] \in Filling \cup {"remove"} => pc'[v] = pc[v] /\ sock'[v] = sock[v]
    PROVE  Buffers'
<1>1. OnlyFilling' /\ NewIsOwn'
      BY DEF Buffers, OnlyFilling, NewIsOwn, Safe, InMsgs, bufVars
<1>2. \A v \in Workers : buf[v] # None => pc'[v] = pc[v] /\ sock'[v] = sock[v] /\ pc[v] \in Holding
      BY DEF Buffers, OnlyFilling, Filling, Holding, Receiving
<1>3. OneSocket'
      BY <1>2 DEF Buffers, OneSocket, bufVars
<1>4. NotEmpty'
      BY <1>2 DEF Buffers, NotEmpty, bufVars
<1>5. TableSafe'
      BY DEF Buffers, TableSafe, Safe, InMsgs, bufVars
<1>6. FoundSafe'
  <2> SUFFICES ASSUME NEW w \in Workers, buf[w] # None, ~isnew[w], Alone(w)' PROVE Safe(buf[w])
      BY DEF FoundSafe, Safe, InMsgs, bufVars
  <2>1. Alone(w)
        BY <1>2, AloneBefore
  <2> QED BY <2>1 DEF Buffers, FoundSafe
<1> QED BY <1>1, <1>3, <1>4, <1>5, <1>6 DEF Buffers

LEMMA BuffersUntouched ==
    ASSUME TypeOK, Buffers, [Next]_vars,
           \/ Clients \/ Main \/ UNCHANGED vars
           \/ \E k \in Closers, g \in Fds : Expire(k, g) \/ SendFailed(k, g) \/ TimeoutSendFailed(k, g)
           \/ \E w \in Workers :
                \/ LockQueue(w) \/ FindEmpty(w) \/ FindNone(w) \/ CondWait(w) \/ WakeUp(w)
                \/ \E i \in 1..Len(queue) : ClaimSock(w, i)
                \/ ChangeHeartBeatPacketTime(w) \/ Peek(w) \/ Release(w) \/ Requeue(w) \/ WorkerSignal(w)
           \/ \E a \in Actors : TeardownStep(a) /\ ~DelClientMsgBuf(a)
    PROVE  Buffers'
<1>1. CASE \E w \in Workers :
                \/ LockQueue(w) \/ FindEmpty(w) \/ FindNone(w) \/ CondWait(w) \/ WakeUp(w)
                \/ \E i \in 1..Len(queue) : ClaimSock(w, i)
                \/ ChangeHeartBeatPacketTime(w) \/ Peek(w) \/ Release(w) \/ Requeue(w) \/ WorkerSignal(w)
  <2>1. /\ UNCHANGED <<buf, isnew, bufVars>>
        /\ \A v \in Workers :
              pc[v] \in Filling \cup {"remove"} => pc'[v] = pc[v] /\ sock'[v] = sock[v]
        BY <1>1 DEF LockQueue, FindEmpty, FindNone, CondWait, WakeUp, ClaimSock,
             ChangeHeartBeatPacketTime, Peek, Release, Requeue, WorkerSignal, Filling, TypeOK, WorkerType
  <2> QED BY <2>1, BuffersQuiet
<1>2. CASE \E a \in Actors : TeardownStep(a) /\ ~DelClientMsgBuf(a)
  <2>1. PICK a \in Actors : TeardownStep(a) /\ ~DelClientMsgBuf(a)
        BY <1>2
  <2>2. UNCHANGED <<buf, isnew, bufVars>> /\ td[a].at > 0
        BY <2>1 DEF TeardownStep, DelSockEvent, DelClientSockFromQueue, DelTmpClientSock,
             DeleteHeartbeatDetectItem, CloseSock, Calling
  <2>3. \A v \in Workers \ {a} : pc'[v] = pc[v] /\ sock'[v] = sock[v]
        BY <2>1 DEF TeardownStep, DelSockEvent, DelClientSockFromQueue, DelTmpClientSock,
             DeleteHeartbeatDetectItem, CloseSock, Advance, TypeOK, WorkerType
  <2>4. a \in Workers => pc[a] = "teardown"
        BY <2>2 DEF TypeOK, TeardownType
  <2> QED BY <2>2, <2>3, <2>4, BuffersQuiet DEF Filling
<1>3. CASE \/ Clients \/ Main \/ UNCHANGED vars
           \/ \E k \in Closers, g \in Fds : Expire(k, g) \/ SendFailed(k, g) \/ TimeoutSendFailed(k, g)
  <2>1. UNCHANGED <<buf, isnew, bufVars, pc, sock>>
        BY <1>3 DEF Clients, ClientSend, ClientClose, Main, EpollWait, MainSignal, Register,
             InsertHeartbeatDetectItem, RefreshHeartbeat, Enqueue, AcceptConn, Expire, SendFailed,
             TimeoutSendFailed, vars, workerVars
  <2> QED BY <2>1, BuffersQuiet
<1> QED BY <1>1, <1>2, <1>3

\* A worker looks for a buffer in the table, or allocates one.
LEMMA BuffersFetch ==
    ASSUME TypeOK, Buffers, [Next]_vars, NEW w \in Workers, Fetch(w)
    PROVE  Buffers'
<1>1. /\ buf[w] = None /\ ~isnew[w] /\ pc[w] = "fetch" /\ sock[w] \in Fds
      /\ UNCHANGED <<sock, store, msgs>> /\ pc'[w] = "recv" /\ pc'[w] \in Holding
      /\ \A v \in Workers \ {w} : pc'[v] = pc[v] /\ buf'[v] = buf[v] /\ isnew'[v] = isnew[v]
      /\ isnew'[w] \in BOOLEAN
      BY DEF Fetch, Buffers, OnlyFilling, Filling, TypeOK, WorkerType, BufType, Holding, Receiving
<1>2. \A v \in Workers \ {w} : (buf[v] # None /\ Alone(v)') => Alone(v)
      BY <1>1, AloneBefore DEF Buffers, OnlyFilling, Filling, Holding, Receiving
<1>3. CASE store[sock[w]] # None
  <2>1. /\ buf'[w] = store[sock[w]] /\ buf'[w] # None /\ ~isnew'[w] /\ UNCHANGED <<live, bytes>>
        BY <1>3 DEF Fetch, TypeOK, BufType, WorkerType
  <2>2. OnlyFilling'
        BY <1>1, <2>1 DEF Buffers, OnlyFilling, Filling
  <2>3. NewIsOwn'
        BY <1>1, <2>1 DEF Buffers, NewIsOwn, Safe, InMsgs
  <2>4. OneSocket'
        BY <1>1, <2>1 DEF Buffers, OneSocket
  <2>5. NotEmpty'
        BY <1>1, <2>1 DEF Buffers, NotEmpty
  <2>6. TableSafe'
        BY <1>1, <2>1 DEF Buffers, TableSafe, Safe, InMsgs
  <2>7. FoundSafe'
    <3> SUFFICES ASSUME NEW v \in Workers, buf'[v] # None, ~isnew'[v], Alone(v)' PROVE Safe(buf[v])'
        BY DEF FoundSafe
    <3>1. CASE v # w
          BY <1>1, <1>2, <2>1, <3>1 DEF Buffers, FoundSafe, Safe, InMsgs
    <3>2. CASE v = w
      <4>1. Alone(w)
            BY <1>1, <3>2, AloneBefore DEF Holding, Receiving
      <4>2. \A u \in Workers : ~(pc[u] = "remove" /\ sock[u] = sock[w])
            BY <1>1, <4>1 DEF Alone, HoldsClaim, Holding, Receiving
      <4> QED BY <1>1, <1>3, <2>1, <3>2, <4>2 DEF Buffers, TableSafe, Safe, InMsgs
    <3> QED BY <3>1, <3>2
  <2> QED BY <2>2, <2>3, <2>4, <2>5, <2>6, <2>7 DEF Buffers
<1>4. CASE store[sock[w]] = None
  <2>1. PICK b \in Bufs : /\ b \notin live \cup Referenced /\ buf'[w] = b /\ isnew'[w]
                          /\ live' = live \cup {b} /\ bytes' = [bytes EXCEPT ![b] = <<>>]
        BY <1>4 DEF Fetch, TypeOK, BufType
  <2>2. /\ \A v \in Workers : buf[v] # b
        /\ \A f \in Fds : store[f] # b
        /\ ~InMsgs(b) /\ b # None
        BY <2>1, Constants DEF Referenced, InMsgs
  <2>3. \A c \in Bufs \ {b} : bytes'[c] = bytes[c] /\ (Safe(c) => Safe(c)')
        BY <1>1, <2>1 DEF TypeOK, BufType, Safe, InMsgs
  <2>4. /\ \A v \in Workers \ {w} : buf[v] # None => buf[v] \in Bufs \ {b}
        /\ \A f \in Fds : store[f] # None => store[f] \in Bufs \ {b}
        BY <2>2 DEF TypeOK, BufType
  <2>5. OnlyFilling'
        BY <1>1, <2>1, <2>2 DEF Buffers, OnlyFilling, Filling
  <2>6. NewIsOwn'
    <3>1. Safe(b)'
          BY <1>1, <2>1, <2>2 DEF Safe, InMsgs
    <3>2. \A v \in Workers \ {w} : isnew[v] => buf[v] # None
          BY DEF Buffers, OnlyFilling
    <3> QED BY <1>1, <2>1, <2>2, <2>3, <2>4, <3>1, <3>2 DEF Buffers, NewIsOwn
  <2>7. OneSocket'
        BY <1>1, <2>1, <2>2 DEF Buffers, OneSocket
  <2>8. NotEmpty'
        BY <1>1, <2>1, <2>3, <2>4 DEF Buffers, NotEmpty
  <2>9. TableSafe'
        BY <1>1, <2>3, <2>4 DEF Buffers, TableSafe
  <2>10. FoundSafe'
        BY <1>1, <1>2, <2>1, <2>3, <2>4 DEF Buffers, FoundSafe
  <2> QED BY <2>5, <2>6, <2>7, <2>8, <2>9, <2>10 DEF Buffers
<1> QED BY <1>3, <1>4

\* What is left of the contents of a buffer that somebody refers to after the step.
LEMMA Rest ==
    ASSUME TypeOK, bytes' = bytes \/ bytes' = Remembered
    PROVE  /\ \A v \in Workers : buf'[v] \in Bufs => bytes'[buf'[v]] = bytes[buf'[v]]
           /\ \A f \in Fds : store'[f] \in Bufs => bytes'[store'[f]] = bytes[store'[f]]
<1>1. CASE bytes' = Remembered
      BY <1>1 DEF Remembered, Referenced
<1> QED BY <1>1

\* Reading a piece frees nothing.
LEMMA BuffersRecvPiece ==
    ASSUME TypeOK, Buffers, [Next]_vars, NEW w \in Workers, RecvPiece(w)
    PROVE  Buffers'
<1>1. /\ UNCHANGED <<buf, isnew, store, live, msgs, sock>> /\ pc[w] = "recv"
      /\ pc'[w] \in {"insert", "recv"} /\ buf[w] \in Bufs /\ pc'[w] \in Holding
      /\ \A v \in Workers \ {w} : pc'[v] = pc[v]
      BY DEF RecvPiece, TypeOK, WorkerType, BufType, Holding, Receiving
<1>2. /\ bytes'[buf[w]] # <<>>
      /\ \A b \in Bufs \ {buf[w]} : bytes'[b] = bytes[b]
  <2>1. PICK x : bytes' = [bytes EXCEPT ![buf[w]] = Append(@, x)]
        BY DEF RecvPiece
  <2>2. bytes[buf[w]] \in Seq((0..MaxConns) \X Nat) /\ buf[w] \in DOMAIN bytes
        BY <1>1 DEF TypeOK, BufType
  <2>3. Append(bytes[buf[w]], x) # <<>>
        BY <2>2
  <2> QED BY <2>1, <2>2, <2>3 DEF TypeOK, BufType
<1>3. \A v \in Workers : (buf[v] # None /\ Alone(v)') => Alone(v)
      BY <1>1, AloneBefore DEF Buffers, OnlyFilling, Filling, Holding, Receiving
<1>4. OnlyFilling'
      BY <1>1 DEF Buffers, OnlyFilling, Filling
<1>5. NewIsOwn'
      BY <1>1 DEF Buffers, NewIsOwn, Safe, InMsgs
<1>6. OneSocket'
      BY <1>1 DEF Buffers, OneSocket
<1>7. NotEmpty'
  <2>1. \A b \in Bufs : bytes[b] # <<>> => bytes'[b] # <<>>
        BY <1>2
  <2>2. \A f \in Fds : store[f] # None => store[f] \in Bufs
        BY DEF TypeOK, BufType
  <2>3. \A v \in Workers : buf[v] # None => buf[v] \in Bufs
        BY DEF TypeOK, BufType
  <2> QED BY <1>1, <1>2, <2>1, <2>2, <2>3 DEF Buffers, NotEmpty
<1>8. TableSafe'
      BY <1>1 DEF Buffers, TableSafe, Safe, InMsgs
<1>9. FoundSafe'
      BY <1>1, <1>3 DEF Buffers, FoundSafe, Safe, InMsgs
<1> QED BY <1>4, <1>5, <1>6, <1>7, <1>8, <1>9 DEF Buffers

\* A buffer that is freed by its reader is its own, and empty or new.
LEMMA BuffersGiveUp ==
    ASSUME TypeOK, Buffers, [Next]_vars, NEW w \in Workers, RecvNothing(w) \/ RecvError(w)
    PROVE  Buffers'
<1>1. /\ UNCHANGED <<store, msgs, sock>> /\ pc[w] = "recv" /\ buf[w] \in Bufs
      /\ bytes' = bytes \/ bytes' = Remembered
      /\ \A v \in Workers \ {w} : pc'[v] = pc[v] /\ buf'[v] = buf[v] /\ isnew'[v] = isnew[v]
      /\ buf'[w] \in {buf[w], None} /\ (isnew'[w] => isnew[w]) /\ (buf'[w] = None => ~isnew'[w])
      /\ pc'[w] # "remove"
  <2>0. pc[w] = "recv" /\ buf[w] \in Bufs
        BY DEF RecvNothing, RecvError, TypeOK, BufType
  <2>1. CASE RecvNothing(w)
    <3>1. UNCHANGED <<store, msgs, sock>> /\ bytes' = Remembered
          BY <2>1 DEF RecvNothing
    <3>2. CASE bytes[buf[w]] = <<>>
          BY <2>0, <2>1, <3>1, <3>2 DEF RecvNothing, TypeOK, WorkerType, BufType
    <3>3. CASE bytes[buf[w]] # <<>>
          BY <2>0, <2>1, <3>1, <3>3, Constants DEF RecvNothing, TypeOK, WorkerType, BufType
    <3> QED BY <3>2, <3>3
  <2>2. CASE RecvError(w)
        BY <2>0, <2>2 DEF RecvError, bufVars, TypeOK, WorkerType, BufType
  <2> QED BY <2>1, <2>2
<1>2. buf'[w] = buf[w] => /\ pc'[w] = "insert" /\ bytes[buf[w]] # <<>> /\ isnew'[w] = isnew[w]
                          /\ live' = live
      BY Constants, <1>1 DEF RecvNothing, RecvError, TypeOK, WorkerType, BufType
<1>3. live' = live \/ (isnew[w] /\ live' = live \ {buf[w]} /\ buf'[w] = None)
  <2>1. CASE RecvNothing(w)
    <3>1. buf[w] # None
          BY <1>1, Constants
    <3>2. bytes[buf[w]] = <<>> => isnew[w]
          BY <1>1, <3>1 DEF Buffers, NotEmpty
    <3> QED BY <2>1, <3>2, <1>1 DEF RecvNothing, TypeOK, BufType
  <2>2. CASE RecvError(w)
        BY <1>1, <2>2 DEF RecvError, TypeOK, BufType
  <2> QED BY <2>1, <2>2
<1>4. \A b \in Bufs : (Safe(b) /\ (b # buf[w] \/ live' = live)) => Safe(b)'
      BY <1>1, <1>3 DEF Safe, InMsgs
<1>5. \A v \in Workers \ {w} : buf[v] # None => buf[v] \in Bufs /\ (live' = live \/ buf[v] # buf[w])
      BY <1>3 DEF Buffers, NewIsOwn, TypeOK, BufType
<1>6. \A f \in Fds : store[f] # None => store[f] \in Bufs /\ (live' = live \/ store[f] # buf[w])
      BY <1>3 DEF Buffers, NewIsOwn, TypeOK, BufType
<1>7. \A v \in Workers : (buf'[v] # None /\ Alone(v)') => Alone(v)
      BY <1>1, <1>2, AloneBefore DEF Buffers, OnlyFilling, Filling, Holding, Receiving
<1>8. OnlyFilling'
      BY <1>1, <1>2 DEF Buffers, OnlyFilling, Filling
<1>9. NewIsOwn'
  <2>1. \A v \in Workers : isnew'[v] => buf'[v] = buf[v] /\ isnew[v] /\ buf[v] # None
        BY <1>1, <1>2 DEF Buffers, OnlyFilling
  <2>2. \A v \in Workers : isnew'[v] => Safe(buf[v])'
        BY <1>1, <1>2, <1>4, <1>5, <2>1 DEF Buffers, NewIsOwn
  <2> QED BY <1>1, <2>1, <2>2, Constants DEF Buffers, NewIsOwn
<1>10. OneSocket'
      BY <1>1, Constants DEF Buffers, OneSocket
<1>11. NotEmpty'
  <2>1. \A f \in Fds : store'[f] # None => bytes'[store'[f]] # <<>>
        BY <1>1, <1>6, Rest DEF Buffers, NotEmpty
  <2>2. \A v \in Workers : buf'[v] # None => buf'[v] = buf[v] /\ bytes'[buf[v]] = bytes[buf[v]]
        BY <1>1, <1>5, Rest
  <2> QED BY <1>1, <1>2, <2>1, <2>2 DEF Buffers, NotEmpty
<1>12. TableSafe'
      BY <1>1, <1>4, <1>6 DEF Buffers, TableSafe
<1>13. FoundSafe'
      BY <1>1, <1>2, <1>4, <1>5, <1>7 DEF Buffers, FoundSafe
<1> QED BY <1>8, <1>9, <1>10, <1>11, <1>12, <1>13 DEF Buffers

\* The buffer is put into the table, or is there already.
LEMMA BuffersInsert ==
    ASSUME TypeOK, Buffers, [Next]_vars, NEW w \in Workers, InsertClientMsgBufToHash(w)
    PROVE  Buffers'
<1> DEFINE f == sock[w]
<1>1. /\ UNCHANGED <<msgs, sock>> /\ pc[w] = "insert" /\ buf[w] \in Bufs /\ f \in Fds
      /\ buf[w] # None /\ bytes[buf[w]] # <<>>
      /\ bytes' = Remembered
      /\ \A v \in Workers \ {w} : pc'[v] = pc[v] /\ buf'[v] = buf[v] /\ isnew'[v] = isnew[v]
      /\ ~isnew'[w] /\ pc'[w] \in Holding /\ pc'[w] # "remove"
      /\ \/ buf'[w] = None
         \/ buf'[w] = buf[w] /\ pc'[w] = "put"
      BY Constants DEF InsertClientMsgBufToHash, TypeOK, WorkerType, BufType, Holding, Receiving,
                       Buffers, NotEmpty
<1>2. \A v \in Workers : (buf'[v] # None /\ Alone(v)') => Alone(v)
      BY <1>1, AloneBefore DEF Buffers, OnlyFilling, Filling, Holding, Receiving
<1>3. OnlyFilling'
      BY <1>1 DEF Buffers, OnlyFilling, Filling
<1>4. CASE ~isnew[w]
  <2>1. live' = live /\ store' = store
        BY <1>4 DEF InsertClientMsgBufToHash
  <2>2. NewIsOwn'
    <3>1. \A v \in Workers : isnew'[v] => v # w /\ isnew[v] /\ buf[v] # None
          BY <1>1 DEF Buffers, OnlyFilling
    <3> QED BY <1>1, <2>1, <3>1, Constants DEF Buffers, NewIsOwn, Safe, InMsgs
  <2>3. OneSocket'
        BY <1>1, <2>1, Constants DEF Buffers, OneSocket
  <2>4. NotEmpty'
    <3>1. \A v \in Workers : buf'[v] # None => buf'[v] = buf[v] /\ buf[v] \in Bufs
          BY <1>1 DEF TypeOK, BufType
    <3>2. \A g \in Fds : store[g] # None => store[g] \in Bufs
          BY DEF TypeOK, BufType
    <3> QED BY <1>1, <2>1, <3>1, <3>2, Rest DEF Buffers, NotEmpty
  <2>5. TableSafe'
        BY <1>1, <2>1 DEF Buffers, TableSafe, Safe, InMsgs
  <2>6. FoundSafe'
        BY <1>1, <1>2, <1>4, <2>1 DEF Buffers, FoundSafe, Safe, InMsgs
  <2> QED BY <1>3, <2>2, <2>3, <2>4, <2>5, <2>6 DEF Buffers
<1>5. CASE isnew[w]
  <2>1. /\ live' = live \ ({store[f]} \ {None})
        /\ store' = [store EXCEPT ![f] = buf[w]]
        BY <1>5 DEF InsertClientMsgBufToHash
  <2>2. /\ Safe(buf[w]) /\ \A g \in Fds : store[g] # buf[w]
        /\ \A v \in Workers \ {w} : buf[v] # buf[w]
        BY <1>5 DEF Buffers, NewIsOwn
  <2>3. /\ store'[f] = buf[w] /\ \A g \in Fds \ {f} : store'[g] = store[g]
        /\ \A g \in Fds : store[g] # None => store[g] \in Bufs
        BY <1>1, <2>1 DEF TypeOK, BufType
  <2>4. \A b \in Bufs : (Safe(b) /\ b # store[f]) => Safe(b)'
        BY <1>1, <2>1 DEF Safe, InMsgs
  <2>5. NewIsOwn'
    <3>1. \A v \in Workers : isnew'[v] =>
             /\ v # w /\ isnew[v] /\ buf'[v] = buf[v] /\ buf[v] \in Bufs /\ buf[v] # None
             /\ buf[v] # store[f] /\ Safe(buf[v])
          BY <1>1 DEF Buffers, OnlyFilling, NewIsOwn, TypeOK, BufType
    <3>2. \A v \in Workers : isnew'[v] => Safe(buf[v])'
          BY <2>4, <3>1, <1>1
    <3>3. \A v \in Workers : isnew'[v] => \A g \in Fds : store'[g] # buf'[v]
          BY <2>2, <2>3, <3>1 DEF Buffers, NewIsOwn
    <3> QED BY <1>1, <3>1, <3>2, <3>3 DEF Buffers, NewIsOwn
  <2>6. OneSocket'
        BY <1>1, <2>2, <2>3, Constants DEF Buffers, OneSocket
  <2>7. NotEmpty'
    <3>1. \A v \in Workers : buf'[v] # None => buf'[v] = buf[v] /\ buf[v] \in Bufs
          BY <1>1 DEF TypeOK, BufType
    <3>2. \A g \in Fds : store'[g] # None => bytes'[store'[g]] # <<>>
          BY <1>1, <2>3, Rest DEF Buffers, NotEmpty
    <3> QED BY <1>1, <3>1, <3>2, Rest DEF Buffers, NotEmpty
  <2>8. TableSafe'
    <3>2. \A g \in Fds \ {f} : store[g] # None => store[g] # store[f]
          BY <1>1 DEF Buffers, OneSocket
    <3>4. buf[w] \in live' /\ ~InMsgs(buf[w])
          BY <1>1, <2>1, <2>2 DEF Safe
    <3>5. \A g \in Fds \ {f} : (store[g] # None /\ Safe(store[g])) => Safe(store[g])'
          BY <1>1, <2>3, <2>4, <3>2 DEF Safe, InMsgs
    <3> QED BY <1>1, <2>3, <3>2, <3>4, <3>5 DEF Buffers, TableSafe, Safe, InMsgs
  <2>9. FoundSafe'
    <3> SUFFICES ASSUME NEW v \in Workers, buf'[v] # None, ~isnew'[v], Alone(v)'
                 PROVE  Safe(buf[v])'
        BY DEF FoundSafe
    <3>1. CASE v = w
          BY <1>1, <2>2, <2>4, <3>1
    <3>2. CASE v # w
      <4>1. Safe(buf[v]) /\ buf'[v] = buf[v] /\ buf[v] \in Bufs /\ Alone(v)
            BY <1>1, <1>2, <3>2 DEF Buffers, FoundSafe, TypeOK, BufType
      <4>2. buf[v] # store[f]
        <5> SUFFICES ASSUME buf[v] = store[f] PROVE FALSE
            OBVIOUS
        <5>1. sock[v] = f
              BY <1>1, <4>1, Constants DEF Buffers, OneSocket
        <5> QED BY <1>1, <3>2, <4>1, <5>1 DEF Alone, HoldsClaim, Holding, Receiving
      <4> QED BY <1>1, <2>4, <4>1, <4>2
    <3> QED BY <3>1, <3>2
  <2> QED BY <1>3, <2>5, <2>6, <2>7, <2>8, <2>9 DEF Buffers
<1> QED BY <1>4, <1>5

\* The message goes into g_msg_queue, or is freed when that is full.
LEMMA BuffersPut ==
    ASSUME TypeOK, Buffers, [Next]_vars, NEW w \in Workers, PutMessageToQueue(w)
    PROVE  Buffers'
<1>1. /\ UNCHANGED <<sock, store, isnew>> /\ pc[w] = "put" /\ buf[w] \in Bufs /\ ~isnew[w]
      /\ sock[w] \in Fds /\ bytes' = Remembered /\ buf'[w] = None /\ pc'[w] = "remove"
      /\ \A v \in Workers \ {w} : pc'[v] = pc[v] /\ buf'[v] = buf[v]
  <2>1. pc[w] = "put" /\ buf[w] \in Bufs /\ ~isnew[w] /\ sock[w] \in Fds
        BY DEF PutMessageToQueue, TypeOK, WorkerType, BufType, Buffers, OnlyFilling, Holding, Receiving
  <2> QED BY <2>1 DEF PutMessageToQueue, TypeOK, WorkerType, BufType
<1>2. \A b \in Bufs : (Safe(b) /\ b # buf[w]) => Safe(b)'
  <2> SUFFICES ASSUME NEW b \in Bufs, Safe(b), b # buf[w] PROVE Safe(b)'
      OBVIOUS
  <2>1. msgs \in Seq(Bufs)
        BY DEF TypeOK, BufType
  <2>2. CASE msgs' = msgs
        BY <2>2 DEF Safe, InMsgs, PutMessageToQueue
  <2>3. CASE msgs' = Append(msgs, buf[w])
    <3>1. Len(msgs') = Len(msgs) + 1 /\ msgs'[Len(msgs) + 1] = buf[w]
          /\ \A i \in 1..Len(msgs) : msgs'[i] = msgs[i]
          BY <2>1, <2>3
    <3>2. live' = live \/ live' = live \ {buf[w]}
          BY DEF PutMessageToQueue
    <3> QED BY <3>1, <3>2 DEF Safe, InMsgs
  <2> QED BY <2>2, <2>3 DEF PutMessageToQueue
<1>3. \A v \in Workers : (buf'[v] # None /\ Alone(v)') => Alone(v) /\ v # w
      BY <1>1, AloneBefore DEF Buffers, OnlyFilling, Filling, Holding, Receiving
<1>4. \A v \in Workers : buf'[v] # None => v # w /\ buf'[v] = buf[v] /\ buf[v] \in Bufs
      BY <1>1 DEF TypeOK, BufType
<1>5. OnlyFilling'
      BY <1>1 DEF Buffers, OnlyFilling, Filling
<1>6. NewIsOwn'
  <2>1. \A v \in Workers : isnew'[v] => v # w /\ isnew[v] /\ buf[v] \in Bufs /\ buf[v] # buf[w]
        BY <1>1 DEF Buffers, OnlyFilling, NewIsOwn, TypeOK, BufType
  <2>2. \A v \in Workers : isnew'[v] => Safe(buf[v])'
        BY <1>1, <1>2, <2>1 DEF Buffers, NewIsOwn
  <2> QED BY <1>1, <2>1, <2>2, Constants DEF Buffers, NewIsOwn
<1>7. OneSocket'
      BY <1>1, <1>4 DEF Buffers, OneSocket
<1>8. NotEmpty'
  <2>1. \A g \in Fds : store[g] # None => store[g] \in Bufs
        BY DEF TypeOK, BufType
  <2> QED BY <1>1, <1>4, <2>1, Rest DEF Buffers, NotEmpty
<1>9. TableSafe'
  <2> SUFFICES ASSUME NEW g \in Fds, store[g] # None,
                      \A v \in Workers : ~(pc'[v] = "remove" /\ sock[v] = g)
               PROVE  Safe(store[g])'
      BY <1>1 DEF TableSafe
  <2>1. g # sock[w]
        BY <1>1
  <2>2. store[g] \in Bufs /\ store[g] # buf[w]
        BY <1>1, <2>1, Constants DEF Buffers, OneSocket, TypeOK, BufType
  <2>3. \A v \in Workers : ~(pc[v] = "remove" /\ sock[v] = g)
        BY <1>1
  <2> QED BY <1>1, <1>2, <2>2, <2>3 DEF Buffers, TableSafe
<1>10. FoundSafe'
  <2> SUFFICES ASSUME NEW v \in Workers, buf'[v] # None, ~isnew[v], Alone(v)'
               PROVE  Safe(buf[v])'
      BY <1>1 DEF FoundSafe
  <2>1. v # w /\ buf'[v] = buf[v] /\ buf[v] \in Bufs /\ Alone(v) /\ Safe(buf[v])
        BY <1>3, <1>4 DEF Buffers, FoundSafe
  <2>2. buf[v] # buf[w]
        BY <1>1, <2>1, Constants DEF Buffers, OneSocket, Alone, HoldsClaim, Holding, Receiving
  <2> QED BY <1>2, <2>1, <2>2
<1> QED BY <1>5, <1>6, <1>7, <1>8, <1>9, <1>10 DEF Buffers

\* The entry is taken out of the table, and the buffer is freed or not.
LEMMA BuffersOut ==
    ASSUME TypeOK, Buffers, [Next]_vars, NEW f \in Fds,
           UNCHANGED <<buf, isnew, msgs>>, store' = [store EXCEPT ![f] = None],
           live' = live \/ live' = live \ {store[f]}, bytes' = Remembered,
           \A v \in Workers : pc[v] \in Filling => pc'[v] = pc[v] /\ sock'[v] = sock[v],
           \A v \in Workers, g \in Fds \ {f} :
              pc[v] = "remove" /\ sock[v] = g => pc'[v] = "remove" /\ sock'[v] = g,
           live' # live => \A v \in Workers : buf[v] = store[f] => ~Alone(v)'
    PROVE  Buffers'
<1>1. /\ \A v \in Workers : buf[v] # None => /\ buf[v] \in Bufs /\ pc[v] \in Filling
                                              /\ pc[v] \in Holding /\ pc'[v] = pc[v] /\ sock'[v] = sock[v]
      /\ \A g \in Fds : store[g] # None => store[g] \in Bufs
      /\ store'[f] = None /\ \A g \in Fds \ {f} : store'[g] = store[g]
      BY DEF Buffers, OnlyFilling, TypeOK, BufType, Filling, Holding, Receiving
<1>2. \A b \in Bufs : (Safe(b) /\ b # store[f]) => Safe(b)'
      BY DEF Safe, InMsgs
<1>3. OnlyFilling'
      BY <1>1 DEF Buffers, OnlyFilling
<1>4. NewIsOwn'
  <2>1. \A v \in Workers : isnew[v] => buf[v] # None
        BY DEF Buffers, OnlyFilling
  <2>2. \A v \in Workers : isnew[v] => Safe(buf[v])'
        BY <1>1, <1>2, <2>1 DEF Buffers, NewIsOwn
  <2> QED BY <1>1, <2>1, <2>2 DEF Buffers, NewIsOwn
<1>5. OneSocket'
      BY <1>1 DEF Buffers, OneSocket
<1>6. NotEmpty'
      BY <1>1, Rest DEF Buffers, NotEmpty
<1>7. TableSafe'
  <2> SUFFICES ASSUME NEW g \in Fds, store'[g] # None,
                      \A v \in Workers : ~(pc'[v] = "remove" /\ sock'[v] = g)
               PROVE  Safe(store[g])'
      BY DEF TableSafe
  <2>1. g # f /\ store'[g] = store[g] /\ store[g] \in Bufs /\ store[g] # store[f]
        BY <1>1 DEF Buffers, OneSocket
  <2>2. \A v \in Workers : ~(pc[v] = "remove" /\ sock[v] = g)
        BY <2>1
  <2> QED BY <1>2, <2>1, <2>2 DEF Buffers, TableSafe
<1>8. FoundSafe'
  <2> SUFFICES ASSUME NEW v \in Workers, buf[v] # None, ~isnew[v], Alone(v)'
               PROVE  Safe(buf[v])'
      BY DEF FoundSafe
  <2>1. Safe(buf[v]) /\ buf[v] \in Bufs
        BY <1>1, AloneBefore DEF Buffers, FoundSafe
  <2>2. live' = live \/ buf[v] # store[f]
        OBVIOUS
  <2> QED BY <2>1, <2>2 DEF Safe, InMsgs
<1> QED BY <1>3, <1>4, <1>5, <1>6, <1>7, <1>8 DEF Buffers

LEMMA BuffersRemove ==
    ASSUME TypeOK, Buffers, [Next]_vars,
           \/ \E w \in Workers : RemoveMsgBuf(w)
           \/ \E a \in Actors : DelClientMsgBuf(a)
    PROVE  Buffers'
<1>1. ASSUME NEW w \in Workers, RemoveMsgBuf(w) PROVE Buffers'
  <2>1. /\ sock[w] \in Fds /\ store' = [store EXCEPT ![sock[w]] = None] /\ live' = live
        /\ UNCHANGED <<buf, isnew, msgs, sock>> /\ bytes' = Remembered
        /\ \A v \in Workers : pc[v] \in Filling => pc'[v] = pc[v]
        /\ \A v \in Workers : sock[v] # sock[w] => pc'[v] = pc[v]
        BY <1>1 DEF RemoveMsgBuf, TypeOK, WorkerType, BufType, Holding, Receiving, Filling
  <2> QED BY <2>1, BuffersOut
<1>2. ASSUME NEW a \in Actors, DelClientMsgBuf(a) PROVE Buffers'
  <2> DEFINE f == td[a].fd
  <2>1. Call(a)
        BY <1>2, Called DEF TeardownStep
  <2>2. /\ store' = [store EXCEPT ![f] = None] /\ UNCHANGED <<buf, isnew, msgs>>
        /\ bytes' = Remembered /\ robbed' = Rob(a, f) /\ f \in Fds
        BY <1>2, <2>1 DEF DelClientMsgBuf, Call
  <2>3. live' = live \/ live' = live \ {store[f]}
        BY <1>2 DEF DelClientMsgBuf
  <2>4. a \in Workers => pc[a] = "teardown"
        BY <2>1 DEF Call, TypeOK, TeardownType, Calls
  <2>5. \A v \in Workers : pc[v] \in Filling \cup {"remove"} =>
            v # a /\ pc'[v] = pc[v] /\ sock'[v] = sock[v]
        BY <1>2, <2>4 DEF DelClientMsgBuf, Advance, TypeOK, WorkerType, Filling
  <2>6. live' # live => \A v \in Workers : buf[v] = store[f] => ~Alone(v)'
    <3> SUFFICES ASSUME live' # live, NEW v \in Workers, buf[v] = store[f] PROVE v \in robbed'
        BY DEF Alone
    <3>1. buf[v] # None
          BY <1>2 DEF DelClientMsgBuf
    <3>2. pc[v] \in Filling /\ sock[v] = f /\ v # a
          BY <2>2, <2>5, <3>1 DEF Buffers, OnlyFilling, OneSocket
    <3> QED BY <2>2, <3>2 DEF Rob, Filling, Holding, Receiving
  <2> QED BY <2>2, <2>3, <2>5, <2>6, BuffersOut
<1> QED BY <1>1, <1>2

\* The consumer takes a message: only what is in the queue is freed.
LEMMA BuffersForward ==
    ASSUME TypeOK, Buffers, [Next]_vars, Forward
    PROVE  Buffers'
<1>1. /\ UNCHANGED <<pc, sock, buf, isnew, store, td, robbed>> /\ bytes' = Remembered
      /\ live' = live \ {Head(msgs)} /\ msgs' = Tail(msgs)
      BY DEF Forward, workerVars, ghostVars
<1>2. \A b \in Bufs : Safe(b) => Safe(b)'
  <2>1. msgs \in Seq(Bufs) /\ msgs # <<>>
        BY DEF Forward, TypeOK, BufType
  <2>2. /\ Head(msgs) = msgs[1] /\ 1 \in 1..Len(msgs)
        /\ \A i \in 1..Len(msgs') : msgs'[i] = msgs[i + 1] /\ i + 1 \in 1..Len(msgs)
        BY <1>1, <2>1
  <2> QED BY <1>1, <2>2 DEF Safe, InMsgs
<1>3. /\ \A v \in Workers : buf[v] # None => buf[v] \in Bufs
      /\ \A g \in Fds : store[g] # None => store[g] \in Bufs
      BY DEF TypeOK, BufType
<1>4. OnlyFilling' /\ OneSocket'
      BY <1>1 DEF Buffers, OnlyFilling, OneSocket
<1>5. NewIsOwn'
  <2>1. \A v \in Workers : isnew[v] => buf[v] # None
        BY DEF Buffers, OnlyFilling
  <2> QED BY <1>1, <1>2, <1>3, <2>1 DEF Buffers, NewIsOwn
<1>6. NotEmpty'
      BY <1>1, <1>3, Rest DEF Buffers, NotEmpty
<1>7. TableSafe'
      BY <1>1, <1>2, <1>3 DEF Buffers, TableSafe
<1>8. FoundSafe'
      BY <1>1, <1>2, <1>3 DEF Buffers, FoundSafe, Alone, HoldsClaim
<1> QED BY <1>4, <1>5, <1>6, <1>7, <1>8 DEF Buffers

LEMMA BuffersNext == TypeOK /\ Buffers /\ [Next]_vars => Buffers'
<1> SUFFICES ASSUME TypeOK, Buffers, [Next]_vars PROVE Buffers'
    OBVIOUS
<1>1. ASSUME NEW a \in Actors, TeardownStep(a) PROVE Buffers'
      BY <1>1, BuffersUntouched, BuffersRemove
<1>2. ASSUME NEW w \in Workers, Worker(w) PROVE Buffers'
      BY <1>1, <1>2, BuffersUntouched, BuffersFetch, BuffersRecvPiece, BuffersGiveUp, BuffersInsert,
         BuffersPut, BuffersRemove DEF Worker, Actors
<1>3. ASSUME NEW k \in Closers, Closer(k) PROVE Buffers'
      BY <1>1, <1>3, BuffersUntouched DEF Closer, Actors
<1> QED BY <1>2, <1>3, BuffersUntouched, BuffersForward DEF Next

LEMMA BuffersAlways == Spec => []Buffers
<1>1. Init => Buffers
      BY DEF Init, Buffers, OnlyFilling, NewIsOwn, OneSocket, NotEmpty, TableSafe, FoundSafe
<1> QED BY <1>1, BuffersNext, TypeCorrect, PTL DEF Spec

\* Whatever the number of workers, and whatever detectors, senders and checkers do: the buffer
\* RcvMsgFromClient reads into is allocated as long as no other thread has torn at the
\* worker's socket and no other worker has a claim of it that somebody deleted.
THEOREM BuffersStayLive == Spec => []BuffersLive
<1>1. Buffers => BuffersLive
      BY DEF Buffers, NewIsOwn, FoundSafe, Safe, BuffersLive
<1> QED BY <1>1, BuffersAlways, PTL

-----------------------------------------------------------------------------
(* The messages, as long as only workers tear connections down.                *)

\* No detector, sender or checker is tearing a connection down.
Quiet == \A k \in Closers : td[k] = Idle

\* Then the claims are locks that nobody breaks.
Exclusive ==
    \A f \in Fds : \A v, w \in Workers :
        HoldsClaim(w, f) => f \in claims /\ (HoldsClaim(v, f) => v = w)

LEMMA QuietStep ==
    ASSUME TypeOK, Quiet, Quiet', [Next]_vars
    PROVE  Clients \/ Main \/ Forward \/ (\E w \in Workers : Worker(w)) \/ UNCHANGED vars
<1> SUFFICES ASSUME NEW k \in Closers, Closer(k) PROVE FALSE
    BY DEF Next
<1>1. k \in Actors /\ td[k] = Idle /\ td'[k] = Idle /\ Idle.at = 0
      BY DEF Quiet, Actors, Idle
<1>2. CASE TeardownStep(k)
      BY <1>1, <1>2 DEF TeardownStep, DelSockEvent, DelClientSockFromQueue, DelTmpClientSock,
             DelClientMsgBuf, DeleteHeartbeatDetectItem, CloseSock, Calling
<1>3. ASSUME NEW f \in Fds, Begin(k, f) PROVE FALSE
      BY <1>1, <1>3 DEF Begin, TypeOK, TeardownType
<1> QED BY <1>2, <1>3 DEF Closer, Expire, SendFailed, TimeoutSendFailed

\* A worker's step is its own.
LEMMA OwnStep ==
    ASSUME TypeOK, NEW w \in Workers, Worker(w), NEW v \in Workers \ {w}
    PROVE  /\ pc'[v] = pc[v] /\ sock'[v] = sock[v] /\ td'[v] = td[v]
           /\ buf'[v] = buf[v] /\ isnew'[v] = isnew[v]
<1>1. CASE ~TeardownStep(w)
      BY <1>1 DEF Worker, LockQueue, FindEmpty, FindNone, CondWait, WakeUp, ClaimSock, Fetch,
             RecvPiece, RecvNothing, RecvError, InsertClientMsgBufToHash, PutMessageToQueue,
             RemoveMsgBuf, ChangeHeartBeatPacketTime, Peek, Release, Requeue, WorkerSignal,
             Begin, TypeOK, WorkerType, BufType, TeardownType, Actors
<1>2. CASE TeardownStep(w)
  <2>1. Call(w) /\ v \in Actors \ {w}
        BY <1>2, Called DEF Actors
  <2>2. pc'[v] = pc[v] /\ sock'[v] = sock[v] /\ UNCHANGED <<buf, isnew>>
        BY <1>2 DEF TeardownStep, DelSockEvent, DelClientSockFromQueue, DelTmpClientSock,
             DelClientMsgBuf, DeleteHeartbeatDetectItem, CloseSock, Advance, TypeOK, WorkerType
  <2> QED BY <2>1, <2>2 DEF Call
<1> QED BY <1>1, <1>2

\* What a call of a worker's teardown does to the worker and to its descriptor.
OwnCall(w) ==
    /\ Call(w) /\ td[w].fd = sock[w] /\ sock[w] \in Fds /\ pc[w] = "teardown"
    /\ pc'[w] = "teardown" => sock'[w] = sock[w]
    /\ pc'[w] \in {"teardown", "start"} /\ (pc'[w] = "start" => td'[w] = Idle)
    /\ (td[w].at = 3 /\ claims' = claims \ {sock[w]}) \/ (td[w].at # 3 /\ claims' = claims)
    /\ (td[w].at = 4 /\ DelClientMsgBuf(w)) \/ (td[w].at # 4 /\ UNCHANGED bufVars)
    /\ (td[w].at = 6 /\ CloseSock(w)) \/ (td[w].at # 6 /\ UNCHANGED <<conn, unread, taken, fin>>)
    /\ UNCHANGED <<buf, isnew>>
    /\ robbed' \in {robbed, Rob(w, sock[w])}
    /\ td[w].at \in {3, 4, 6} => robbed' = Rob(w, sock[w])
    /\ pc'[w] = "teardown" => td'[w].conn = td[w].conn /\ td'[w].fd = sock[w]
    /\ (td[w].at = 3 \/ td[w].at = 4) => td'[w].at = td[w].at + 1 /\ pc'[w] = "teardown"
    /\ pc'[w] = "teardown" => td'[w].at \in {td[w].at, td[w].at + 1}

LEMMA OwnCalled == ASSUME TypeOK, NEW w \in Workers, TeardownStep(w) PROVE OwnCall(w)
<1>1. Call(w)
      BY Called DEF Actors
<1>2. /\ td[w].fd = sock[w] /\ sock[w] \in Fds /\ pc[w] = "teardown" /\ td[w].at \in 1..6
      /\ UNCHANGED <<buf, isnew>>
      BY <1>1 DEF Call, TypeOK, TeardownType, Calls, TeardownStep, DelSockEvent,
             DelClientSockFromQueue, DelTmpClientSock, DelClientMsgBuf, DeleteHeartbeatDetectItem,
             CloseSock
<1>3. /\ Script(w)[1] = "epoll" /\ Script(w)[2] = "queue" /\ Script(w)[3] = "claim"
      /\ Script(w)[4] = "store" /\ Script(w)[5] = "beat" /\ Script(w)[6] = "close"
      BY ClaimPending DEF WorkerScript
<1>4. /\ (td[w].at = 3 /\ claims' = claims \ {sock[w]}) \/ (td[w].at # 3 /\ claims' = claims)
      /\ (td[w].at = 4 /\ DelClientMsgBuf(w)) \/ (td[w].at # 4 /\ UNCHANGED bufVars)
      /\ (td[w].at = 6 /\ CloseSock(w)) \/ (td[w].at # 6 /\ UNCHANGED <<conn, unread, taken, fin>>)
      /\ robbed' \in {robbed, Rob(w, sock[w])}
      /\ td[w].at \in {3, 4, 6} => robbed' = Rob(w, sock[w])
      /\ td[w].at # 2 => Advance(w)
  <2>1. CASE DelSockEvent(w)
        BY <1>2, <1>3, <2>1 DEF DelSockEvent, Calling, poolVars, kernelVars
  <2>2. CASE DelClientSockFromQueue(w)
        BY <1>2, <1>3, <2>2 DEF DelClientSockFromQueue, Calling, poolVars, kernelVars
  <2>3. CASE DelTmpClientSock(w)
        BY <1>2, <1>3, <2>3 DEF DelTmpClientSock, Calling, poolVars, kernelVars
  <2>4. CASE DelClientMsgBuf(w)
        BY <1>2, <1>3, <2>4 DEF DelClientMsgBuf, Calling, poolVars, kernelVars
  <2>5. CASE DeleteHeartbeatDetectItem(w)
        BY <1>2, <1>3, <2>5 DEF DeleteHeartbeatDetectItem, Calling, poolVars, kernelVars
  <2>6. CASE CloseSock(w)
        BY <1>2, <1>3, <2>6 DEF CloseSock, Calling, poolVars, kernelVars
  <2> QED BY <2>1, <2>2, <2>3, <2>4, <2>5, <2>6 DEF TeardownStep
<1>5. Advance(w) \/ UNCHANGED <<td, pc, sock>>
      BY DEF TeardownStep, DelSockEvent, DelClientSockFromQueue, DelTmpClientSock,
             DelClientMsgBuf, DeleteHeartbeatDetectItem, CloseSock
<1>6. td[w].at < 6 => /\ pc' = pc /\ sock' = sock /\ td'[w].conn = td[w].conn /\ td'[w].fd = sock[w]
                      /\ td'[w].at \in {td[w].at, td[w].at + 1}
                      /\ td[w].at # 2 => td'[w].at = td[w].at + 1
      BY <1>2, <1>4, <1>5 DEF Advance, TypeOK, TeardownType, Actors, Calls
<1>7. td[w].at = 6 => /\ pc'[w] = "start" /\ td'[w] = Idle
      BY <1>2, <1>4 DEF Advance, TypeOK, TeardownType, WorkerType, Actors, Calls
<1> QED BY <1>1, <1>2, <1>4, <1>6, <1>7 DEF OwnCall

-----------------------------------------------------------------------------
(* The claims.                                                                *)

LEMMA TakingExclusive ==
    ASSUME TypeOK, Exclusive, NEW w \in Workers, NEW i \in 1..Len(queue), ClaimSock(w, i)
    PROVE  Exclusive'
<1> DEFINE g == queue[i]
<1>1. /\ g \notin claims /\ claims' = claims \cup {g} /\ g \in Fds /\ td' = td
      /\ sock'[w] = g /\ pc'[w] = "fetch"
      /\ \A v \in Workers \ {w} : pc'[v] = pc[v] /\ sock'[v] = sock[v]
      BY DEF ClaimSock, FirstFree, TypeOK, PoolType, WorkerType
<1>2. \A v \in Workers \ {w} : \A f \in Fds : HoldsClaim(v, f)' => HoldsClaim(v, f) /\ f # g
      BY <1>1 DEF HoldsClaim, Exclusive
<1>3. \A f \in Fds : HoldsClaim(w, f)' => f = g
      BY <1>1 DEF HoldsClaim
<1> QED BY <1>1, <1>2, <1>3 DEF Exclusive

LEMMA LettingExclusive ==
    ASSUME TypeOK, Exclusive, NEW w \in Workers, Worker(w), sock[w] \in Fds,
           claims' = claims \ {sock[w]}, \A f \in Fds : ~HoldsClaim(w, f)',
           HoldsClaim(w, sock[w])
    PROVE  Exclusive'
<1>1. \A v \in Workers \ {w} : pc'[v] = pc[v] /\ sock'[v] = sock[v] /\ td'[v] = td[v]
      BY OwnStep
<1>2. \A v \in Workers : \A f \in Fds : HoldsClaim(v, f)' => v # w /\ HoldsClaim(v, f)
      BY <1>1 DEF HoldsClaim
<1> QED BY <1>2 DEF Exclusive

LEMMA KeepingExclusive ==
    ASSUME TypeOK, Exclusive, NEW w \in Workers, Worker(w), claims' = claims,
           \A f \in Fds : HoldsClaim(w, f)' => HoldsClaim(w, f)
    PROVE  Exclusive'
<1>1. \A v \in Workers \ {w} : pc'[v] = pc[v] /\ sock'[v] = sock[v] /\ td'[v] = td[v]
      BY OwnStep
<1>2. \A v \in Workers : \A f \in Fds : HoldsClaim(v, f)' => HoldsClaim(v, f)
      BY <1>1 DEF HoldsClaim
<1> QED BY <1>2 DEF Exclusive

LEMMA ExclusiveWorker ==
    ASSUME TypeOK, Exclusive, NEW w \in Workers, Worker(w)
    PROVE  Exclusive'
<1>1. CASE TeardownStep(w)
  <2>1. OwnCall(w) /\ td[w].at \in 1..6
        BY <1>1, OwnCalled DEF OwnCall, Call, Calls
  <2>2. CASE td[w].at = 3
    <3>1. HoldsClaim(w, sock[w])
          BY <2>1, <2>2, ClaimPending DEF OwnCall, HoldsClaim, Calls
    <3>2. \A f \in Fds : ~HoldsClaim(w, f)'
          BY <2>1, <2>2, ClaimPending DEF OwnCall, HoldsClaim, Calls, Holding, Receiving
    <3> QED BY <2>1, <2>2, <3>1, <3>2, LettingExclusive DEF OwnCall
  <2>3. CASE td[w].at # 3
    <3>1. ASSUME NEW f \in Fds, HoldsClaim(w, f)' PROVE HoldsClaim(w, f)
      <4>1. /\ pc'[w] = "teardown" /\ sock[w] = f
            /\ \E j \in td'[w].at..Calls : WorkerScript[j] = "claim"
            BY <2>1, <3>1 DEF OwnCall, HoldsClaim, Holding, Receiving
      <4>2. td'[w].at =< 3 /\ td'[w].at \in {td[w].at, td[w].at + 1}
            BY <2>1, <4>1, ClaimPending DEF OwnCall, Calls
      <4>3. td[w].at =< 3
            BY <2>1, <4>2
      <4> QED BY <2>1, <4>1, <4>3, ClaimPending DEF OwnCall, HoldsClaim, Calls
    <3> QED BY <2>1, <2>3, <3>1, KeepingExclusive DEF OwnCall
  <2> QED BY <2>2, <2>3
<1>2. ASSUME NEW i \in 1..Len(queue), ClaimSock(w, i) PROVE Exclusive'
      BY <1>2, TakingExclusive
<1>3. CASE Release(w)
  <2>1. /\ HoldsClaim(w, sock[w]) /\ sock[w] \in Fds /\ claims' = claims \ {sock[w]}
        /\ pc'[w] \in {"start", "requeue"}
        BY <1>3 DEF Release, HoldsClaim, TypeOK, WorkerType, Holding
  <2>2. \A f \in Fds : ~HoldsClaim(w, f)'
        BY <2>1 DEF HoldsClaim, Holding, Receiving
  <2> QED BY <2>1, <2>2, LettingExclusive
<1>4. CASE ~TeardownStep(w) /\ ~(\E i \in 1..Len(queue) : ClaimSock(w, i)) /\ ~Release(w)
  <2>1. /\ claims' = claims
        /\ \/ pc'[w] \notin Holding \cup {"teardown"}
           \/ pc[w] \in Holding /\ sock' = sock
        BY <1>4 DEF Worker, LockQueue, FindEmpty, FindNone, CondWait, WakeUp, Fetch,
             RecvPiece, RecvNothing, RecvError, InsertClientMsgBufToHash, PutMessageToQueue,
             RemoveMsgBuf, ChangeHeartBeatPacketTime, Peek, Requeue, WorkerSignal,
             Holding, Receiving, TypeOK, WorkerType, poolVars
  <2>2. \A f \in Fds : HoldsClaim(w, f)' => HoldsClaim(w, f)
        BY <2>1 DEF HoldsClaim
  <2> QED BY <2>1, <2>2, KeepingExclusive
<1> QED BY <1>1, <1>2, <1>3, <1>4

\* The steps of the clients, of main and of the consumer of g_msg_queue.
Apart == Clients \/ Main \/ Forward \/ UNCHANGED vars

LEMMA ApartStep ==
    ASSUME Apart
    PROVE  /\ UNCHANGED <<pc, sock, buf, isnew, claims, td, store, victims, robbed>>
           /\ bytes' = bytes \/ bytes' = Remembered
BY DEF Apart, Clients, ClientSend, ClientClose, Main, EpollWait, MainSignal, Register,
       InsertHeartbeatDetectItem, RefreshHeartbeat, Enqueue, AcceptConn, Forward,
       vars, kernelVars, poolVars, workerVars, bufVars, ghostVars

LEMMA ExclusiveNext == ASSUME TypeOK, Exclusive, Quiet, Quiet', [Next]_vars PROVE Exclusive'
<1>1. CASE Apart
      BY <1>1, ApartStep DEF Exclusive, HoldsClaim
<1> QED BY <1>1, QuietStep, ExclusiveWorker DEF Apart

\* Whoever has a claim that nobody else has is alone, unless he was robbed.
LEMMA OneHolder ==
    ASSUME TypeOK, Exclusive, NEW v \in Workers, NEW w \in Workers, pc[v] \in Holding, pc[w] \in Holding,
           sock[v] = sock[w]
    PROVE  v = w
BY DEF Exclusive, HoldsClaim, TypeOK, WorkerType

LEMMA AloneOrRobbed ==
    ASSUME TypeOK, Exclusive, NEW w \in Workers, pc[w] \in Holding, w \notin robbed
    PROVE  Alone(w)
BY DEF Exclusive, HoldsClaim, Alone, TypeOK, WorkerType

-----------------------------------------------------------------------------
(* A dead connection.                                                         *)

\* The contents of the buffers that a worker's step does not read into.
LEMMA ContentsKept ==
    ASSUME TypeOK, Buffers, NEW w \in Workers, Worker(w)
    PROVE  /\ \A v \in Workers :
                (buf[v] # None /\ buf'[v] = buf[v] /\ (RecvPiece(w) => sock[v] # sock[w]))
                => bytes'[buf[v]] = bytes[buf[v]]
           /\ \A f \in Fds :
                (store[f] # None /\ store'[f] = store[f] /\ (RecvPiece(w) => f # sock[w]))
                => bytes'[store[f]] = bytes[store[f]]
<1>1. /\ \A v \in Workers : buf[v] # None => buf[v] \in Bufs
      /\ \A f \in Fds : store[f] # None => store[f] \in Bufs
      /\ bytes \in [Bufs -> Seq((0..MaxConns) \X Nat)]
      BY DEF TypeOK, BufType
<1>2. CASE Fetch(w)
  <2>1. CASE bytes' = bytes
        BY <2>1
  <2>2. CASE \E b \in Bufs \ (live \cup Referenced) : bytes' = [bytes EXCEPT ![b] = <<>>]
        BY <1>1, <2>2 DEF Referenced
  <2> QED BY <1>2, <2>1, <2>2 DEF Fetch
<1>3. CASE RecvPiece(w)
  <2>1. PICK x : bytes' = [bytes EXCEPT ![buf[w]] = Append(@, x)]
        BY <1>3 DEF RecvPiece
  <2>2. /\ \A v \in Workers : buf[v] # None /\ sock[v] # sock[w] => buf[v] # buf[w]
        /\ \A f \in Fds : store[f] # None /\ f # sock[w] => store[f] # buf[w]
        BY DEF Buffers, OneSocket
  <2> QED BY <1>1, <1>3, <2>1, <2>2
<1>4. CASE ~Fetch(w) /\ ~RecvPiece(w)
  <2>1. bytes' = bytes \/ bytes' = Remembered
        BY <1>4 DEF Worker, LockQueue, FindEmpty, FindNone, CondWait, WakeUp, ClaimSock,
             RecvNothing, RecvError, InsertClientMsgBufToHash, PutMessageToQueue,
             RemoveMsgBuf, ChangeHeartBeatPacketTime, Peek, Release, Requeue, WorkerSignal,
             TeardownStep, DelSockEvent, DelClientSockFromQueue, DelTmpClientSock, DelClientMsgBuf,
             DeleteHeartbeatDetectItem, CloseSock, bufVars
  <2> QED BY <1>1, <2>1, Rest
<1> QED BY <1>2, <1>3, <1>4

\* The same for the other steps.
LEMMA ContentsApart ==
    ASSUME TypeOK, Apart
    PROVE  /\ \A v \in Workers : buf[v] # None => bytes'[buf[v]] = bytes[buf[v]]
           /\ \A f \in Fds : store[f] # None => bytes'[store[f]] = bytes[store[f]]
<1>1. UNCHANGED <<buf, store>> /\ (bytes' = bytes \/ bytes' = Remembered)
      BY ApartStep
<1> QED BY <1>1, Rest DEF TypeOK, BufType

\* Worker a tears down the connection that its descriptor still stands for.
Owns(a) == td[a].at > 0 /\ td[a].conn # 0 /\ td[a].conn = conn[td[a].fd]

\* A worker that has not read anything since it claimed its socket.
NothingRead(w) == pc[w] \in {"fetch", "recv"} /\ (pc[w] = "recv" /\ isnew[w] => bytes[buf[w]] = <<>>)

\* The client of such a connection is gone, all it sent has been read, and a worker that comes
\* for it later finds nothing.
Dead(a) ==
    LET f == td[a].fd IN
    /\ fin[f] /\ unread[f] = 0
    /\ td[a].at > 4 => store[f] = None
    /\ \A w \in Workers \ {a} : (pc[w] \in Holding /\ sock[w] = f) => NothingRead(w)

DeadConns == \A a \in Workers : Owns(a) => Dead(a)

LEMMA DeadApart == ASSUME TypeOK, Watch, DeadConns, Apart PROVE DeadConns'
<1> SUFFICES ASSUME NEW a \in Workers, Owns(a)' PROVE Dead(a)'
    BY DEF DeadConns
<1>1. /\ UNCHANGED <<pc, sock, buf, isnew, td, store>>
      BY ApartStep
<1>2. td[a].fd \in Fds /\ a \in Actors /\ td[a].conn \in Nat
      BY <1>1, Constants DEF Owns, TypeOK, TeardownType
<1>3. Owns(a)
  <2>1. conn'[td[a].fd] \in {conn[td[a].fd], nconn + 1}
        BY <1>2 DEF Apart, Clients, ClientSend, ClientClose, Main, EpollWait, MainSignal, Register,
             InsertHeartbeatDetectItem, RefreshHeartbeat, Enqueue, AcceptConn, Forward,
             vars, kernelVars, TypeOK, KernelType
  <2>2. td[a].conn =< nconn /\ nconn \in Nat
        BY <1>2, Constants DEF Watch, Numbered, TypeOK, KernelType
  <2> QED BY <1>1, <1>2, <2>1, <2>2 DEF Owns
<1>4. Dead(a)
      BY <1>3 DEF DeadConns
<1>5. fin'[td[a].fd] /\ unread'[td[a].fd] = 0
      BY <1>2, <1>4 DEF Dead, Apart, Clients, ClientSend, ClientClose, Main, EpollWait, MainSignal,
             Register, InsertHeartbeatDetectItem, RefreshHeartbeat, Enqueue, AcceptConn, Forward,
             vars, kernelVars, TypeOK, KernelType
<1>6. \A w \in Workers : NothingRead(w) => NothingRead(w)'
      BY <1>1, ContentsApart, Constants DEF NothingRead, TypeOK, BufType
<1> QED BY <1>1, <1>4, <1>5, <1>6 DEF Dead

\* A worker begins a teardown when there is nothing more to read.
LEMMA DeadBegin ==
    ASSUME TypeOK, Buffers, Exclusive, DeadConns, NEW w \in Workers, RecvError(w) \/ Peek(w)
    PROVE  DeadConns'
<1>1. /\ pc[w] \in {"recv", "peek"} /\ sock[w] \in Fds /\ td[w].at = 0 /\ w \in Actors
      /\ UNCHANGED <<kernelVars, sock, store>>
      /\ \A v \in Workers \ {w} : /\ pc'[v] = pc[v] /\ td'[v] = td[v]
                                   /\ buf'[v] = buf[v] /\ isnew'[v] = isnew[v]
  <2>1. pc[w] \in {"recv", "peek"} /\ sock[w] \in Fds /\ td[w].at = 0 /\ w \in Actors
        BY DEF RecvError, Peek, TypeOK, WorkerType, TeardownType, Holding, Receiving, Actors
  <2>2. UNCHANGED <<kernelVars, sock, store>> /\ Worker(w)
        BY DEF RecvError, Peek, bufVars, Worker
  <2> QED BY <2>1, <2>2, OwnStep
<1>2. \A v \in Workers \ {w} : NothingRead(v) => NothingRead(v)'
  <2>1. Worker(w) /\ ~RecvPiece(w)
        BY DEF Worker, RecvError, Peek, RecvPiece, TypeOK, WorkerType
  <2> QED BY <1>1, <2>1, ContentsKept, Constants DEF NothingRead, TypeOK, BufType
<1>3. ASSUME NEW a \in Workers \ {w}, Owns(a)' PROVE Dead(a)'
  <2>1. Owns(a) /\ Dead(a)
        BY <1>1, <1>3 DEF Owns, DeadConns, kernelVars
  <2>2. (pc'[w] \in Holding /\ sock[w] = td[a].fd) => NothingRead(w)'
    <3>1. (pc'[w] \in Holding) => Peek(w)
          BY DEF RecvError, TypeOK, WorkerType, Holding, Receiving
    <3>2. Peek(w) => ~NothingRead(w) /\ pc[w] \in Holding
          BY DEF Peek, NothingRead, Holding, Receiving
    <3> QED BY <1>1, <2>1, <3>1, <3>2 DEF Dead
  <2> QED BY <1>1, <1>2, <2>1, <2>2 DEF Dead, kernelVars
<1>4. Owns(w)' => Dead(w)'
  <2> SUFFICES ASSUME Owns(w)' PROVE Dead(w)'
      OBVIOUS
  <2>1. td'[w] = [fd |-> sock[w], conn |-> conn[sock[w]], at |-> 1]
        BY <1>1 DEF Owns, RecvError, Peek, Begin, TypeOK, TeardownType
  <2>2. conn[sock[w]] # 0
        BY <2>1 DEF Owns
  <2>3. fin[sock[w]] /\ unread[sock[w]] = 0
        BY <1>1, <2>1, <2>2 DEF RecvError, Peek, TypeOK, KernelType
  <2>4. \A v \in Workers \ {w} : ~(pc[v] \in Holding /\ sock[v] = sock[w])
        BY <1>1, OneHolder DEF Holding, Receiving
  <2> QED BY <1>1, <2>1, <2>3, <2>4 DEF Dead, kernelVars
<1> QED BY <1>3, <1>4 DEF DeadConns

LEMMA DeadCalled ==
    ASSUME TypeOK, Buffers, DeadConns, NEW w \in Workers, TeardownStep(w)
    PROVE  DeadConns'
<1>1. OwnCall(w) /\ td[w].at \in 1..6 /\ Worker(w) /\ w \in Actors
      BY OwnCalled DEF OwnCall, Call, Calls, Worker, Actors
<1>2. /\ \A v \in Workers \ {w} : /\ pc'[v] = pc[v] /\ sock'[v] = sock[v] /\ td'[v] = td[v]
                                   /\ buf'[v] = buf[v] /\ isnew'[v] = isnew[v]
      BY <1>1, OwnStep
<1>3. /\ \A f \in Fds : conn'[f] # 0 => /\ conn'[f] = conn[f] /\ fin'[f] = fin[f]
                                        /\ unread'[f] = unread[f]
      /\ \A f \in Fds : store'[f] \in {store[f], None}
      /\ td[w].at = 4 => store'[sock[w]] = None
      BY <1>1 DEF OwnCall, CloseSock, DelClientMsgBuf, TypeOK, KernelType, BufType, bufVars
<1>4. \A v \in Workers \ {w} : NothingRead(v) => NothingRead(v)'
  <2>1. ~RecvPiece(w)
        BY <1>1 DEF OwnCall, RecvPiece
  <2> QED BY <1>1, <1>2, <2>1, ContentsKept, Constants DEF NothingRead, TypeOK, BufType
<1>5. ASSUME NEW a \in Workers, Owns(a)' PROVE Dead(a)'
  <2>1. /\ td'[a].fd = td[a].fd /\ td'[a].conn = td[a].conn /\ td[a].at > 0 /\ td[a].fd \in Fds
        /\ td'[a].at > 4 => (a = w /\ td[w].at = 4) \/ td[a].at > 4
    <3>1. CASE a = w
      <4>1. pc'[w] = "teardown"
            BY <1>1, <1>5, <3>1 DEF OwnCall, Owns, Idle
      <4> QED BY <1>1, <3>1, <4>1 DEF OwnCall, TypeOK, TeardownType
    <3>2. CASE a # w
          BY <1>2, <1>5, <3>2 DEF Owns, TypeOK, TeardownType, Actors
    <3> QED BY <3>1, <3>2
  <2>2. Owns(a) /\ Dead(a)
        BY <1>3, <1>5, <2>1 DEF Owns, DeadConns
  <2>3. fin'[td[a].fd] /\ unread'[td[a].fd] = 0
        BY <1>3, <1>5, <2>1, <2>2 DEF Owns, Dead
  <2>4. td'[a].at > 4 => store'[td[a].fd] = None
        BY <1>1, <1>3, <2>1, <2>2 DEF Dead, OwnCall
  <2>5. pc'[w] \notin Holding
        BY <1>1 DEF OwnCall, Holding, Receiving
  <2> QED BY <1>2, <1>4, <2>1, <2>2, <2>3, <2>4, <2>5 DEF Dead
<1> QED BY <1>5 DEF DeadConns

\* The other steps of a worker take nothing back from a dead connection.
LEMMA DeadWorker ==
    ASSUME TypeOK, Buffers, DeadConns, NEW w \in Workers, Worker(w),
           ~TeardownStep(w), ~RecvError(w), ~Peek(w)
    PROVE  DeadConns'
<1> SUFFICES ASSUME NEW a \in Workers, Owns(a)' PROVE Dead(a)'
    BY DEF DeadConns
<1>1. /\ UNCHANGED <<td, conn, fin>>
      /\ \A v \in Workers \ {w} : /\ pc'[v] = pc[v] /\ sock'[v] = sock[v]
                                   /\ buf'[v] = buf[v] /\ isnew'[v] = isnew[v]
  <2>1. UNCHANGED <<td, conn, fin>>
        BY DEF Worker, LockQueue, FindEmpty, FindNone, CondWait, WakeUp, ClaimSock, Fetch,
             RecvPiece, RecvNothing, InsertClientMsgBufToHash, PutMessageToQueue,
             RemoveMsgBuf, ChangeHeartBeatPacketTime, Release, Requeue, WorkerSignal, kernelVars
  <2> QED BY <2>1, OwnStep
<1>2. Owns(a) /\ Dead(a) /\ td[a].fd \in Fds /\ a # w
  <2>1. Owns(a) /\ td[a].at > 0
        BY <1>1 DEF Owns
  <2>2. pc[w] # "teardown"
        BY DEF Worker, LockQueue, FindEmpty, FindNone, CondWait, WakeUp, ClaimSock, Fetch,
             RecvPiece, RecvNothing, InsertClientMsgBufToHash, PutMessageToQueue,
             RemoveMsgBuf, ChangeHeartBeatPacketTime, Release, Requeue, WorkerSignal
  <2> QED BY <2>1, <2>2 DEF DeadConns, TypeOK, TeardownType, Actors
<1>3. (pc[w] \in Holding /\ sock[w] = td[a].fd) => NothingRead(w)
      BY <1>2 DEF Dead
<1>4. unread'[td[a].fd] = 0 /\ ~(RecvPiece(w) /\ sock[w] = td[a].fd)
  <2>1. CASE RecvPiece(w)
        BY <1>2, <2>1 DEF RecvPiece, Dead, TypeOK, KernelType
  <2>2. CASE ~RecvPiece(w)
        BY <1>2, <2>2 DEF Dead, Worker, LockQueue, FindEmpty, FindNone, CondWait, WakeUp, ClaimSock, Fetch,
             RecvNothing, InsertClientMsgBufToHash, PutMessageToQueue,
             RemoveMsgBuf, ChangeHeartBeatPacketTime, Release, Requeue, WorkerSignal, kernelVars
  <2> QED BY <2>1, <2>2
<1>5. store'[td[a].fd] = store[td[a].fd]
  <2>1. CASE InsertClientMsgBufToHash(w) \/ RemoveMsgBuf(w)
    <3>1. sock[w] # td[a].fd
          BY <1>3, <2>1 DEF InsertClientMsgBufToHash, RemoveMsgBuf, NothingRead, Holding, Receiving
    <3> QED BY <1>2, <2>1, <3>1 DEF InsertClientMsgBufToHash, RemoveMsgBuf, TypeOK, BufType
  <2>2. CASE ~InsertClientMsgBufToHash(w) /\ ~RemoveMsgBuf(w)
        BY <2>2 DEF Worker, LockQueue, FindEmpty, FindNone, CondWait, WakeUp, ClaimSock, Fetch,
             RecvPiece, RecvNothing, PutMessageToQueue,
             ChangeHeartBeatPacketTime, Release, Requeue, WorkerSignal, bufVars
  <2> QED BY <2>1, <2>2
<1>6. ASSUME NEW v \in Workers \ {a, w}, pc[v] \in Holding, sock[v] = td[a].fd
      PROVE  NothingRead(v)'
  <2>1. NothingRead(v)
        BY <1>2, <1>6 DEF Dead
  <2>2. RecvPiece(w) => sock[v] # sock[w]
        BY <1>4, <1>6
  <2> QED BY <1>1, <2>1, <2>2, ContentsKept, Constants DEF NothingRead, TypeOK, BufType
<1>7. (pc'[w] \in Holding /\ sock'[w] = td[a].fd) => NothingRead(w)'
  <2> SUFFICES ASSUME pc'[w] \in Holding, sock'[w] = td[a].fd PROVE NothingRead(w)'
      OBVIOUS
  <2>1. CASE \E i \in 1..Len(queue) : ClaimSock(w, i)
        BY <2>1 DEF ClaimSock, NothingRead, TypeOK, WorkerType
  <2>2. CASE Fetch(w)
    <3>1. pc'[w] = "recv"
          BY <2>2 DEF Fetch, TypeOK, WorkerType
    <3>2. isnew'[w] => bytes'[buf'[w]] = <<>>
          BY <2>2 DEF Fetch, TypeOK, BufType
    <3> QED BY <3>1, <3>2 DEF NothingRead
  <2>3. CASE RecvNothing(w)
        BY <1>2, <2>3 DEF RecvNothing, Dead
  <2>4. CASE RecvPiece(w)
        BY <1>4, <2>4 DEF RecvPiece
  <2>5. CASE ~(\E i \in 1..Len(queue) : ClaimSock(w, i)) /\ ~Fetch(w) /\ ~RecvNothing(w) /\ ~RecvPiece(w)
    <3>1. pc[w] \in Holding \ {"fetch", "recv"} /\ sock'[w] = sock[w]
          BY <2>5 DEF Worker, LockQueue, FindEmpty, FindNone, CondWait, WakeUp,
             InsertClientMsgBufToHash, PutMessageToQueue,
             RemoveMsgBuf, ChangeHeartBeatPacketTime, Release, Requeue, WorkerSignal,
             TypeOK, WorkerType, Holding, Receiving
    <3> QED BY <1>3, <3>1 DEF NothingRead
  <2> QED BY <2>1, <2>2, <2>3, <2>4, <2>5
<1> QED BY <1>1, <1>2, <1>4, <1>5, <1>6, <1>7 DEF Dead

LEMMA DeadNext ==
    ASSUME TypeOK, Watch, Buffers, Exclusive, DeadConns, Quiet, Quiet', [Next]_vars
    PROVE  DeadConns'
BY QuietStep, DeadApart, DeadBegin, DeadCalled, DeadWorker DEF Apart

-----------------------------------------------------------------------------
(* The messages in g_msg_queue.                                               *)

\* A message in g_msg_queue is in no worker's hands and is there once.
MsgsApart ==
    /\ \A w \in Workers : buf[w] # None => ~InMsgs(buf[w])
    /\ \A i, j \in 1..Len(msgs) : msgs[i] = msgs[j] => i = j

\* A worker that is going to take the buffer out of the table has claimed its descriptor.
LEMMA NotRemoved ==
    ASSUME TypeOK, Buffers, Exclusive, NEW w \in Workers, pc[w] \in Holding \ {"remove"},
           store[sock[w]] # None
    PROVE  Safe(store[sock[w]])
<1>1. sock[w] \in Fds
      BY DEF TypeOK, WorkerType
<1>2. \A v \in Workers : ~(pc[v] = "remove" /\ sock[v] = sock[w])
      BY OneHolder DEF Holding, Receiving
<1> QED BY <1>1, <1>2 DEF Buffers, TableSafe

\* Two workers have two buffers.
LEMMA OwnBuffer ==
    ASSUME TypeOK, Buffers, Exclusive, NEW v \in Workers, NEW w \in Workers, buf[v] # None, buf[v] = buf[w]
    PROVE  v = w
<1>1. sock[v] = sock[w] /\ pc[v] \in Holding /\ pc[w] \in Holding
      BY DEF Buffers, OneSocket, OnlyFilling, Filling, Holding, Receiving
<1> QED BY <1>1, OneHolder

\* Only PutMessageToQueue adds to g_msg_queue, only its consumer takes from it.
LEMMA MsgsStep ==
    ASSUME TypeOK, Buffers, Exclusive, Quiet, Quiet', [Next]_vars
    PROVE  \/ msgs' = msgs
           \/ msgs # <<>> /\ msgs' = Tail(msgs) /\ Forward
           \/ \E w \in Workers : PutMessageToQueue(w) /\ msgs' = Append(msgs, buf[w])
<1>1. CASE Apart
      BY <1>1 DEF Apart, Clients, ClientSend, ClientClose, Main, EpollWait, MainSignal, Register,
             InsertHeartbeatDetectItem, RefreshHeartbeat, Enqueue, AcceptConn, Forward,
             vars, bufVars
<1>2. ASSUME NEW w \in Workers, Worker(w)
      PROVE  msgs' = msgs \/ (PutMessageToQueue(w) /\ msgs' = Append(msgs, buf[w]))
      BY <1>2 DEF Worker, LockQueue, FindEmpty, FindNone, CondWait, WakeUp, ClaimSock, Fetch,
             RecvPiece, RecvNothing, RecvError, InsertClientMsgBufToHash, PutMessageToQueue,
             RemoveMsgBuf, ChangeHeartBeatPacketTime, Peek, Release, Requeue, WorkerSignal,
             TeardownStep, DelSockEvent, DelClientSockFromQueue, DelTmpClientSock, DelClientMsgBuf,
             DeleteHeartbeatDetectItem, CloseSock, bufVars
<1> QED BY <1>1, <1>2, QuietStep DEF Apart

\* A worker keeps its buffer, gives it up, or fetches one.
LEMMA BufStep ==
    ASSUME TypeOK, Quiet, Quiet', [Next]_vars, NEW v \in Workers, buf'[v] # buf[v]
    PROVE  buf'[v] = None \/ Fetch(v)
<1>1. CASE Apart
      BY <1>1, ApartStep
<1>2. CASE Worker(v)
      BY <1>2, Constants DEF Worker, LockQueue, FindEmpty, FindNone, CondWait, WakeUp, ClaimSock,
             RecvPiece, RecvNothing, RecvError, InsertClientMsgBufToHash, PutMessageToQueue,
             RemoveMsgBuf, ChangeHeartBeatPacketTime, Peek, Release, Requeue, WorkerSignal,
             TeardownStep, DelSockEvent, DelClientSockFromQueue, DelTmpClientSock, DelClientMsgBuf,
             DeleteHeartbeatDetectItem, CloseSock, TypeOK, BufType
<1> QED BY <1>1, <1>2, QuietStep, OwnStep DEF Apart

\* What a worker fetches is no message in g_msg_queue.
LEMMA FetchedApart ==
    ASSUME TypeOK, Buffers, Exclusive, NEW w \in Workers, Fetch(w)
    PROVE  ~InMsgs(buf'[w])
<1>1. CASE store[sock[w]] # None
  <2>1. buf'[w] = store[sock[w]] /\ pc[w] = "fetch"
        BY <1>1 DEF Fetch, TypeOK, BufType
  <2> QED BY <1>1, <2>1, NotRemoved DEF Safe, Holding, Receiving
<1>2. CASE store[sock[w]] = None
      BY <1>2 DEF Fetch, TypeOK, BufType, Referenced, InMsgs
<1> QED BY <1>1, <1>2

LEMMA MsgsApartNext ==
    ASSUME TypeOK, Buffers, Exclusive, MsgsApart, Quiet, Quiet', [Next]_vars
    PROVE  MsgsApart'
<1>1. \A v \in Workers : buf'[v] # None => ~InMsgs(buf'[v])
      BY BufStep, FetchedApart DEF MsgsApart
<1>2. CASE msgs' = msgs
      BY <1>1, <1>2 DEF MsgsApart, InMsgs
<1>3. CASE msgs # <<>> /\ msgs' = Tail(msgs)
  <2>1. msgs \in Seq(Bufs)
        BY DEF TypeOK, BufType
  <2>2. \A i \in 1..Len(msgs') : i + 1 \in 1..Len(msgs) /\ msgs'[i] = msgs[i + 1] /\ i \in Nat
        BY <1>3, <2>1
  <2>3. \A i, j \in 1..Len(msgs') : msgs'[i] = msgs'[j] => i + 1 = j + 1
        BY <2>2 DEF MsgsApart
  <2> QED BY <1>1, <2>2, <2>3 DEF MsgsApart, InMsgs
<1>4. ASSUME NEW w \in Workers, PutMessageToQueue(w), msgs' = Append(msgs, buf[w]) PROVE MsgsApart'
  <2>1. msgs \in Seq(Bufs) /\ buf[w] # None /\ buf[w] \in Bufs
        BY <1>4, Constants DEF PutMessageToQueue, TypeOK, BufType
  <2>2. /\ Len(msgs') = Len(msgs) + 1 /\ msgs'[Len(msgs) + 1] = buf[w]
        /\ \A i \in 1..Len(msgs) : msgs'[i] = msgs[i]
        BY <1>4, <2>1
  <2>3. \A v \in Workers : buf'[v] # None => buf'[v] # buf[w]
        BY <1>4, <2>1, OwnBuffer DEF PutMessageToQueue, TypeOK, BufType
  <2>4. \A v \in Workers : buf'[v] # None => \A i \in 1..Len(msgs') : msgs'[i] # buf'[v]
        BY <1>1, <2>1, <2>2, <2>3 DEF InMsgs
  <2>5. \A i \in 1..Len(msgs) : msgs[i] # buf[w]
        BY <2>1 DEF MsgsApart, InMsgs
  <2>6. \A i, j \in 1..Len(msgs') : msgs'[i] = msgs'[j] => i = j
        BY <2>1, <2>2, <2>5 DEF MsgsApart
  <2> QED BY <2>4, <2>6 DEF MsgsApart, InMsgs
<1> QED BY <1>2, <1>3, <1>4, MsgsStep

\* The contents of a message do not change any more.
LEMMA MessageKept ==
    ASSUME TypeOK, Buffers, Exclusive, MsgsApart, Quiet, Quiet', [Next]_vars,
           NEW i \in 1..Len(msgs')
    PROVE  bytes'[msgs'[i]] = bytes[msgs'[i]]
<1> DEFINE b == msgs'[i]
<1>1. b \in Bufs /\ b \in Referenced'
      BY TypeNext DEF TypeOK, BufType, Referenced
<1>2. CASE bytes' = bytes \/ bytes' = Remembered
      BY <1>1, <1>2 DEF Remembered
<1>3. ASSUME NEW w \in Workers, Fetch(w) PROVE bytes'[b] = bytes[b]
  <2>1. msgs' = msgs /\ b \in Referenced
        BY <1>3 DEF Fetch, Referenced
  <2> QED BY <1>1, <1>3, <2>1 DEF Fetch, TypeOK, BufType
<1>4. ASSUME NEW w \in Workers, RecvPiece(w) PROVE bytes'[b] = bytes[b]
  <2>1. PICK x : bytes' = [bytes EXCEPT ![buf[w]] = Append(@, x)]
        BY <1>4 DEF RecvPiece
  <2>2. msgs' = msgs /\ buf[w] # None
        BY <1>4, Constants DEF RecvPiece, TypeOK, BufType
  <2>3. b # buf[w]
        BY <2>2 DEF MsgsApart, InMsgs
  <2> QED BY <1>1, <2>1, <2>3 DEF TypeOK, BufType
<1>5. bytes' = bytes \/ bytes' = Remembered \/ \E w \in Workers : Fetch(w) \/ RecvPiece(w)
  <2>1. ASSUME NEW w \in Workers, Worker(w) PROVE bytes' = bytes \/ bytes' = Remembered \/ Fetch(w) \/ RecvPiece(w)
        BY <2>1 DEF Worker, LockQueue, FindEmpty, FindNone, CondWait, WakeUp, ClaimSock,
             RecvNothing, RecvError, InsertClientMsgBufToHash, PutMessageToQueue,
             RemoveMsgBuf, ChangeHeartBeatPacketTime, Peek, Release, Requeue, WorkerSignal,
             TeardownStep, DelSockEvent, DelClientSockFromQueue, DelTmpClientSock, DelClientMsgBuf,
             DeleteHeartbeatDetectItem, CloseSock, bufVars
  <2> QED BY <2>1, QuietStep, ApartStep DEF Apart
<1> QED BY <1>2, <1>3, <1>4, <1>5

-----------------------------------------------------------------------------
(* How much a buffer holds.                                                   *)

\* A worker that has all of a message and has not handed it on.
Finished(w) == pc[w] = "put" \/ (pc[w] = "insert" /\ Complete(buf[w]))

\* A message is in the table only until the worker that completed it takes it out.
Measured ==
    /\ \A w \in Workers : pc[w] = "recv" => ~Complete(buf[w])
    /\ \A w \in Workers : pc[w] = "put" => Complete(buf[w])
    /\ \A f \in Fds :
         (store[f] # None /\ \A w \in Workers : sock[w] = f => ~Finished(w) /\ pc[w] # "remove")
         => ~Complete(store[f])

\* Steps that let everybody keep what he has, or give it up.
LEMMA MeasuredKept ==
    ASSUME TypeOK, Measured,
           \A v \in Workers : pc'[v] \in Filling =>
              pc'[v] = pc[v] /\ buf'[v] = buf[v] /\ bytes'[buf[v]] = bytes[buf[v]],
           \A v \in Workers : pc[v] \in {"insert", "put", "remove"} => pc'[v] = pc[v] /\ sock'[v] = sock[v],
           \A f \in Fds : store'[f] # None =>
              store'[f] = store[f] /\ bytes'[store[f]] = bytes[store[f]]
    PROVE  Measured'
<1>1. \A v \in Workers : pc'[v] = "recv" => ~Complete(buf[v])'
      BY DEF Measured, Complete, Filling
<1>2. \A v \in Workers : pc'[v] = "put" => Complete(buf[v])'
      BY DEF Measured, Complete, Filling
<1>3. \A v \in Workers : (Finished(v) \/ pc[v] = "remove") =>
          (Finished(v)' \/ pc'[v] = "remove") /\ sock'[v] = sock[v]
      BY DEF Finished, Complete, Filling
<1>4. ASSUME NEW f \in Fds, store'[f] # None,
             \A w \in Workers : sock'[w] = f => ~Finished(w)' /\ pc'[w] # "remove"
      PROVE  ~Complete(store[f])'
  <2>1. \A w \in Workers : sock[w] = f => ~Finished(w) /\ pc[w] # "remove"
        BY <1>3, <1>4
  <2> QED BY <1>4, <2>1 DEF Measured, Complete
<1> QED BY <1>1, <1>2, <1>4 DEF Measured

LEMMA MeasuredFetch ==
    ASSUME TypeOK, Buffers, Exclusive, Measured, NEW w \in Workers, Fetch(w)
    PROVE  Measured'
<1>1. /\ pc[w] = "fetch" /\ pc'[w] = "recv" /\ UNCHANGED <<sock, store>> /\ sock[w] \in Fds
      /\ \A v \in Workers \ {w} : pc'[v] = pc[v] /\ buf'[v] = buf[v] /\ pc'[v] \in Pcs
      BY DEF Fetch, TypeOK, WorkerType, BufType, Holding, Receiving
<1>2. Worker(w) /\ ~RecvPiece(w)
      BY <1>1 DEF Worker, RecvPiece
<1>3. /\ \A v \in Workers \ {w} : buf[v] # None => bytes'[buf[v]] = bytes[buf[v]]
      /\ \A f \in Fds : store[f] # None => bytes'[store[f]] = bytes[store[f]]
      BY <1>1, <1>2, ContentsKept
<1>4. \A v \in Workers \ {w} : pc[v] \in Filling => buf[v] # None
      BY Constants DEF TypeOK, BufType, Filling
<1>5. ~Complete(buf[w])'
  <2>1. CASE store[sock[w]] # None
    <3>1. buf'[w] = store[sock[w]] /\ bytes' = bytes
          BY <2>1 DEF Fetch, TypeOK, BufType
    <3>2. \A v \in Workers : sock[v] = sock[w] => ~Finished(v) /\ pc[v] # "remove"
          BY <1>1, OneHolder DEF Finished, Holding, Receiving
    <3> QED BY <1>1, <2>1, <3>1, <3>2 DEF Measured, Complete
  <2>2. CASE store[sock[w]] = None
    <3>1. buf'[w] \in Bufs /\ bytes'[buf'[w]] = <<>>
          BY <2>2 DEF Fetch, TypeOK, BufType
    <3>2. ~(0 >= MsgPieces) /\ Len(<<>>) = 0
          BY RecvPoolAssumption DEF RecvPoolAssumption
    <3> QED BY <3>1, <3>2 DEF Complete
  <2> QED BY <2>1, <2>2
<1>6. \A v \in Workers : (v = w /\ ~Finished(v)' /\ ~Finished(v)) \/ (Finished(v)' <=> Finished(v))
      BY <1>1, <1>3, <1>4 DEF Finished, Filling, Complete
<1>7. \A v \in Workers \ {w} : pc[v] \in Filling => (Complete(buf[v])' <=> Complete(buf[v]))
      BY <1>1, <1>3, <1>4 DEF Complete
<1>8. \A f \in Fds : store[f] # None => (Complete(store[f])' <=> Complete(store[f]))
      BY <1>1, <1>3 DEF Complete
<1> QED BY <1>1, <1>5, <1>6, <1>7, <1>8 DEF Measured, Filling

LEMMA MeasuredReceive ==
    ASSUME TypeOK, Buffers, Exclusive, Measured, NEW w \in Workers, RecvPiece(w) \/ RecvNothing(w)
    PROVE  Measured'
<1>1. /\ pc[w] = "recv" /\ UNCHANGED <<sock, store>> /\ sock[w] \in Fds /\ buf[w] \in Bufs /\ buf[w] # None
      /\ \A v \in Workers \ {w} : pc'[v] = pc[v] /\ buf'[v] = buf[v]
      /\ Worker(w)
      BY Constants DEF RecvPiece, RecvNothing, TypeOK, WorkerType, BufType, Worker, Holding, Receiving
<1>2. \A v \in Workers \ {w} : pc[v] \in Filling => buf[v] # None /\ sock[v] # sock[w]
      BY <1>1, OneHolder, Constants DEF TypeOK, BufType, Filling, Holding, Receiving
<1>3. \A v \in Workers \ {w} : pc[v] \in Filling => (Complete(buf[v])' <=> Complete(buf[v]))
      BY <1>1, <1>2, ContentsKept DEF Complete
<1>4. \A v \in Workers \ {w} : Finished(v)' <=> Finished(v)
      BY <1>1, <1>3 DEF Finished, Filling
<1>5. ~Finished(w) /\ pc'[w] \notin {"put", "remove"}
      BY <1>1 DEF Finished, RecvPiece, RecvNothing, TypeOK, WorkerType
<1>6. pc'[w] = "recv" => ~Complete(buf[w])'
  <2> SUFFICES ASSUME pc'[w] = "recv" PROVE ~Complete(buf[w])'
      OBVIOUS
  <2>1. RecvPiece(w) /\ buf' = buf
        BY <1>1 DEF RecvPiece, RecvNothing, TypeOK, WorkerType
  <2>2. ~(Len(bytes[buf[w]]) + 1 >= MsgPieces)
        BY <1>1, <2>1 DEF RecvPiece, TypeOK, WorkerType
  <2>3. PICK x : bytes' = [bytes EXCEPT ![buf[w]] = Append(@, x)]
        BY <2>1 DEF RecvPiece
  <2>4. Len(bytes'[buf[w]]) = Len(bytes[buf[w]]) + 1
        BY <1>1, <2>3 DEF TypeOK, BufType
  <2> QED BY <2>1, <2>2, <2>4 DEF Complete
<1>7. ASSUME NEW f \in Fds, store'[f] # None,
             \A v \in Workers : sock'[v] = f => ~Finished(v)' /\ pc'[v] # "remove"
      PROVE  ~Complete(store[f])'
  <2>1. \A v \in Workers : sock[v] = f => ~Finished(v) /\ pc[v] # "remove"
        BY <1>1, <1>4, <1>5, <1>7
  <2>2. ~Complete(store[f])
        BY <1>1, <1>7, <2>1 DEF Measured
  <2>3. CASE RecvPiece(w) /\ f = sock[w] /\ store[f] = buf[w]
    <3>1. pc'[w] \in {"insert", "recv"} /\ buf' = buf
          BY <1>1, <2>3 DEF RecvPiece, TypeOK, WorkerType
    <3> QED BY <1>1, <1>6, <1>7, <2>3, <3>1 DEF Finished, Complete
  <2>4. CASE RecvPiece(w) /\ f = sock[w] /\ store[f] # buf[w]
    <3>1. bytes'[store[f]] = bytes[store[f]]
          BY <1>1, <1>7, <2>4 DEF RecvPiece, TypeOK, BufType
    <3> QED BY <1>1, <2>2, <3>1 DEF Complete
  <2>5. CASE ~(RecvPiece(w) /\ f = sock[w])
    <3>1. bytes'[store[f]] = bytes[store[f]]
          BY <1>1, <1>7, <2>5, ContentsKept
    <3> QED BY <1>1, <2>2, <3>1 DEF Complete
  <2> QED BY <2>3, <2>4, <2>5
<1> QED BY <1>1, <1>3, <1>5, <1>6, <1>7 DEF Measured, Filling

LEMMA MeasuredHandOn ==
    ASSUME TypeOK, Buffers, Exclusive, Measured, NEW w \in Workers,
           InsertClientMsgBufToHash(w) \/ PutMessageToQueue(w) \/ RemoveMsgBuf(w)
    PROVE  Measured'
<1>1. /\ pc[w] \in {"insert", "put", "remove"} /\ UNCHANGED <<sock>> /\ sock[w] \in Fds
      /\ \A v \in Workers \ {w} : pc'[v] = pc[v] /\ buf'[v] = buf[v]
      /\ Worker(w) /\ ~RecvPiece(w) /\ (pc[w] # "remove" => buf[w] \in Bufs /\ buf[w] # None)
  <2>1. pc[w] \in {"insert", "put", "remove"}
        BY DEF InsertClientMsgBufToHash, PutMessageToQueue, RemoveMsgBuf
  <2> QED BY <2>1, Constants, OwnStep DEF InsertClientMsgBufToHash, PutMessageToQueue, RemoveMsgBuf, TypeOK,
             WorkerType, BufType, Worker, Holding, Receiving, RecvPiece
<1>2. /\ \A v \in Workers \ {w} : pc[v] \in Filling => buf[v] # None
      /\ \A v \in Workers \ {w} : pc[v] \in Filling => (Complete(buf[v])' <=> Complete(buf[v]))
      BY <1>1, ContentsKept, Constants DEF TypeOK, BufType, Filling, Complete
<1>3. \A v \in Workers \ {w} : Finished(v)' <=> Finished(v)
      BY <1>1, <1>2 DEF Finished, Filling
<1>4. \A f \in Fds : (store[f] # None /\ store'[f] = store[f]) => (Complete(store[f])' <=> Complete(store[f]))
      BY <1>1, ContentsKept DEF Complete
<1>5. CASE InsertClientMsgBufToHash(w)
  <2>1. /\ pc[w] = "insert"
        /\ (Complete(buf[w]) /\ pc'[w] = "put" /\ buf'[w] = buf[w])
           \/ (~Complete(buf[w]) /\ pc'[w] = "release")
        /\ \A f \in Fds : store'[f] = store[f] \/ (f = sock[w] /\ store'[f] = buf[w])
        BY <1>1, <1>5 DEF InsertClientMsgBufToHash, TypeOK, WorkerType, BufType
  <2>2. buf'[w] = buf[w] => (Complete(buf[w])' <=> Complete(buf[w]))
    <3>1. buf'[w] = buf[w] => bytes'[buf[w]] = bytes[buf[w]]
          BY <1>1, <2>1, ContentsKept
    <3> QED BY <3>1 DEF Complete
  <2>3. ASSUME NEW f \in Fds, store'[f] # None,
               \A v \in Workers : sock'[v] = f => ~Finished(v)' /\ pc'[v] # "remove"
        PROVE  ~Complete(store[f])'
    <3>1. CASE store'[f] = store[f]
      <4>1. \A v \in Workers : sock[v] = f => ~Finished(v) /\ pc[v] # "remove"
            BY <1>1, <1>3, <2>1, <2>3 DEF Finished
      <4> QED BY <1>4, <2>3, <3>1, <4>1 DEF Measured
    <3>2. CASE f = sock[w] /\ store'[f] = buf[w]
      <4>1. ~Complete(buf[w])
            BY <1>1, <2>1, <2>3, <3>2 DEF Finished
      <4>2. bytes' = Remembered
            BY <1>5 DEF InsertClientMsgBufToHash
      <4>3. bytes'[buf[w]] = bytes[buf[w]]
            BY <1>1, <2>1, <3>2, <4>2, Rest
      <4> QED BY <3>2, <4>1, <4>3 DEF Complete
    <3> QED BY <2>1, <3>1, <3>2
  <2> QED BY <1>1, <1>2, <2>1, <2>2, <2>3 DEF Measured, Filling
<1>6. CASE PutMessageToQueue(w) \/ RemoveMsgBuf(w)
  <2>1. /\ Finished(w) \/ pc[w] = "remove"
        /\ pc'[w] \in {"remove", "beat"} /\ (pc'[w] = "beat" => store'[sock[w]] = None)
        /\ \A f \in Fds : store'[f] # None => store'[f] = store[f]
        BY <1>1, <1>6 DEF PutMessageToQueue, RemoveMsgBuf, TypeOK, WorkerType, BufType, Finished
  <2>2. ASSUME NEW f \in Fds, store'[f] # None,
               \A v \in Workers : sock'[v] = f => ~Finished(v)' /\ pc'[v] # "remove"
        PROVE  ~Complete(store[f])'
    <3>1. \A v \in Workers : sock[v] = f => ~Finished(v) /\ pc[v] # "remove"
          BY <1>1, <1>3, <2>1, <2>2
    <3> QED BY <1>4, <2>1, <2>2, <3>1 DEF Measured
  <2> QED BY <1>1, <1>2, <2>1, <2>2 DEF Measured, Filling
<1> QED BY <1>5, <1>6

LEMMA MeasuredNext ==
    ASSUME TypeOK, Buffers, Exclusive, Measured, Quiet, Quiet', [Next]_vars
    PROVE  Measured'
<1>1. CASE Apart
  <2>1. UNCHANGED <<pc, sock, buf, store>>
        BY <1>1, ApartStep
  <2>2. \A v \in Workers : pc[v] \in Filling => bytes'[buf[v]] = bytes[buf[v]]
        BY <1>1, ContentsApart, Constants DEF TypeOK, BufType, Filling
  <2> QED BY <1>1, <2>1, <2>2, ContentsApart, MeasuredKept
<1>2. ASSUME NEW w \in Workers, Worker(w), ~Fetch(w), ~RecvPiece(w), ~RecvNothing(w),
             ~InsertClientMsgBufToHash(w), ~PutMessageToQueue(w), ~RemoveMsgBuf(w)
      PROVE  Measured'
  <2>1. /\ pc'[w] \notin Filling /\ pc[w] \notin {"insert", "put", "remove"}
        /\ \A f \in Fds : store'[f] # None => store'[f] = store[f]
    <3>1. CASE TeardownStep(w)
          BY <3>1, OwnCalled DEF OwnCall, DelClientMsgBuf, bufVars, TypeOK, BufType, Filling
    <3>2. CASE ~TeardownStep(w)
          BY <1>2, <3>2 DEF Worker, LockQueue, FindEmpty, FindNone, CondWait, WakeUp, ClaimSock,
             RecvError, ChangeHeartBeatPacketTime, Peek, Release, Requeue, WorkerSignal,
             TypeOK, WorkerType, BufType, Filling, bufVars
    <3> QED BY <3>1, <3>2
  <2>2. \A v \in Workers \ {w} : pc'[v] = pc[v] /\ sock'[v] = sock[v] /\ buf'[v] = buf[v]
        BY <1>2, OwnStep
  <2>3. \A v \in Workers \ {w} : pc[v] \in Filling => bytes'[buf[v]] = bytes[buf[v]]
        BY <1>2, <2>2, ContentsKept, Constants DEF TypeOK, BufType, Filling
  <2>4. \A f \in Fds : store'[f] # None => bytes'[store[f]] = bytes[store[f]]
        BY <1>2, <2>1, ContentsKept
  <2> QED BY <2>1, <2>2, <2>3, <2>4, MeasuredKept
<1> QED BY <1>1, <1>2, QuietStep, MeasuredFetch, MeasuredReceive, MeasuredHandOn DEF Apart

-----------------------------------------------------------------------------
(* A message is in allocated memory.                                          *)

\* The connection of the last piece in a buffer.
LastOf(b) == bytes[b][Len(bytes[b])][1]

\* A worker completed buffer b from a connection that nobody is tearing down, or that a
\* stray call hit.
Right(w, b) ==
    \/ LastOf(b) \in victims
    \/ /\ LastOf(b) # 0 /\ conn[sock[w]] = LastOf(b) /\ w \notin robbed
       /\ \A a \in Workers : td[a].at > 0 /\ td[a].fd = sock[w] => td[a].conn # LastOf(b)

Rights ==
    \A w \in Workers :
        /\ Finished(w) => Right(w, buf[w])
        /\ (pc[w] = "remove" /\ store[sock[w]] # None /\ InMsgs(store[sock[w]]))
              => Right(w, store[sock[w]])

\* Who is a victim stays one, and a robbed worker is so until the next claim.
LEMMA VictimsGrow ==
    ASSUME TypeOK, Quiet, Quiet', [Next]_vars
    PROVE  victims \subseteq victims'
<1>1. ASSUME NEW w \in Workers, Worker(w) PROVE victims \subseteq victims'
      BY <1>1 DEF Worker, LockQueue, FindEmpty, FindNone, CondWait, WakeUp, ClaimSock, Fetch,
             RecvPiece, RecvNothing, RecvError, InsertClientMsgBufToHash, PutMessageToQueue,
             RemoveMsgBuf, ChangeHeartBeatPacketTime, Peek, Release, Requeue, WorkerSignal,
             TeardownStep, DelSockEvent, DelClientSockFromQueue, DelTmpClientSock, DelClientMsgBuf,
             DeleteHeartbeatDetectItem, CloseSock, Strays, MeddleIfRobbed, ghostVars
<1> QED BY <1>1, QuietStep, ApartStep DEF Apart

\* A teardown by a worker that is not the descriptor's owner makes a victim of the connection.
LEMMA StrayCall ==
    ASSUME TypeOK, NEW u \in Workers, TeardownStep(u), NEW f \in Fds, conn[f] # 0
    PROVE  \/ sock[u] = f /\ td[u].conn # conn[f] /\ conn[f] \in victims'
           \/ sock[u] = f /\ Owns(u)
           \/ sock[u] # f /\ conn'[f] = conn[f] /\ \A v \in Workers : sock[v] = f /\ v \notin robbed => v \notin robbed'
<1>1. OwnCall(u) /\ td[u].at \in 1..6 /\ victims' = Strays(u)
      BY OwnCalled DEF OwnCall, Call, Calls
<1>2. CASE sock[u] = f
      BY <1>1, <1>2 DEF OwnCall, Strays, Owns
<1>3. CASE sock[u] # f
      BY <1>1, <1>3 DEF OwnCall, CloseSock, Rob, TypeOK, KernelType
<1> QED BY <1>2, <1>3

LEMMA RightKept ==
    ASSUME TypeOK, Exclusive, Quiet, Quiet', [Next]_vars, NEW w \in Workers, NEW b,
           pc[w] \in {"insert", "put", "remove"}, pc'[w] \in {"insert", "put", "remove"},
           Right(w, b), bytes'[b] = bytes[b]
    PROVE  Right(w, b)'
<1> DEFINE f == sock[w]
<1>1. victims \subseteq victims' /\ LastOf(b)' = LastOf(b)
      BY VictimsGrow DEF LastOf
<1>2. f \in Fds /\ pc[w] \in Holding
      BY DEF TypeOK, WorkerType, Holding, Receiving
<1>3. CASE LastOf(b) \in victims
      BY <1>1, <1>3 DEF Right
<1>4. CASE LastOf(b) \notin victims
  <2>1. /\ LastOf(b) # 0 /\ conn[f] = LastOf(b) /\ w \notin robbed
        /\ \A a \in Workers : td[a].at > 0 /\ td[a].fd = f => td[a].conn # LastOf(b)
        BY <1>4 DEF Right
  <2>2. CASE Apart
    <3>1. conn'[f] = conn[f]
          BY <1>2, <2>1, <2>2 DEF Apart, Clients, ClientSend, ClientClose, Main, EpollWait, MainSignal, Register,
             InsertHeartbeatDetectItem, RefreshHeartbeat, Enqueue, AcceptConn, Forward,
             vars, kernelVars, TypeOK, KernelType
    <3>2. UNCHANGED <<sock, td, robbed>>
          BY <2>2, ApartStep
    <3> QED BY <1>1, <2>1, <3>1, <3>2 DEF Right
  <2>3. ASSUME NEW u \in Workers, TeardownStep(u) PROVE Right(w, b)'
    <3>1. u # w /\ OwnCall(u) /\ Worker(u)
          BY <2>3, OwnCalled DEF OwnCall, Worker
    <3>2. /\ \A v \in Workers \ {u} : td'[v] = td[v] /\ sock'[v] = sock[v]
          BY <3>1, OwnStep
    <3>3. CASE conn[f] \in victims'
          BY <1>1, <2>1, <3>3 DEF Right
    <3>4. CASE sock[u] # f /\ conn'[f] = conn[f] /\ w \notin robbed'
      <4>1. td'[u].at > 0 => td'[u].fd # f
            BY <3>1, <3>4 DEF OwnCall, Call, Idle
      <4> QED BY <1>1, <2>1, <3>1, <3>2, <3>4, <4>1 DEF Right
    <3>5. ~(sock[u] = f /\ Owns(u))
          BY <2>1, <3>1 DEF Owns, OwnCall
    <3> QED BY <1>2, <2>1, <2>3, <3>3, <3>4, <3>5, StrayCall
  <2>4. ASSUME NEW u \in Workers, Worker(u), ~TeardownStep(u) PROVE Right(w, b)'
    <3>1. conn' = conn
          BY <2>4 DEF Worker, LockQueue, FindEmpty, FindNone, CondWait, WakeUp, ClaimSock, Fetch,
             RecvPiece, RecvNothing, RecvError, InsertClientMsgBufToHash, PutMessageToQueue,
             RemoveMsgBuf, ChangeHeartBeatPacketTime, Peek, Release, Requeue, WorkerSignal, kernelVars
    <3>2. \A v \in Workers \ {u} : td'[v] = td[v] /\ sock'[v] = sock[v]
          BY <2>4, OwnStep
    <3>3. sock'[w] = f
      <4>1. CASE u = w
            BY <2>4, <4>1 DEF Worker, LockQueue, FindEmpty, FindNone, CondWait, WakeUp, ClaimSock, Fetch,
             RecvPiece, RecvNothing, RecvError, InsertClientMsgBufToHash, PutMessageToQueue,
             RemoveMsgBuf, ChangeHeartBeatPacketTime, Peek, Release, Requeue, WorkerSignal
      <4> QED BY <3>2, <4>1
    <3>4. w \notin robbed'
      <4>1. CASE Release(u)
        <5>1. pc[u] \in Holding
              BY <4>1 DEF Release, Holding
        <5> QED BY <1>2, <2>1, <4>1, <5>1, OneHolder DEF Release, Rob
      <4>2. CASE ~Release(u)
            BY <2>1, <2>4, <4>2 DEF Worker, LockQueue, FindEmpty, FindNone, CondWait, WakeUp, ClaimSock, Fetch,
             RecvPiece, RecvNothing, RecvError, InsertClientMsgBufToHash, PutMessageToQueue,
             RemoveMsgBuf, ChangeHeartBeatPacketTime, Peek, Requeue, WorkerSignal, ghostVars
      <4> QED BY <4>1, <4>2
    <3>5. td'[u] = td[u] \/ td'[u].fd # f
      <4> SUFFICES ASSUME td'[u] # td[u] PROVE td'[u].fd # f
          OBVIOUS
      <4>1. (RecvError(u) \/ Peek(u)) /\ Begin(u, sock[u])
            BY <2>4 DEF Worker, LockQueue, FindEmpty, FindNone, CondWait, WakeUp, ClaimSock, Fetch,
             RecvPiece, RecvNothing, RecvError, InsertClientMsgBufToHash, PutMessageToQueue,
             RemoveMsgBuf, ChangeHeartBeatPacketTime, Peek, Release, Requeue, WorkerSignal
      <4>2. td'[u].fd = sock[u] /\ pc[u] \in Holding /\ u # w
            BY <4>1 DEF Begin, RecvError, Peek, TypeOK, TeardownType, Holding, Receiving, Actors
      <4> QED BY <1>2, <4>2, OneHolder
    <3> QED BY <1>1, <2>1, <3>1, <3>2, <3>3, <3>4, <3>5 DEF Right
  <2> QED BY <2>2, <2>3, <2>4, QuietStep DEF Apart
<1> QED BY <1>3, <1>4

\* The piece that completes a message comes from a connection that is up.
LEMMA RightEarned ==
    ASSUME TypeOK, Buffers, Exclusive, DeadConns, NEW w \in Workers, RecvPiece(w)
    PROVE  Right(w, buf[w])'
<1> DEFINE f == sock[w]
           x == <<conn[f], taken[f] + 1>>
<1>1. /\ f \in Fds /\ conn[f] # 0 /\ unread[f] > 0 /\ buf[w] \in Bufs
      /\ UNCHANGED <<conn, sock, td, buf, robbed>> /\ victims' = MeddleIfRobbed(w)
      /\ bytes' = [bytes EXCEPT ![buf[w]] = Append(@, x)] /\ pc[w] = "recv"
      BY DEF RecvPiece, TypeOK, WorkerType, BufType, Holding, Receiving
<1>2. bytes[buf[w]] \in Seq((0..MaxConns) \X Nat) /\ bytes'[buf[w]] = Append(bytes[buf[w]], x)
      BY <1>1 DEF TypeOK, BufType
<1>3. LastOf(buf[w])' = conn[f]
  <2>1. Len(bytes'[buf[w]]) = Len(bytes[buf[w]]) + 1 /\ bytes'[buf[w]][Len(bytes[buf[w]]) + 1] = x
        BY <1>2
  <2> QED BY <1>1, <2>1 DEF LastOf
<1>4. CASE w \in robbed
      BY <1>1, <1>3, <1>4 DEF MeddleIfRobbed, Right
<1>5. CASE w \notin robbed
  <2>1. ASSUME NEW a \in Workers, td[a].at > 0, td[a].fd = f PROVE td[a].conn # conn[f]
    <3> SUFFICES ASSUME Owns(a) PROVE FALSE
        BY <1>1, <2>1 DEF Owns
    <3>1. unread[f] = 0
          BY <2>1 DEF DeadConns, Dead
    <3> QED BY <1>1, <3>1 DEF TypeOK, KernelType
  <2> QED BY <1>1, <1>3, <1>5, <2>1 DEF Right
<1> QED BY <1>4, <1>5

\* What a worker has in hand or in the table is only changed by itself.
LEMMA HandsOff ==
    ASSUME TypeOK, Buffers, Exclusive, Quiet, Quiet', [Next]_vars, NEW w \in Workers,
           pc[w] \in {"insert", "put", "remove"}, pc'[w] = pc[w]
    PROVE  /\ sock'[w] = sock[w] /\ buf'[w] = buf[w]
           /\ buf[w] # None => bytes'[buf[w]] = bytes[buf[w]]
           /\ store'[sock[w]] # None => /\ store'[sock[w]] = store[sock[w]]
                                        /\ bytes'[store[sock[w]]] = bytes[store[sock[w]]]
           /\ (store'[sock[w]] # None /\ InMsgs(store[sock[w]])') => InMsgs(store[sock[w]])
<1>1. sock[w] \in Fds /\ pc[w] \in Holding
      BY DEF TypeOK, WorkerType, Holding, Receiving
<1>2. CASE Apart
  <2>1. UNCHANGED <<sock, buf, store>>
        BY <1>2, ApartStep
  <2>2. \A b : InMsgs(b)' => InMsgs(b)
    <3>1. CASE msgs' = msgs
          BY <3>1 DEF InMsgs
    <3>2. CASE msgs # <<>> /\ msgs' = Tail(msgs)
      <4>1. msgs \in Seq(Bufs)
            BY DEF TypeOK, BufType
      <4>2. \A i \in 1..Len(msgs') : i + 1 \in 1..Len(msgs) /\ msgs'[i] = msgs[i + 1]
            BY <3>2, <4>1
      <4> QED BY <4>2 DEF InMsgs
    <3>3. ~(\E u \in Workers : PutMessageToQueue(u) /\ msgs' = Append(msgs, buf[u])) \/ msgs' = msgs
          BY <1>2 DEF Apart, Clients, ClientSend, ClientClose, Main, EpollWait, MainSignal, Register,
             InsertHeartbeatDetectItem, RefreshHeartbeat, Enqueue, AcceptConn, Forward,
             vars, bufVars, PutMessageToQueue, workerVars, TypeOK, WorkerType
    <3> QED BY <3>1, <3>2, <3>3, MsgsStep
  <2> QED BY <1>1, <1>2, <2>1, <2>2, ContentsApart
<1>3. ASSUME NEW u \in Workers, Worker(u)
      PROVE  /\ sock'[w] = sock[w] /\ buf'[w] = buf[w]
             /\ buf[w] # None => bytes'[buf[w]] = bytes[buf[w]]
             /\ store'[sock[w]] # None => /\ store'[sock[w]] = store[sock[w]]
                                          /\ bytes'[store[sock[w]]] = bytes[store[sock[w]]]
             /\ (store'[sock[w]] # None /\ InMsgs(store[sock[w]])') => InMsgs(store[sock[w]])
  <2>1. u # w
        BY <1>3 DEF Worker, LockQueue, FindEmpty, FindNone, CondWait, WakeUp, ClaimSock, Fetch,
             RecvPiece, RecvNothing, RecvError, InsertClientMsgBufToHash, PutMessageToQueue,
             RemoveMsgBuf, ChangeHeartBeatPacketTime, Peek, Release, Requeue, WorkerSignal,
             TeardownStep, DelSockEvent, DelClientSockFromQueue, DelTmpClientSock, DelClientMsgBuf,
             DeleteHeartbeatDetectItem, CloseSock, Calling, TypeOK, WorkerType, TeardownType
  <2>2. sock'[w] = sock[w] /\ buf'[w] = buf[w] /\ (pc[u] \in Holding => sock[u] # sock[w])
        BY <1>1, <1>3, <2>1, OwnStep, OneHolder
  <2>3. store'[sock[w]] \in {store[sock[w]], None}
    <3>1. CASE InsertClientMsgBufToHash(u) \/ RemoveMsgBuf(u)
      <4>1. sock[u] # sock[w]
            BY <2>2, <3>1 DEF InsertClientMsgBufToHash, RemoveMsgBuf, Holding, Receiving
      <4> QED BY <1>1, <3>1, <4>1 DEF InsertClientMsgBufToHash, RemoveMsgBuf, TypeOK, BufType
    <3>2. CASE TeardownStep(u)
          BY <1>1, <3>2, OwnCalled DEF OwnCall, DelClientMsgBuf, bufVars, TypeOK, BufType
    <3>3. CASE ~InsertClientMsgBufToHash(u) /\ ~RemoveMsgBuf(u) /\ ~TeardownStep(u)
          BY <1>3, <3>3 DEF Worker, LockQueue, FindEmpty, FindNone, CondWait, WakeUp, ClaimSock, Fetch,
             RecvPiece, RecvNothing, RecvError, PutMessageToQueue,
             ChangeHeartBeatPacketTime, Peek, Release, Requeue, WorkerSignal, bufVars
    <3> QED BY <3>1, <3>2, <3>3
  <2>4. RecvPiece(u) => sock[u] # sock[w]
        BY <2>2 DEF RecvPiece, Holding, Receiving
  <2>5. (store'[sock[w]] # None /\ InMsgs(store[sock[w]])') => InMsgs(store[sock[w]])
    <3>1. CASE msgs' = msgs \/ ~PutMessageToQueue(u)
      <4>1. msgs' = msgs
            BY <1>3, <3>1 DEF Worker, LockQueue, FindEmpty, FindNone, CondWait, WakeUp, ClaimSock, Fetch,
             RecvPiece, RecvNothing, RecvError, InsertClientMsgBufToHash,
             RemoveMsgBuf, ChangeHeartBeatPacketTime, Peek, Release, Requeue, WorkerSignal,
             TeardownStep, DelSockEvent, DelClientSockFromQueue, DelTmpClientSock, DelClientMsgBuf,
             DeleteHeartbeatDetectItem, CloseSock, bufVars
      <4> QED BY <2>2, <2>3, <4>1 DEF InMsgs
    <3>2. CASE PutMessageToQueue(u) /\ msgs' # msgs
      <4>1. /\ store' = store /\ msgs' = Append(msgs, buf[u]) /\ buf[u] \in Bufs /\ pc[u] \in Holding
            BY <3>2 DEF PutMessageToQueue, TypeOK, BufType, Holding, Receiving
      <4>2. store[sock[w]] # None => store[sock[w]] # buf[u] /\ store'[sock'[w]] = store[sock[w]]
            BY <1>1, <2>2, <4>1, Constants DEF Buffers, OneSocket
      <4>3. msgs \in Seq(Bufs)
            BY DEF TypeOK, BufType
      <4>4. /\ Len(msgs') = Len(msgs) + 1 /\ msgs'[Len(msgs) + 1] = buf[u]
            /\ \A i \in 1..Len(msgs) : msgs'[i] = msgs[i]
            BY <4>1, <4>3
      <4> QED BY <2>2, <4>1, <4>2, <4>3, <4>4 DEF InMsgs
    <3> QED BY <3>1, <3>2
  <2> QED BY <1>1, <1>3, <2>2, <2>3, <2>4, <2>5, ContentsKept
<1> QED BY <1>2, <1>3, QuietStep DEF Apart

\* How a worker comes to have a message in its hands.
LEMMA ComesFrom ==
    ASSUME TypeOK, Quiet, Quiet', [Next]_vars, NEW w \in Workers,
           pc'[w] \in {"insert", "put", "remove"}, pc'[w] # pc[w]
    PROVE  \/ pc'[w] = "insert" /\ (RecvPiece(w) \/ RecvNothing(w))
           \/ pc'[w] = "put" /\ InsertClientMsgBufToHash(w)
           \/ pc'[w] = "remove" /\ PutMessageToQueue(w)
<1>1. ~Apart /\ \A u \in Workers \ {w} : ~Worker(u)
      BY OwnStep, ApartStep
<1>2. Worker(w)
      BY <1>1, QuietStep DEF Apart
<1>3. ~TeardownStep(w)
      BY OwnCalled DEF OwnCall
<1> QED BY <1>2, <1>3 DEF Worker, LockQueue, FindEmpty, FindNone, CondWait, WakeUp, ClaimSock, Fetch,
             RecvPiece, RecvNothing, RecvError, InsertClientMsgBufToHash, PutMessageToQueue,
             RemoveMsgBuf, ChangeHeartBeatPacketTime, Peek, Release, Requeue, WorkerSignal,
             TypeOK, WorkerType

LEMMA RightsNext ==
    ASSUME TypeOK, Buffers, Exclusive, DeadConns, MsgsApart, Measured, Rights, Quiet, Quiet', [Next]_vars
    PROVE  Rights'
<1> SUFFICES ASSUME NEW w \in Workers
             PROVE  /\ Finished(w)' => Right(w, buf[w])'
                    /\ (pc'[w] = "remove" /\ store'[sock'[w]] # None /\ InMsgs(store[sock[w]])')
                          => Right(w, store[sock[w]])'
    BY DEF Rights
<1>1. ASSUME pc'[w] = pc[w], Finished(w)' PROVE Right(w, buf[w])'
  <2>1. pc[w] \in {"insert", "put"} /\ buf[w] # None
        BY <1>1, Constants DEF Finished, TypeOK, BufType
  <2>2. buf'[w] = buf[w] /\ bytes'[buf[w]] = bytes[buf[w]]
        BY <1>1, <2>1, HandsOff
  <2>3. Finished(w)
        BY <1>1, <2>1, <2>2 DEF Finished, Complete
  <2>4. Right(w, buf[w])
        BY <2>3 DEF Rights
  <2> HIDE DEF Right
  <2>5. \A b : b = buf[w] => Right(w, b)'
        BY <1>1, <2>1, <2>2, <2>4, RightKept
  <2> QED BY <2>2, <2>5 DEF Right, LastOf
<1>2. ASSUME pc'[w] = pc[w], pc[w] = "remove", store'[sock'[w]] # None, InMsgs(store[sock[w]])'
      PROVE  Right(w, store[sock[w]])'
  <2>1. /\ sock'[w] = sock[w] /\ store'[sock[w]] = store[sock[w]]
        /\ bytes'[store[sock[w]]] = bytes[store[sock[w]]]
        /\ InMsgs(store[sock[w]]) /\ store[sock[w]] # None
        BY <1>2, HandsOff
  <2>2. Right(w, store[sock[w]])
        BY <1>2, <2>1 DEF Rights
  <2>3. \A b : b = store[sock[w]] => Right(w, b)'
        BY <1>2, <2>1, <2>2, RightKept
  <2> QED BY <2>1, <2>3 DEF Right, LastOf
<1>3. ASSUME pc'[w] # pc[w], Finished(w)' PROVE Right(w, buf[w])'
  <2>1. pc'[w] \in {"insert", "put"}
        BY <1>3 DEF Finished
  <2>2. CASE RecvPiece(w)
        BY <2>2, RightEarned
  <2>3. CASE RecvNothing(w)
    <3>1. /\ buf'[w] = buf[w] /\ bytes' = Remembered /\ buf[w] \in Bufs /\ pc[w] = "recv"
          /\ pc'[w] = "insert"
          BY <2>1, <2>3 DEF RecvNothing, TypeOK, WorkerType, BufType
    <3>2. bytes'[buf[w]] = bytes[buf[w]]
          BY <3>1, Rest
    <3>3. Complete(buf[w])
          BY <1>3, <3>1, <3>2 DEF Finished, Complete
    <3> QED BY <3>1, <3>3 DEF Measured
  <2>4. CASE InsertClientMsgBufToHash(w) /\ pc'[w] = "put"
    <3>1. /\ buf'[w] = buf[w] /\ bytes' = Remembered /\ buf[w] \in Bufs /\ pc[w] = "insert"
          /\ Complete(buf[w])
          BY <2>4 DEF InsertClientMsgBufToHash, TypeOK, WorkerType, BufType
    <3>2. bytes'[buf[w]] = bytes[buf[w]]
          BY <3>1, Rest
    <3>3. Right(w, buf[w])
          BY <3>1 DEF Rights, Finished
    <3>4. \A b : b = buf[w] => Right(w, b)'
          BY <2>4, <3>1, <3>2, <3>3, RightKept
    <3> QED BY <3>1, <3>4 DEF Right, LastOf
  <2> QED BY <1>3, <2>1, <2>2, <2>3, <2>4, ComesFrom
<1>4. ASSUME pc'[w] # pc[w], pc'[w] = "remove", store'[sock'[w]] # None, InMsgs(store[sock[w]])'
      PROVE  Right(w, store[sock[w]])'
  <2>0. PutMessageToQueue(w)
        BY <1>4, ComesFrom
  <2>1. /\ UNCHANGED <<sock, store>> /\ bytes' = Remembered /\ pc[w] = "put" /\ buf[w] \in Bufs
        /\ sock[w] \in Fds /\ pc[w] \in Holding \ {"remove"}
        BY <2>0 DEF PutMessageToQueue, TypeOK, WorkerType, BufType, Holding, Receiving
  <2>2. ~InMsgs(store[sock[w]])
        BY <1>4, <2>1, NotRemoved DEF Safe
  <2>3. store[sock[w]] = buf[w] /\ store[sock[w]] \in Bufs
    <3>1. CASE msgs' = msgs
          BY <1>4, <2>1, <2>2, <3>1 DEF InMsgs
    <3>2. CASE msgs' = Append(msgs, buf[w])
      <4>1. msgs \in Seq(Bufs)
            BY DEF TypeOK, BufType
      <4>2. /\ Len(msgs') = Len(msgs) + 1 /\ msgs'[Len(msgs) + 1] = buf[w]
            /\ \A i \in 1..Len(msgs) : msgs'[i] = msgs[i]
            BY <2>1, <3>2, <4>1
      <4>3. PICK i \in 1..Len(msgs') : msgs'[i] = store[sock[w]]
            BY <1>4, <2>1 DEF InMsgs
      <4>4. i = Len(msgs) + 1
            BY <2>2, <4>1, <4>2, <4>3 DEF InMsgs
      <4> QED BY <2>1, <4>2, <4>3, <4>4
    <3> QED BY <2>0, <3>1, <3>2 DEF PutMessageToQueue
  <2>4. bytes'[buf[w]] = bytes[buf[w]]
        BY <2>1, <2>3, Rest
  <2>5. Right(w, buf[w])
        BY <2>1 DEF Rights, Finished
  <2>6. \A b : b = buf[w] => Right(w, b)'
        BY <1>4, <2>1, <2>4, <2>5, RightKept
  <2> QED BY <2>1, <2>3, <2>6 DEF Right, LastOf
<1> QED BY <1>1, <1>2, <1>3, <1>4

\* Who frees a buffer.
LEMMA FreedBy ==
    ASSUME TypeOK, Quiet, Quiet', [Next]_vars, NEW b \in live, b \notin live'
    PROVE  \/ Forward /\ b = Head(msgs)
           \/ \E w \in Workers : buf[w] # None /\ b = buf[w]
           \/ \E w \in Workers : pc[w] = "insert" /\ store[sock[w]] # None /\ b = store[sock[w]]
           \/ \E w \in Workers : TeardownStep(w) /\ store[sock[w]] # None /\ b = store[sock[w]]
<1>0. b # None
      BY Constants DEF TypeOK, BufType
<1>1. CASE Apart
      BY <1>1 DEF Apart, Clients, ClientSend, ClientClose, Main, EpollWait, MainSignal, Register,
             InsertHeartbeatDetectItem, RefreshHeartbeat, Enqueue, AcceptConn, Forward,
             vars, bufVars
<1>2. ASSUME NEW w \in Workers, TeardownStep(w) PROVE store[sock[w]] # None /\ b = store[sock[w]]
      BY <1>0, <1>2, OwnCalled DEF OwnCall, DelClientMsgBuf, bufVars
<1>3. ASSUME NEW w \in Workers, Worker(w), ~TeardownStep(w)
      PROVE  \/ buf[w] # None /\ b = buf[w]
             \/ pc[w] = "insert" /\ store[sock[w]] # None /\ b = store[sock[w]]
      BY <1>0, <1>3 DEF Worker, LockQueue, FindEmpty, FindNone, CondWait, WakeUp, ClaimSock, Fetch,
             RecvPiece, RecvNothing, RecvError, InsertClientMsgBufToHash, PutMessageToQueue,
             RemoveMsgBuf, ChangeHeartBeatPacketTime, Peek, Release, Requeue, WorkerSignal, bufVars
<1> QED BY <1>1, <1>2, <1>3, QuietStep DEF Apart

\* The message of a connection that no stray call hit is not freed while it waits.
LEMMA WaitingKept ==
    ASSUME TypeOK, Buffers, Exclusive, MsgsApart, Rights, Quiet, Quiet', [Next]_vars,
           NEW k \in 1..Len(msgs), msgs[k] \in live, \E i \in 1..Len(msgs') : msgs'[i] = msgs[k],
           \A j \in 1..Len(bytes[msgs[k]]) : bytes[msgs[k]][j][1] \notin victims'
    PROVE  msgs[k] \in live'
<1> SUFFICES ASSUME msgs[k] \notin live' PROVE FALSE
    OBVIOUS
<1>0. InMsgs(msgs[k]) /\ msgs \in Seq(Bufs)
      BY DEF InMsgs, TypeOK, BufType
<1>1. CASE Forward /\ msgs[k] = Head(msgs)
  <2>1. msgs # <<>> /\ msgs' = Tail(msgs)
        BY <1>1 DEF Forward
  <2>2. Head(msgs) = msgs[1] /\ 1 \in 1..Len(msgs)
        BY <1>0, <2>1
  <2>3. \A i \in 1..Len(msgs') : i + 1 \in 1..Len(msgs) /\ msgs'[i] = msgs[i + 1] /\ i + 1 # 1
        BY <1>0, <2>1
  <2> QED BY <1>1, <2>2, <2>3 DEF MsgsApart
<1>2. ASSUME NEW w \in Workers, buf[w] # None, msgs[k] = buf[w] PROVE FALSE
      BY <1>0, <1>2 DEF MsgsApart
<1>3. ASSUME NEW w \in Workers, pc[w] = "insert", store[sock[w]] # None, msgs[k] = store[sock[w]]
      PROVE  FALSE
      BY <1>0, <1>3, NotRemoved DEF Safe, Holding, Receiving
<1>4. ASSUME NEW u \in Workers, TeardownStep(u), store[sock[u]] # None, msgs[k] = store[sock[u]]
      PROVE  FALSE
  <2> DEFINE b == msgs[k]
             f == sock[u]
  <2>1. OwnCall(u) /\ f \in Fds
        BY <1>4, OwnCalled DEF OwnCall
  <2>2. PICK v \in Workers : pc[v] = "remove" /\ sock[v] = f
        BY <1>0, <1>4, <2>1 DEF Buffers, TableSafe, Safe
  <2>3. Right(v, b)
        BY <1>0, <1>4, <2>2 DEF Rights
  <2>4. LastOf(b) \notin victims'
    <3>1. bytes[b] # <<>> /\ bytes[b] \in Seq((0..MaxConns) \X Nat)
          BY <1>0, <1>4, <2>1 DEF Buffers, NotEmpty, TypeOK, BufType
    <3>2. Len(bytes[b]) \in 1..Len(bytes[b])
          BY <3>1
    <3> QED BY <3>2 DEF LastOf
  <2>5. /\ conn[f] = LastOf(b) /\ conn[f] # 0
        /\ \A a \in Workers : td[a].at > 0 /\ td[a].fd = f => td[a].conn # LastOf(b)
        BY <2>2, <2>3, <2>4, VictimsGrow DEF Right
  <2>6. ~Owns(u)
        BY <2>1, <2>5 DEF Owns, OwnCall
  <2> QED BY <1>4, <2>1, <2>4, <2>5, <2>6, StrayCall
<1> QED BY <1>1, <1>2, <1>3, <1>4, FreedBy

\* A message that is handed over is allocated, unless a stray call hit its connection.
LEMMA HandedOver ==
    ASSUME TypeOK, Buffers, Exclusive, Rights, NEW w \in Workers, PutMessageToQueue(w),
           \A j \in 1..Len(bytes[buf[w]]) : bytes[buf[w]][j][1] \notin victims
    PROVE  buf[w] \in live /\ w \notin robbed /\ Right(w, buf[w]) /\ LastOf(buf[w]) \notin victims
<1>1. pc[w] = "put" /\ buf[w] \in Bufs /\ buf[w] # None /\ ~isnew[w]
      BY Constants DEF PutMessageToQueue, TypeOK, BufType, Buffers, OnlyFilling
<1>2. LastOf(buf[w]) \notin victims
  <2>1. bytes[buf[w]] # <<>> /\ bytes[buf[w]] \in Seq((0..MaxConns) \X Nat)
        BY <1>1 DEF Buffers, NotEmpty, TypeOK, BufType
  <2>2. Len(bytes[buf[w]]) \in 1..Len(bytes[buf[w]])
        BY <2>1
  <2> QED BY <2>2 DEF LastOf
<1>3. Right(w, buf[w])
      BY <1>1 DEF Rights, Finished
<1>4. w \notin robbed
      BY <1>2, <1>3 DEF Right
<1>5. Alone(w)
      BY <1>1, <1>4, AloneOrRobbed DEF Holding, Receiving
<1> QED BY <1>1, <1>2, <1>3, <1>4, <1>5 DEF Buffers, FoundSafe, Safe

LEMMA MessagesLiveNext ==
    ASSUME TypeOK, Buffers, Exclusive, MsgsApart, Rights, MessagesLive, Quiet, Quiet', [Next]_vars
    PROVE  MessagesLive'
<1> SUFFICES ASSUME NEW i \in 1..Len(msgs'),
                    \A j \in 1..Len(bytes'[msgs'[i]]) : bytes'[msgs'[i]][j][1] \notin victims'
             PROVE  msgs'[i] \in live'
    BY DEF MessagesLive
<1> DEFINE b == msgs'[i]
<1>1. /\ \A j \in 1..Len(bytes[b]) : bytes[b][j][1] \notin victims'
      /\ \A j \in 1..Len(bytes[b]) : bytes[b][j][1] \notin victims
      BY MessageKept, VictimsGrow
<1>2. ASSUME NEW k \in 1..Len(msgs), b = msgs[k] PROVE b \in live'
  <2>1. msgs[k] \in live
        BY <1>1, <1>2 DEF MessagesLive
  <2>2. \E n \in 1..Len(msgs') : msgs'[n] = msgs[k]
        BY <1>2
  <2> QED BY <1>1, <1>2, <2>1, <2>2, WaitingKept
<1>3. msgs \in Seq(Bufs)
      BY DEF TypeOK, BufType
<1>4. CASE msgs' = msgs
      BY <1>2, <1>4
<1>5. CASE msgs # <<>> /\ msgs' = Tail(msgs)
  <2>1. i + 1 \in 1..Len(msgs) /\ msgs'[i] = msgs[i + 1]
        BY <1>3, <1>5
  <2> QED BY <1>2, <2>1
<1>6. ASSUME NEW w \in Workers, PutMessageToQueue(w), msgs' = Append(msgs, buf[w]) PROVE b \in live'
  <2>1. buf[w] \in Bufs
        BY <1>6 DEF PutMessageToQueue, TypeOK, BufType
  <2>2. /\ Len(msgs') = Len(msgs) + 1 /\ msgs'[Len(msgs) + 1] = buf[w]
        /\ \A k \in 1..Len(msgs) : msgs'[k] = msgs[k]
        BY <1>3, <1>6, <2>1
  <2>3. live' = live
    <3>1. msgs' # msgs
          BY <1>3, <2>2
    <3> QED BY <1>6, <3>1 DEF PutMessageToQueue
  <2>4. CASE i \in 1..Len(msgs)
        BY <1>2, <2>2, <2>4
  <2>5. CASE i = Len(msgs) + 1
    <3>1. buf[w] \in live
          BY <1>1, <1>6, <2>2, <2>5, HandedOver
    <3> QED BY <2>2, <2>3, <2>5, <3>1
  <2> QED BY <1>3, <2>2, <2>4, <2>5
<1> QED BY <1>4, <1>5, <1>6, MsgsStep

-----------------------------------------------------------------------------
(* A message is whole.                                                        *)

InHand(w, f) == pc[w] \in Holding /\ sock[w] = f

\* A connection that nobody tears down, older than the first one a stray call hit.
Fresh(f) == Sound(f) /\ \A v \in victims : conn[f] < v

\* The last pieces that were read from f, from a message boundary on.
Fits(p, f) ==
    /\ Len(p) =< taken[f] /\ Len(p) =< MsgPieces
    /\ (taken[f] - Len(p)) % MsgPieces = 0
    /\ \A i \in 1..Len(p) : p[i] = <<conn[f], taken[f] - Len(p) + i>>

\* A worker that was robbed before the connection was accepted has read nothing from it.
Harmless(w, f) ==
    /\ store[f] = None /\ taken[f] = 0
    /\ pc[w] \in {"fetch", "recv", "insert", "release"}
    /\ pc[w] = "recv" /\ isnew[w] => bytes[buf[w]] = <<>>
    /\ pc[w] = "insert" => ~isnew[w] /\ ~Complete(buf[w])

InTable(f) == IF store[f] = None THEN taken[f] % MsgPieces = 0 ELSE Fits(bytes[store[f]], f)

\* What has been read and not handed on is in the hands of the worker that holds f, or in the table.
Ordered(f) ==
    /\ \A w \in Workers : (InHand(w, f) /\ pc[w] \in Filling /\ w \notin robbed) =>
          Fits(bytes[buf[w]], f) /\ store[f] = IF isnew[w] THEN None ELSE buf[w]
    /\ \A w \in Workers : (InHand(w, f) /\ w \in robbed) => Harmless(w, f)
    /\ \A w \in Workers : (InHand(w, f) /\ pc[w] = "remove") => taken[f] % MsgPieces = 0
    /\ (\A w \in Workers : InHand(w, f) => pc[w] \notin Filling \cup {"remove"}) => InTable(f)

InOrder == \A f \in Fds : Fresh(f) => Ordered(f)

Started ==
    /\ victims \subseteq 1..nconn
    /\ \A f \in Fds : conn[f] = 0 => taken[f] = 0

\* A worker that was left with a closed descriptor has nothing, or what was freed.
LeftOver(w) ==
    /\ pc[w] \in {"fetch", "recv"}
    /\ pc[w] = "recv" => (isnew[w] /\ bytes[buf[w]] = <<>>) \/ (~isnew[w] /\ w \in robbed)

Unspoilt(f) == store[f] = None /\ \A w \in Workers : InHand(w, f) => LeftOver(w)

\* Before the first stray call nothing is left under the key of a closed descriptor.
Unused == victims = {} => \A f \in Fds : conn[f] = 0 => Unspoilt(f)

\* What a worker's step leaves alone: the descriptors it does not hold.
LEMMA Elsewhere ==
    ASSUME TypeOK, Buffers, Exclusive, NEW w \in Workers, Worker(w), NEW f \in Fds,
           ~InHand(w, f), TeardownStep(w) => sock[w] # f
    PROVE  /\ taken'[f] = taken[f] /\ conn'[f] = conn[f] /\ store'[f] = store[f]
           /\ store[f] # None => bytes'[store[f]] = bytes[store[f]]
           /\ \A v \in Workers \ {w} :
                /\ pc'[v] = pc[v] /\ sock'[v] = sock[v] /\ buf'[v] = buf[v] /\ isnew'[v] = isnew[v]
                /\ (InHand(v, f) /\ pc[v] \in Filling) => bytes'[buf[v]] = bytes[buf[v]]
                /\ InHand(v, f) => (v \in robbed' <=> v \in robbed)
<1>1. RecvPiece(w) => sock[w] # f
      BY DEF RecvPiece, InHand, Holding, Receiving
<1>2. taken'[f] = taken[f] /\ conn'[f] = conn[f] /\ store'[f] = store[f]
  <2>1. CASE TeardownStep(w)
    <3>1. OwnCall(w) /\ sock[w] # f
          BY <2>1, OwnCalled
    <3> QED BY <3>1 DEF OwnCall, DelClientMsgBuf, CloseSock, bufVars, TypeOK, BufType, KernelType
  <2>2. CASE RecvPiece(w)
        BY <1>1, <2>2 DEF RecvPiece, TypeOK, KernelType
  <2>3. CASE InsertClientMsgBufToHash(w) \/ RemoveMsgBuf(w)
    <3>1. sock[w] # f
          BY <2>3 DEF InsertClientMsgBufToHash, RemoveMsgBuf, InHand, Holding, Receiving
    <3> QED BY <2>3, <3>1 DEF InsertClientMsgBufToHash, RemoveMsgBuf, TypeOK, BufType, kernelVars
  <2>4. CASE ~TeardownStep(w) /\ ~RecvPiece(w) /\ ~InsertClientMsgBufToHash(w) /\ ~RemoveMsgBuf(w)
        BY <2>4 DEF Worker, LockQueue, FindEmpty, FindNone, CondWait, WakeUp, ClaimSock, Fetch,
             RecvNothing, RecvError, PutMessageToQueue,
             ChangeHeartBeatPacketTime, Peek, Release, Requeue, WorkerSignal, kernelVars, bufVars
  <2> QED BY <2>1, <2>2, <2>3, <2>4
<1>3. store[f] # None => bytes'[store[f]] = bytes[store[f]]
      BY <1>1, <1>2, ContentsKept
<1>4. \A v \in Workers \ {w} :
          pc'[v] = pc[v] /\ sock'[v] = sock[v] /\ buf'[v] = buf[v] /\ isnew'[v] = isnew[v]
      BY OwnStep
<1>5. ASSUME NEW v \in Workers \ {w}, InHand(v, f), pc[v] \in Filling
      PROVE  bytes'[buf[v]] = bytes[buf[v]]
  <2>1. buf[v] # None /\ sock[v] = f
        BY <1>5, Constants DEF InHand, TypeOK, BufType, Filling
  <2> QED BY <1>1, <1>4, <2>1, ContentsKept
<1>6. ASSUME NEW v \in Workers \ {w}, InHand(v, f) PROVE v \in robbed' <=> v \in robbed
  <2>1. CASE TeardownStep(w)
    <3>1. OwnCall(w) /\ sock[w] # f
          BY <2>1, OwnCalled
    <3> QED BY <1>6, <3>1 DEF OwnCall, Rob, InHand
  <2>2. CASE Release(w)
    <3>1. sock[w] # f
          BY <2>2 DEF Release, InHand, Holding
    <3> QED BY <1>6, <2>2, <3>1 DEF Release, Rob, InHand
  <2>3. CASE ~TeardownStep(w) /\ ~Release(w)
        BY <2>3 DEF Worker, LockQueue, FindEmpty, FindNone, CondWait, WakeUp, ClaimSock, Fetch,
             RecvPiece, RecvNothing, RecvError, InsertClientMsgBufToHash, PutMessageToQueue,
             RemoveMsgBuf, ChangeHeartBeatPacketTime, Peek, Requeue, WorkerSignal, ghostVars
  <2> QED BY <2>1, <2>2, <2>3
<1> QED BY <1>2, <1>3, <1>4, <1>5, <1>6

\* Whoever claims a descriptor is the only one to hold it.
LEMMA ClaimsAlone ==
    ASSUME TypeOK, Exclusive, NEW w \in Workers, Worker(w), NEW f \in Fds, ~InHand(w, f), InHand(w, f)'
    PROVE  /\ pc'[w] = "fetch" /\ w \notin robbed'
           /\ \A v \in Workers : ~InHand(v, f)
<1>1. ~TeardownStep(w)
      BY OwnCalled DEF OwnCall, InHand, Holding, Receiving
<1>2. PICK i \in 1..Len(queue) : ClaimSock(w, i)
      BY <1>1 DEF Worker, LockQueue, FindEmpty, FindNone, CondWait, WakeUp, Fetch,
             RecvPiece, RecvNothing, RecvError, InsertClientMsgBufToHash, PutMessageToQueue,
             RemoveMsgBuf, ChangeHeartBeatPacketTime, Peek, Release, Requeue, WorkerSignal,
             InHand, Holding, Receiving, TypeOK, WorkerType
<1>3. f \notin claims /\ pc'[w] = "fetch" /\ w \notin robbed'
      BY <1>2 DEF ClaimSock, FirstFree, InHand, TypeOK, WorkerType
<1>4. \A v \in Workers : ~InHand(v, f)
      BY <1>3 DEF Exclusive, HoldsClaim, InHand
<1> QED BY <1>3, <1>4

-----------------------------------------------------------------------------
(* Where connections begin.                                                   *)

LEMMA StartedNext ==
    ASSUME TypeOK, Watch, Started, Quiet, Quiet', [Next]_vars
    PROVE  Started'
<1>1. nconn \in Nat /\ \A f \in Fds : conn[f] \in Nat /\ conn[f] =< nconn
      BY Constants DEF TypeOK, KernelType, Watch, Numbered
<1>2. CASE Apart
  <2>1. /\ nconn' \in Nat /\ nconn' >= nconn /\ victims' = victims /\ taken' = taken
        /\ \A f \in Fds : conn'[f] = 0 => conn[f] = 0
        BY <1>1, <1>2 DEF Apart, Clients, ClientSend, ClientClose, Main, EpollWait, MainSignal, Register,
             InsertHeartbeatDetectItem, RefreshHeartbeat, Enqueue, AcceptConn, Forward,
             vars, kernelVars, ghostVars, TypeOK, KernelType
  <2> QED BY <1>1, <2>1 DEF Started
<1>3. ASSUME NEW w \in Workers, TeardownStep(w) PROVE Started'
  <2>1. OwnCall(w) /\ victims' = Strays(w) /\ nconn' = nconn /\ td[w].fd \in Fds
        BY <1>3, OwnCalled DEF OwnCall, Call
  <2>2. victims' \subseteq 1..nconn
        BY <1>1, <2>1 DEF Strays, Started
  <2>3. \A f \in Fds : conn'[f] = 0 => taken'[f] = 0
        BY <2>1 DEF OwnCall, CloseSock, Started, TypeOK, KernelType
  <2> QED BY <2>1, <2>2, <2>3 DEF Started
<1>4. ASSUME NEW w \in Workers, Worker(w), ~TeardownStep(w) PROVE Started'
  <2>1. UNCHANGED <<conn, nconn>>
        BY <1>4 DEF Worker, LockQueue, FindEmpty, FindNone, CondWait, WakeUp, ClaimSock, Fetch,
             RecvPiece, RecvNothing, RecvError, InsertClientMsgBufToHash, PutMessageToQueue,
             RemoveMsgBuf, ChangeHeartBeatPacketTime, Peek, Release, Requeue, WorkerSignal, kernelVars
  <2>2. victims' = victims \/ (victims' = MeddleIfRobbed(w) /\ sock[w] \in Fds)
        BY <1>4 DEF Worker, LockQueue, FindEmpty, FindNone, CondWait, WakeUp, ClaimSock, Fetch,
             RecvPiece, RecvNothing, RecvError, InsertClientMsgBufToHash, PutMessageToQueue,
             RemoveMsgBuf, ChangeHeartBeatPacketTime, Peek, Release, Requeue, WorkerSignal, ghostVars,
             TypeOK, WorkerType, Holding, Receiving
  <2>3. victims' \subseteq 1..nconn
    <3>1. sock[w] \in Fds /\ conn[sock[w]] # 0 => conn[sock[w]] \in 1..nconn
          BY <1>1
    <3>2. victims' \subseteq victims \cup {conn[sock[w]]} /\ (victims' = victims \/ conn[sock[w]] # 0)
          BY <2>2 DEF MeddleIfRobbed
    <3> QED BY <2>2, <3>1, <3>2 DEF Started
  <2>4. \A f \in Fds : conn[f] = 0 => taken'[f] = taken[f]
    <3>1. CASE RecvPiece(w)
          BY <3>1 DEF RecvPiece, TypeOK, KernelType
    <3>2. CASE ~RecvPiece(w)
          BY <1>4, <3>2 DEF Worker, LockQueue, FindEmpty, FindNone, CondWait, WakeUp, ClaimSock, Fetch,
             RecvNothing, RecvError, InsertClientMsgBufToHash, PutMessageToQueue,
             RemoveMsgBuf, ChangeHeartBeatPacketTime, Peek, Release, Requeue, WorkerSignal, kernelVars
    <3> QED BY <3>1, <3>2
  <2> QED BY <2>1, <2>3, <2>4 DEF Started
<1> QED BY <1>2, <1>3, <1>4, QuietStep DEF Apart

\* A worker that holds a closed descriptor gets nothing from it.
LEMMA UnspoiltWorker ==
    ASSUME TypeOK, Buffers, Exclusive, NEW w \in Workers, Worker(w), ~TeardownStep(w), NEW f \in Fds,
           conn[f] = 0, Unspoilt(f)
    PROVE  Unspoilt(f)'
<1>1. CASE ~InHand(w, f)
  <2>1. /\ store'[f] = store[f]
        /\ \A v \in Workers \ {w} :
             /\ pc'[v] = pc[v] /\ sock'[v] = sock[v] /\ buf'[v] = buf[v] /\ isnew'[v] = isnew[v]
             /\ (InHand(v, f) /\ pc[v] \in Filling) => bytes'[buf[v]] = bytes[buf[v]]
             /\ InHand(v, f) => (v \in robbed' <=> v \in robbed)
        BY <1>1, Elsewhere
  <2>2. InHand(w, f)' => LeftOver(w)'
        BY <1>1, ClaimsAlone DEF LeftOver
  <2> QED BY <2>1, <2>2 DEF Unspoilt, InHand, LeftOver, Filling
<1>2. CASE InHand(w, f)
  <2>1. /\ pc[w] \in {"fetch", "recv"} /\ sock[w] = f /\ store[f] = None
        BY <1>2 DEF Unspoilt, LeftOver, InHand
  <2>2. (Fetch(w) \/ RecvError(w)) /\ UNCHANGED <<sock, store>>
        BY <2>1, ~TeardownStep(w) DEF Worker, LockQueue, FindEmpty, FindNone, CondWait, WakeUp, ClaimSock, Fetch,
             RecvPiece, RecvNothing, RecvError, InsertClientMsgBufToHash, PutMessageToQueue,
             RemoveMsgBuf, ChangeHeartBeatPacketTime, Peek, Release, Requeue, WorkerSignal,
             TypeOK, WorkerType
  <2>3. InHand(w, f)' => LeftOver(w)'
    <3>1. CASE RecvError(w)
          BY <3>1 DEF RecvError, InHand, Holding, Receiving, TypeOK, WorkerType
    <3>2. CASE Fetch(w)
      <4>1. pc'[w] = "recv" /\ isnew'[w] /\ bytes'[buf'[w]] = <<>>
            BY <2>1, <3>2 DEF Fetch, TypeOK, WorkerType, BufType
      <4> QED BY <4>1 DEF LeftOver
    <3> QED BY <2>2, <3>1, <3>2
  <2>4. \A v \in Workers \ {w} : ~InHand(v, f)'
        BY <1>2, OwnStep, OneHolder DEF InHand
  <2> QED BY <2>1, <2>2, <2>3, <2>4 DEF Unspoilt
<1> QED BY <1>1, <1>2

LEMMA UnusedNext ==
    ASSUME TypeOK, Watch, Buffers, Exclusive, DeadConns, Unused, Quiet, Quiet', [Next]_vars
    PROVE  Unused'
<1> SUFFICES ASSUME victims' = {}, NEW f \in Fds, conn'[f] = 0 PROVE Unspoilt(f)'
    BY DEF Unused
<1>1. victims = {}
      BY VictimsGrow
<1>2. CASE Apart
  <2>1. conn[f] = 0
        BY <1>2, Constants DEF Apart, Clients, ClientSend, ClientClose, Main, EpollWait, MainSignal, Register,
             InsertHeartbeatDetectItem, RefreshHeartbeat, Enqueue, AcceptConn, Forward,
             vars, kernelVars, TypeOK, KernelType
  <2>2. UNCHANGED <<pc, sock, buf, isnew, store, robbed>>
        BY <1>2, ApartStep
  <2>3. \A v \in Workers : buf[v] # None => bytes'[buf[v]] = bytes[buf[v]]
        BY <1>2, ContentsApart
  <2>4. \A v \in Workers : pc[v] = "recv" => buf[v] # None
        BY Constants DEF TypeOK, BufType
  <2> QED BY <1>1, <2>1, <2>2, <2>3, <2>4 DEF Unused, Unspoilt, InHand, LeftOver
<1>3. ASSUME NEW u \in Workers, TeardownStep(u) PROVE Unspoilt(f)'
  <2>1. /\ OwnCall(u) /\ td[u].at \in 1..6 /\ victims' = Strays(u) /\ Worker(u)
        BY <1>3, OwnCalled DEF OwnCall, Call, Calls, Worker
  <2>2. /\ ~InHand(u, f) /\ ~InHand(u, f)'
        BY <2>1 DEF OwnCall, InHand, Holding, Receiving
  <2>3. \A v \in Workers \ {u} :
          pc'[v] = pc[v] /\ sock'[v] = sock[v] /\ buf'[v] = buf[v] /\ isnew'[v] = isnew[v]
        BY <2>1, OwnStep
  <2>4. \A v \in Workers : pc[v] = "recv" => bytes'[buf[v]] = bytes[buf[v]]
    <3>1. ~RecvPiece(u) /\ UNCHANGED buf
          BY <2>1 DEF OwnCall, RecvPiece
    <3> QED BY <2>1, <3>1, ContentsKept, Constants DEF TypeOK, BufType
  <2>5. store'[f] \in {store[f], None} /\ robbed \subseteq robbed'
        BY <2>1 DEF OwnCall, DelClientMsgBuf, bufVars, Rob, TypeOK, BufType
  <2>6. CASE conn[f] = 0
        BY <1>1, <2>2, <2>3, <2>4, <2>5, <2>6 DEF Unused, Unspoilt, InHand, LeftOver
  <2>7. CASE conn[f] # 0
    <3>1. CloseSock(u) /\ sock[u] = f /\ td[u].at = 6
          BY <2>1, <2>7 DEF OwnCall, CloseSock, TypeOK, KernelType
    <3>2. Owns(u)
          BY <2>1, <2>7, <3>1 DEF Owns, OwnCall, Strays
    <3>3. /\ store[f] = None
          /\ \A w \in Workers \ {u} : InHand(w, f) => NothingRead(w)
          BY <2>1, <3>1, <3>2 DEF DeadConns, Dead, OwnCall, InHand
    <3>4. \A w \in Workers \ {u} : InHand(w, f) => w \in robbed'
          BY <2>1, <3>1 DEF OwnCall, Rob, InHand
    <3> QED BY <2>2, <2>3, <2>4, <2>5, <3>3, <3>4 DEF Unspoilt, InHand, LeftOver, NothingRead
  <2> QED BY <2>6, <2>7
<1>4. ASSUME NEW w \in Workers, Worker(w), ~TeardownStep(w) PROVE Unspoilt(f)'
  <2>1. conn' = conn
        BY <1>4 DEF Worker, LockQueue, FindEmpty, FindNone, CondWait, WakeUp, ClaimSock, Fetch,
             RecvPiece, RecvNothing, RecvError, InsertClientMsgBufToHash, PutMessageToQueue,
             RemoveMsgBuf, ChangeHeartBeatPacketTime, Peek, Release, Requeue, WorkerSignal, kernelVars
  <2> QED BY <1>1, <1>4, <2>1, UnspoiltWorker DEF Unused
<1> QED BY <1>2, <1>3, <1>4, QuietStep DEF Apart

-----------------------------------------------------------------------------
(* The order of the pieces.                                                   *)

\* A fresh connection was fresh before, or has just been accepted.
LEMMA FreshBefore ==
    ASSUME TypeOK, Watch, Quiet, Quiet', [Next]_vars, NEW f \in Fds, Fresh(f)'
    PROVE  (Fresh(f) /\ conn'[f] = conn[f]) \/ AcceptConn(f)
<1>1. victims \subseteq victims'
      BY VictimsGrow
<1>2. (Sound(f) /\ conn'[f] = conn[f]) \/ AcceptConn(f)
  <2>1. CASE Apart /\ ~AcceptConn(f)
    <3>1. conn'[f] = conn[f]
          BY <2>1 DEF Apart, Clients, ClientSend, ClientClose, Main, EpollWait, MainSignal, Register,
             InsertHeartbeatDetectItem, RefreshHeartbeat, Enqueue, AcceptConn, Forward,
             vars, kernelVars, TypeOK, KernelType
    <3>2. td' = td
          BY <2>1, ApartStep
    <3> QED BY <1>1, <3>1, <3>2 DEF Fresh, Sound, Torn
  <2>2. ASSUME NEW u \in Workers, TeardownStep(u) PROVE Sound(f) /\ conn'[f] = conn[f]
        BY <2>2, SoundBefore DEF Actors, Fresh
  <2>3. ASSUME NEW w \in Workers, Worker(w), ~TeardownStep(w) PROVE Sound(f) /\ conn'[f] = conn[f]
    <3>1. conn' = conn /\ (td' = td \/ (Begin(w, sock[w]) /\ td[w].at = 0))
          BY <2>3 DEF Worker, LockQueue, FindEmpty, FindNone, CondWait, WakeUp, ClaimSock, Fetch,
             RecvPiece, RecvNothing, RecvError, InsertClientMsgBufToHash, PutMessageToQueue,
             RemoveMsgBuf, ChangeHeartBeatPacketTime, Peek, Release, Requeue, WorkerSignal, kernelVars,
             TypeOK, TeardownType, Calls, Actors
    <3>2. Torn(f) => Torn(f)'
          BY <3>1 DEF Torn, Begin, TypeOK, TeardownType
    <3> QED BY <1>1, <3>1, <3>2 DEF Fresh, Sound
  <2> QED BY <2>1, <2>2, <2>3, QuietStep DEF Apart
<1> QED BY <1>1, <1>2 DEF Fresh

\* Steps that change nothing about a descriptor and those that hold it.
LEMMA OrderedKept ==
    ASSUME TypeOK, NEW f \in Fds, Ordered(f), conn'[f] = conn[f], taken'[f] = taken[f],
           store'[f] = store[f], store[f] # None => bytes'[store[f]] = bytes[store[f]],
           \A v \in Workers : InHand(v, f)' <=> InHand(v, f),
           \A v \in Workers : InHand(v, f) =>
              /\ pc'[v] = pc[v] /\ buf'[v] = buf[v] /\ isnew'[v] = isnew[v]
              /\ v \in robbed' <=> v \in robbed
              /\ pc[v] \in Filling => bytes'[buf[v]] = bytes[buf[v]]
    PROVE  Ordered(f)'
<1>1. ASSUME NEW v \in Workers, InHand(v, f)', pc'[v] \in Filling, v \notin robbed'
      PROVE  Fits(bytes[buf[v]], f)' /\ store'[f] = IF isnew'[v] THEN None ELSE buf'[v]
  <2>1. /\ InHand(v, f) /\ pc[v] \in Filling /\ v \notin robbed
        /\ buf'[v] = buf[v] /\ isnew'[v] = isnew[v] /\ bytes'[buf[v]] = bytes[buf[v]]
        BY <1>1
  <2>2. Fits(bytes[buf[v]], f) /\ store[f] = IF isnew[v] THEN None ELSE buf[v]
        BY <2>1 DEF Ordered
  <2> QED BY <2>1, <2>2 DEF Fits
<1>2. ASSUME NEW v \in Workers, InHand(v, f)', v \in robbed' PROVE Harmless(v, f)'
  <2>1. /\ InHand(v, f) /\ v \in robbed /\ Harmless(v, f)
        /\ pc'[v] = pc[v] /\ buf'[v] = buf[v] /\ isnew'[v] = isnew[v]
        /\ pc[v] \in Filling => bytes'[buf[v]] = bytes[buf[v]]
        BY <1>2 DEF Ordered
  <2> QED BY <2>1 DEF Harmless, Filling, Complete
<1>3. ASSUME NEW v \in Workers, InHand(v, f)', pc'[v] = "remove" PROVE taken'[f] % MsgPieces = 0
      BY <1>3 DEF Ordered
<1>4. ASSUME \A v \in Workers : InHand(v, f)' => pc'[v] \notin Filling \cup {"remove"}
      PROVE  InTable(f)'
  <2>1. InTable(f)
        BY <1>4 DEF Ordered
  <2> QED BY <2>1 DEF InTable, Fits
<1> QED BY <1>1, <1>2, <1>3, <1>4 DEF Ordered

\* A new connection under a descriptor with which nothing was left.
LEMMA OrderedAccept ==
    ASSUME TypeOK, Watch, Started, Unused, NEW f \in Fds, AcceptConn(f), Fresh(f)'
    PROVE  Ordered(f)'
<1>1. /\ UNCHANGED <<pc, sock, buf, isnew, store, bytes, taken, victims, robbed>>
      /\ conn[f] = 0 /\ conn'[f] = nconn + 1 /\ nconn \in Nat
      BY Constants DEF AcceptConn, workerVars, bufVars, ghostVars, TypeOK, KernelType
<1>2. victims = {}
      BY <1>1 DEF Fresh, Started
<1>3. taken[f] = 0 /\ Unspoilt(f)
      BY <1>1, <1>2 DEF Started, Unused
<1>4. 0 % MsgPieces = 0
      BY RecvPoolAssumption DEF RecvPoolAssumption
<1>5. ASSUME NEW w \in Workers, InHand(w, f), pc[w] \in Filling, w \notin robbed
      PROVE  Fits(bytes[buf[w]], f)' /\ store[f] = IF isnew[w] THEN None ELSE buf[w]
  <2>1. isnew[w] /\ bytes[buf[w]] = <<>> /\ store[f] = None
        BY <1>3, <1>5 DEF Unspoilt, LeftOver, Filling
  <2>2. Len(<<>>) = 0 /\ 0 =< MsgPieces /\ 0 =< 0 /\ 0 - 0 = 0
        BY RecvPoolAssumption DEF RecvPoolAssumption
  <2> QED BY <1>1, <1>3, <1>4, <2>1, <2>2 DEF Fits
<1>6. ASSUME NEW w \in Workers, InHand(w, f), w \in robbed PROVE Harmless(w, f)'
      BY <1>1, <1>3, <1>6 DEF Unspoilt, LeftOver, Harmless
<1>7. \A w \in Workers : InHand(w, f) => pc[w] # "remove"
      BY <1>3 DEF Unspoilt, LeftOver
<1>8. InTable(f)'
      BY <1>1, <1>3, <1>4 DEF Unspoilt, InTable
<1> QED BY <1>1, <1>5, <1>6, <1>7, <1>8 DEF Ordered, InHand

\* Steps of workers that do not hold the descriptor.
LEMMA OrderedElsewhere ==
    ASSUME TypeOK, Buffers, Exclusive, NEW w \in Workers, Worker(w), NEW f \in Fds,
           ~InHand(w, f), TeardownStep(w) => sock[w] # f, Ordered(f)
    PROVE  Ordered(f)'
<1>1. /\ taken'[f] = taken[f] /\ conn'[f] = conn[f] /\ store'[f] = store[f]
      /\ store[f] # None => bytes'[store[f]] = bytes[store[f]]
      /\ \A v \in Workers \ {w} :
           /\ pc'[v] = pc[v] /\ sock'[v] = sock[v] /\ buf'[v] = buf[v] /\ isnew'[v] = isnew[v]
           /\ (InHand(v, f) /\ pc[v] \in Filling) => bytes'[buf[v]] = bytes[buf[v]]
           /\ InHand(v, f) => (v \in robbed' <=> v \in robbed)
      BY Elsewhere
<1>2. CASE ~InHand(w, f)'
  <2>1. \A v \in Workers : InHand(v, f)' <=> InHand(v, f)
        BY <1>1, <1>2 DEF InHand
  <2> QED BY <1>1, <2>1, OrderedKept
<1>3. CASE InHand(w, f)'
  <2>1. pc'[w] = "fetch" /\ w \notin robbed' /\ \A v \in Workers : ~InHand(v, f)
        BY <1>3, ClaimsAlone
  <2>2. InTable(f)
        BY <2>1 DEF Ordered
  <2>3. InTable(f)'
        BY <1>1, <2>2 DEF InTable, Fits
  <2>4. \A v \in Workers : InHand(v, f)' => v = w
        BY <1>1, <2>1 DEF InHand
  <2> QED BY <2>1, <2>3, <2>4 DEF Ordered, Filling
<1> QED BY <1>2, <1>3

\* What the holder of a descriptor keeps in order.
OwnOrder(w, f) ==
    /\ (InHand(w, f) /\ pc[w] \in Filling /\ w \notin robbed) =>
          Fits(bytes[buf[w]], f) /\ store[f] = IF isnew[w] THEN None ELSE buf[w]
    /\ (InHand(w, f) /\ w \in robbed) => Harmless(w, f)
    /\ (InHand(w, f) /\ pc[w] = "remove") => taken[f] % MsgPieces = 0
    /\ (InHand(w, f) => pc[w] \notin Filling \cup {"remove"}) => InTable(f)

\* The holder reads f: it stays fresh, and nobody else holds it.
Holder(w, f) ==
    /\ TypeOK /\ Buffers /\ Measured /\ w \in Workers /\ f \in Fds
    /\ InHand(w, f) /\ Fresh(f) /\ Fresh(f)' /\ OwnOrder(w, f)

\* Multiples of a number.
LEMMA Division ==
    ASSUME NEW m \in Nat, m > 0, NEW x \in Nat
    PROVE  x \div m \in Int /\ x = m * (x \div m) + (x % m)
OBVIOUS

LEMMA Multiple ==
    ASSUME NEW m \in Nat, m > 0, NEW x \in Nat, x % m = 0
    PROVE  \E q \in Int : x = m * q
<1>1. x \div m \in Int /\ x = m * (x \div m) + (x % m)
      BY Division
<1>2. m * (x \div m) + 0 = m * (x \div m)
      BY <1>1
<1>3. x = m * (x \div m)
      BY <1>1, <1>2, Zenon
<1> QED BY <1>1, <1>3, Zenon

LEMMA NextMultiple ==
    ASSUME NEW m \in Nat, m > 0, NEW x \in Nat, x % m = 0
    PROVE  (x + m) % m = 0
<1>1. PICK q \in Int : x = m * q
      BY Multiple
<1>2. x + m = m * (q + 1)
      BY <1>1
<1>3. (m * (q + 1)) % m = 0
      BY <1>1
<1> QED BY <1>2, <1>3

LEMMA Pieces ==
    /\ MsgPieces \in Nat /\ MsgPieces > 0 /\ 0 % MsgPieces = 0 /\ Len(<<>>) = 0
    /\ \A x \in Nat : x % MsgPieces = 0 => (x + MsgPieces) % MsgPieces = 0
<1>1. MsgPieces \in Nat /\ MsgPieces > 0
      BY RecvPoolAssumption DEF RecvPoolAssumption
<1>2. ASSUME NEW m \in Nat, m > 0 PROVE 0 % m = 0
      BY <1>2
<1>3. Len(<<>>) = 0
      OBVIOUS
<1>4. \A x \in Nat : x % MsgPieces = 0 => (x + MsgPieces) % MsgPieces = 0
      BY <1>1, NextMultiple
<1> QED BY <1>1, <1>2, <1>3, <1>4

LEMMA FitsNothing == ASSUME TypeOK, NEW f \in Fds PROVE Fits(<<>>, f) <=> taken[f] % MsgPieces = 0
<1>1. taken[f] \in Nat /\ MsgPieces \in Nat /\ 0 =< MsgPieces /\ 0 =< taken[f] /\ taken[f] - 0 = taken[f]
      BY Pieces DEF TypeOK, KernelType
<1>2. Len(<<>>) = 0 /\ 1..0 = {}
      OBVIOUS
<1> QED BY <1>1, <1>2 DEF Fits

LEMMA OrderFetch == ASSUME NEW w, NEW f, Holder(w, f), Fetch(w) PROVE OwnOrder(w, f)'
<1>1. /\ TypeOK /\ w \in Workers /\ f \in Fds /\ f = sock[w] /\ pc[w] = "fetch" /\ pc'[w] = "recv"
      /\ UNCHANGED <<sock, store, taken, conn, robbed>>
      /\ w \in robbed => Harmless(w, f)
      BY DEF Holder, OwnOrder, InHand, Fetch, kernelVars, ghostVars, TypeOK, WorkerType
<1>2. InTable(f)
      BY <1>1 DEF Holder, OwnOrder, Filling
<1>3. CASE store[f] # None
  <2>1. buf'[w] = store[f] /\ ~isnew'[w] /\ bytes' = bytes
        BY <1>1, <1>3 DEF Fetch, TypeOK, BufType
  <2>2. Fits(bytes[store[f]], f) /\ w \notin robbed
        BY <1>1, <1>2, <1>3 DEF InTable, Harmless
  <2>3. Fits(bytes[buf[w]], f)'
        BY <1>1, <2>1, <2>2 DEF Fits
  <2> QED BY <1>1, <2>1, <2>2, <2>3 DEF OwnOrder, Filling, InHand, Holding, Receiving
<1>4. CASE store[f] = None
  <2>1. isnew'[w] /\ bytes'[buf'[w]] = <<>>
        BY <1>1, <1>4 DEF Fetch, TypeOK, BufType
  <2>2. Fits(<<>>, f)
        BY <1>1, <1>2, <1>4, FitsNothing DEF InTable
  <2>3. Fits(bytes[buf[w]], f)'
        BY <1>1, <2>1, <2>2 DEF Fits
  <2>4. w \in robbed => Harmless(w, f)'
        BY <1>1, <2>1 DEF Harmless
  <2> QED BY <1>1, <1>4, <2>1, <2>3, <2>4 DEF OwnOrder, Filling, InHand, Holding, Receiving
<1> QED BY <1>3, <1>4

LEMMA OrderPiece == ASSUME NEW w, NEW f, Holder(w, f), RecvPiece(w) PROVE OwnOrder(w, f)'
<1> DEFINE b == buf[w]
           p == bytes[b]
           q == bytes'[b]
           x == <<conn[f], taken[f] + 1>>
<1>1. /\ TypeOK /\ w \in Workers /\ f \in Fds /\ f = sock[w] /\ pc[w] = "recv" /\ pc'[w] \in {"recv", "insert"}
      /\ UNCHANGED <<sock, store, conn, robbed, buf, isnew>> /\ victims' = MeddleIfRobbed(w)
      /\ bytes' = [bytes EXCEPT ![b] = Append(@, x)] /\ taken' = [taken EXCEPT ![f] = @ + 1]
      BY DEF Holder, InHand, RecvPiece, TypeOK, WorkerType
<1>2. w \notin robbed
      BY <1>1 DEF Holder, Fresh, Sound, MeddleIfRobbed
<1>3. b \in Bufs /\ p \in Seq((0..MaxConns) \X Nat) /\ taken[f] \in Nat /\ taken'[f] = taken[f] + 1
      BY <1>1 DEF TypeOK, BufType, KernelType
<1>4. Fits(p, f) /\ store[f] = IF isnew[w] THEN None ELSE b
      BY <1>1, <1>2 DEF Holder, OwnOrder, Filling
<1>5. ~(Len(p) >= MsgPieces)
      BY <1>1 DEF Holder, Measured, Complete
<1>6. /\ Len(p) \in Nat /\ Len(q) = Len(p) + 1 /\ q[Len(p) + 1] = x
      /\ \A i \in 1..Len(p) : q[i] = p[i]
  <2>1. q = Append(p, x)
        BY <1>1, <1>3 DEF TypeOK, BufType
  <2> QED BY <1>3, <2>1
<1>7. /\ Len(q) =< taken'[f] /\ Len(q) =< MsgPieces /\ (taken'[f] - Len(q)) % MsgPieces = 0
      /\ \A i \in 1..Len(q) : q[i] = <<conn'[f], taken'[f] - Len(q) + i>>
  <2> HIDE DEF p, q, x
  <2>1. Len(q) =< taken'[f] /\ Len(q) =< MsgPieces
        BY <1>3, <1>4, <1>5, <1>6, Pieces DEF Fits
  <2>2. taken'[f] - Len(q) = taken[f] - Len(p)
    <3>1. taken[f] \in Nat /\ taken'[f] = taken[f] + 1 /\ Len(p) \in Nat /\ Len(q) = Len(p) + 1
          BY <1>3, <1>6
    <3>2. (taken[f] + 1) - (Len(p) + 1) = taken[f] - Len(p)
          BY <3>1
    <3> QED BY <3>1, <3>2, Zenon
  <2>3. (taken'[f] - Len(q)) % MsgPieces = 0
        BY <1>4, <2>2 DEF Fits
  <2>4. \A i \in 1..Len(p) : q[i] = <<conn[f], taken'[f] - Len(q) + i>>
        BY <1>4, <1>6, <2>2 DEF Fits
  <2>5. q[Len(p) + 1] = <<conn[f], taken'[f] - Len(q) + (Len(p) + 1)>>
    <3>1. taken'[f] - Len(q) + (Len(p) + 1) = taken[f] + 1
          BY <1>3, <1>6
    <3> QED BY <1>6, <3>1 DEF x
  <2>6. \A i \in 1..Len(q) : i \in 1..Len(p) \/ i = Len(p) + 1
        BY <1>6
  <2>7. \A i \in 1..Len(q) : q[i] = <<conn'[f], taken'[f] - Len(q) + i>>
        BY <1>1, <2>4, <2>5, <2>6
  <2> QED BY <2>1, <2>3, <2>7
<1>8. Fits(bytes[buf[w]], f)'
      BY <1>1, <1>7 DEF Fits
<1>9. pc'[w] # "remove" /\ pc'[w] \in Filling /\ InHand(w, f)'
      BY <1>1 DEF Filling, InHand, Holding, Receiving
<1> HIDE DEF x, p, q
<1> QED BY <1>1, <1>2, <1>4, <1>8, <1>9 DEF OwnOrder, Filling, InHand

LEMMA OrderNothing == ASSUME NEW w, NEW f, Holder(w, f), RecvNothing(w) PROVE OwnOrder(w, f)'
<1>1. /\ TypeOK /\ w \in Workers /\ f \in Fds /\ f = sock[w] /\ pc[w] = "recv"
      /\ UNCHANGED <<sock, store, conn, taken, robbed>> /\ bytes' = Remembered
      /\ buf[w] \in Bufs /\ buf[w] # None
      /\ w \in robbed => Harmless(w, f)
      BY Constants DEF Holder, OwnOrder, InHand, RecvNothing, kernelVars, ghostVars, TypeOK, BufType
<1>2. store[f] # None => bytes'[store[f]] = bytes[store[f]]
      BY <1>1, Rest DEF TypeOK, BufType
<1>3. CASE bytes[buf[w]] = <<>>
  <2>1. pc'[w] = "release"
        BY <1>1, <1>3 DEF RecvNothing, TypeOK, WorkerType
  <2>2. store[f] = None /\ taken[f] % MsgPieces = 0
    <3>1. CASE w \in robbed
          BY <1>1, <3>1, Pieces DEF Harmless
    <3>2. CASE w \notin robbed
      <4>1. Fits(bytes[buf[w]], f) /\ store[f] = IF isnew[w] THEN None ELSE buf[w]
            BY <1>1, <3>2 DEF Holder, OwnOrder, Filling
      <4>2. isnew[w]
            BY <1>1, <1>3 DEF Holder, Buffers, NotEmpty
      <4> QED BY <1>1, <1>3, <4>1, <4>2, FitsNothing
    <3> QED BY <3>1, <3>2
  <2>3. InTable(f)'
        BY <1>1, <2>2 DEF InTable
  <2>4. w \in robbed => Harmless(w, f)'
        BY <1>1, <2>1 DEF Harmless
  <2> QED BY <1>1, <2>1, <2>3, <2>4 DEF OwnOrder, Filling
<1>4. CASE bytes[buf[w]] # <<>>
  <2>1. pc'[w] = "insert" /\ UNCHANGED <<buf, isnew>>
        BY <1>1, <1>4 DEF RecvNothing, TypeOK, WorkerType
  <2>2. bytes'[buf[w]] = bytes[buf[w]]
        BY <1>1, <2>1, Rest
  <2>3. w \notin robbed => Fits(bytes[buf[w]], f)' /\ store[f] = IF isnew[w] THEN None ELSE buf[w]
    <3>1. w \notin robbed => Fits(bytes[buf[w]], f) /\ store[f] = IF isnew[w] THEN None ELSE buf[w]
          BY <1>1 DEF Holder, OwnOrder, Filling
    <3> QED BY <1>1, <2>1, <2>2, <3>1 DEF Fits
  <2>4. w \in robbed => Harmless(w, f)'
    <3>1. ~Complete(buf[w])
          BY <1>1 DEF Holder, Measured
    <3>2. ~Complete(buf[w])'
          BY <2>1, <2>2, <3>1 DEF Complete
    <3>3. w \in robbed => ~isnew[w]
          BY <1>1, <1>4 DEF Harmless
    <3> QED BY <1>1, <2>1, <3>2, <3>3 DEF Harmless
  <2> QED BY <1>1, <2>1, <2>3, <2>4 DEF OwnOrder, Filling, InHand, Holding, Receiving
<1> QED BY <1>3, <1>4

LEMMA OrderInsert == ASSUME NEW w, NEW f, Holder(w, f), InsertClientMsgBufToHash(w) PROVE OwnOrder(w, f)'
<1>1. /\ TypeOK /\ w \in Workers /\ f \in Fds /\ f = sock[w] /\ pc[w] = "insert" /\ ~isnew'[w]
      /\ UNCHANGED <<sock, conn, taken, robbed>> /\ bytes' = Remembered
      /\ buf[w] \in Bufs /\ buf[w] # None
      /\ w \in robbed => Harmless(w, f)
      /\ store'[f] = IF isnew[w] THEN buf[w] ELSE store[f]
      BY Constants DEF Holder, OwnOrder, InHand, InsertClientMsgBufToHash, kernelVars, ghostVars, TypeOK, BufType
<1>2. CASE w \in robbed
  <2>1. ~isnew[w] /\ ~Complete(buf[w]) /\ store[f] = None /\ taken[f] = 0
        BY <1>1, <1>2 DEF Harmless
  <2>2. pc'[w] = "release" /\ store'[f] = None
        BY <1>1, <2>1 DEF InsertClientMsgBufToHash, TypeOK, WorkerType
  <2>3. InTable(f)' /\ Harmless(w, f)'
        BY <1>1, <2>1, <2>2, Pieces DEF InTable, Harmless
  <2> QED BY <1>1, <1>2, <2>2, <2>3 DEF OwnOrder, Filling
<1>3. CASE w \notin robbed
  <2>1. Fits(bytes[buf[w]], f) /\ store[f] = IF isnew[w] THEN None ELSE buf[w]
        BY <1>1, <1>3 DEF Holder, OwnOrder, Filling
  <2>2. store'[f] = buf[w]
        BY <1>1, <2>1
  <2>3. bytes'[buf[w]] = bytes[buf[w]]
        BY <1>1, <2>2, Rest
  <2>4. \/ pc'[w] = "put" /\ buf'[w] = buf[w]
        \/ pc'[w] = "release"
        BY <1>1 DEF InsertClientMsgBufToHash, TypeOK, WorkerType, BufType
  <2>5. InTable(f)' /\ (buf'[w] = buf[w] => Fits(bytes[buf[w]], f)')
        BY <1>1, <2>1, <2>2, <2>3 DEF InTable, Fits
  <2> QED BY <1>1, <1>3, <2>2, <2>4, <2>5 DEF OwnOrder, Filling
<1> QED BY <1>2, <1>3

LEMMA OrderPut == ASSUME NEW w, NEW f, Holder(w, f), PutMessageToQueue(w) PROVE OwnOrder(w, f)'
<1>1. /\ TypeOK /\ w \in Workers /\ f \in Fds /\ f = sock[w] /\ pc[w] = "put" /\ pc'[w] = "remove"
      /\ UNCHANGED <<sock, conn, taken, robbed, store>>
      /\ w \in robbed => Harmless(w, f)
      BY DEF Holder, OwnOrder, InHand, PutMessageToQueue, kernelVars, ghostVars, TypeOK, WorkerType
<1>2. w \notin robbed
      BY <1>1 DEF Harmless
<1>3. Fits(bytes[buf[w]], f)
      BY <1>1, <1>2 DEF Holder, OwnOrder, Filling
<1>4. Len(bytes[buf[w]]) >= MsgPieces /\ Len(bytes[buf[w]]) \in Nat
      BY <1>1 DEF Holder, Measured, Complete, TypeOK, BufType
<1>5. taken[f] % MsgPieces = 0
  <2>1. Len(bytes[buf[w]]) = MsgPieces /\ taken[f] \in Nat
        BY <1>1, <1>3, <1>4, Pieces DEF Fits, TypeOK, KernelType
  <2>2. MsgPieces =< taken[f] /\ (taken[f] - MsgPieces) % MsgPieces = 0
        BY <1>3, <2>1 DEF Fits
  <2>3. taken[f] - MsgPieces \in Nat /\ (taken[f] - MsgPieces) + MsgPieces = taken[f]
        BY <2>1, <2>2, Pieces
  <2>4. ((taken[f] - MsgPieces) + MsgPieces) % MsgPieces = 0
        BY <2>2, <2>3, Pieces
  <2> QED BY <2>3, <2>4
<1> QED BY <1>1, <1>2, <1>5 DEF OwnOrder, Filling, InHand, Holding, Receiving

LEMMA OrderRemove == ASSUME NEW w, NEW f, Holder(w, f), RemoveMsgBuf(w) PROVE OwnOrder(w, f)'
<1>1. /\ TypeOK /\ w \in Workers /\ f \in Fds /\ f = sock[w] /\ pc[w] = "remove" /\ pc'[w] = "beat"
      /\ UNCHANGED <<sock, conn, taken, robbed>>
      /\ w \in robbed => Harmless(w, f)
      /\ store'[f] = None /\ taken[f] % MsgPieces = 0
      BY DEF Holder, OwnOrder, InHand, RemoveMsgBuf, kernelVars, TypeOK, WorkerType, BufType
<1>2. w \notin robbed
      BY <1>1 DEF Harmless
<1> QED BY <1>1, <1>2 DEF OwnOrder, Filling, InHand, InTable

LEMMA OrderLeave ==
    ASSUME NEW w, NEW f, Holder(w, f), ChangeHeartBeatPacketTime(w) \/ Peek(w) \/ Release(w)
    PROVE  OwnOrder(w, f)'
<1>1. /\ TypeOK /\ w \in Workers /\ f \in Fds /\ f = sock[w]
      /\ pc[w] \in {"beat", "peek", "release", "releaseAgain"}
      /\ UNCHANGED <<conn, taken, store, bytes>>
      /\ w \in robbed => Harmless(w, f)
      /\ pc[w] \in {"beat", "peek"} => robbed' = robbed
      BY DEF Holder, OwnOrder, InHand, ChangeHeartBeatPacketTime, Peek, Release, kernelVars, ghostVars, bufVars
<1>2. InTable(f)
      BY <1>1 DEF Holder, OwnOrder, Filling
<1>3. InTable(f)'
      BY <1>1, <1>2 DEF InTable, Fits
<1>4. pc'[w] \notin Filling \cup {"remove"}
      BY <1>1 DEF ChangeHeartBeatPacketTime, Peek, Release, TypeOK, WorkerType, Filling
<1>5. pc[w] \in {"release", "releaseAgain"} => ~InHand(w, f)'
      BY <1>1 DEF ChangeHeartBeatPacketTime, Peek, Release, InHand, TypeOK, WorkerType, Holding, Receiving
<1>6. pc[w] \in {"beat", "peek"} => w \notin robbed'
      BY <1>1 DEF Harmless
<1> QED BY <1>1, <1>3, <1>4, <1>5, <1>6 DEF OwnOrder

\* Every step of the holder.
LEMMA OrderWorker ==
    ASSUME NEW w, NEW f, Holder(w, f), Worker(w)
    PROVE  OwnOrder(w, f)'
<1>1. /\ w \in Workers /\ pc[w] \in Holding /\ sock[w] = f /\ f \in Fds /\ TypeOK
      BY DEF Holder, InHand
<1>2. ~TeardownStep(w) /\ ~RecvError(w)
  <2>1. ~TeardownStep(w)
        BY <1>1, OwnCalled DEF OwnCall, Holding, Receiving
  <2>2. RecvError(w) => Torn(f)'
    <3>1. RecvError(w) => /\ td'[w] = [fd |-> f, conn |-> conn[f], at |-> 1] /\ conn' = conn
                          /\ w \in Actors
          BY <1>1 DEF RecvError, Begin, TypeOK, TeardownType, Actors, kernelVars
    <3> QED BY <3>1 DEF Torn
  <2> QED BY <2>1, <2>2 DEF Holder, Fresh, Sound
<1>3. \/ Fetch(w) \/ RecvPiece(w) \/ RecvNothing(w) \/ InsertClientMsgBufToHash(w)
      \/ PutMessageToQueue(w) \/ RemoveMsgBuf(w) \/ ChangeHeartBeatPacketTime(w) \/ Peek(w) \/ Release(w)
      BY <1>1, <1>2 DEF Worker, LockQueue, FindEmpty, FindNone, CondWait, WakeUp, ClaimSock, Requeue,
             WorkerSignal, Holding, Receiving
<1> QED BY <1>3, OrderFetch, OrderPiece, OrderNothing, OrderInsert, OrderPut, OrderRemove, OrderLeave

LEMMA InOrderNext ==
    ASSUME TypeOK, Watch, Buffers, Exclusive, Measured, Started, Unused, InOrder, Quiet, Quiet',
           [Next]_vars
    PROVE  InOrder'
<1> SUFFICES ASSUME NEW f \in Fds, Fresh(f)' PROVE Ordered(f)'
    BY DEF InOrder
<1>1. CASE AcceptConn(f)
      BY <1>1, OrderedAccept
<1>2. CASE ~AcceptConn(f)
  <2>1. Fresh(f) /\ conn'[f] = conn[f] /\ Ordered(f)
        BY <1>2, FreshBefore DEF InOrder
  <2>2. CASE Apart
    <3>1. UNCHANGED <<pc, sock, buf, isnew, store, robbed>>
          BY <2>2, ApartStep
    <3>2. taken' = taken
          BY <2>2 DEF Apart, Clients, ClientSend, ClientClose, Main, EpollWait, MainSignal, Register,
             InsertHeartbeatDetectItem, RefreshHeartbeat, Enqueue, AcceptConn, Forward,
             vars, kernelVars
    <3>3. /\ \A v \in Workers : pc[v] \in Filling => bytes'[buf[v]] = bytes[buf[v]]
          /\ store[f] # None => bytes'[store[f]] = bytes[store[f]]
          BY <2>2, ContentsApart, Constants DEF TypeOK, BufType, Filling
    <3>4. \A v \in Workers : InHand(v, f)' <=> InHand(v, f)
          BY <3>1 DEF InHand
    <3> QED BY <2>1, <3>1, <3>2, <3>3, <3>4, OrderedKept
  <2>3. ASSUME NEW w \in Workers, Worker(w), ~InHand(w, f) PROVE Ordered(f)'
    <3>1. TeardownStep(w) => sock[w] # f
          BY SoundBefore, OwnCalled DEF Fresh, OwnCall, Actors
    <3> QED BY <2>1, <2>3, <3>1, OrderedElsewhere
  <2>4. ASSUME NEW w \in Workers, Worker(w), InHand(w, f) PROVE Ordered(f)'
    <3>1. \A v \in Workers \ {w} : ~InHand(v, f)
          BY <2>4, OneHolder DEF InHand
    <3>2. OwnOrder(w, f)
          BY <2>1, <3>1 DEF Ordered, OwnOrder
    <3>3. OwnOrder(w, f)'
          BY <2>1, <2>4, <3>2, OrderWorker DEF Holder
    <3>4. \A v \in Workers \ {w} : ~InHand(v, f)'
          BY <2>4, <3>1, OwnStep DEF InHand
    <3> QED BY <3>3, <3>4 DEF Ordered, OwnOrder
  <2> QED BY <2>2, <2>3, <2>4, QuietStep DEF Apart
<1> QED BY <1>1, <1>2

-----------------------------------------------------------------------------
(* The theorems about messages.                                               *)

\* What is handed over is one message of one client, if no stray call hit an earlier connection.
LEMMA WholeHandedOver ==
    ASSUME TypeOK, Buffers, Exclusive, Measured, Rights, InOrder, Quiet, NEW w \in Workers,
           PutMessageToQueue(w),
           \A j \in 1..Len(bytes[buf[w]]) : \A c \in victims : bytes[buf[w]][j][1] < c
    PROVE  Len(bytes[buf[w]]) = MsgPieces /\ Aligned(bytes[buf[w]])
<1> DEFINE p == bytes[buf[w]]
           f == sock[w]
<1>1. /\ pc[w] = "put" /\ buf[w] \in Bufs /\ f \in Fds /\ InHand(w, f)
      /\ p \in Seq((0..MaxConns) \X Nat) /\ taken[f] \in Nat /\ conn[f] \in Nat
      BY Constants DEF PutMessageToQueue, TypeOK, BufType, WorkerType, KernelType, InHand, Holding, Receiving
<1>2. Len(p) \in Nat /\ Len(p) >= MsgPieces /\ Len(p) \in 1..Len(p)
      BY <1>1, Pieces DEF Measured, Complete
<1>3. \A j \in 1..Len(p) : p[j][1] \in 0..MaxConns /\ p[j][1] \notin victims
  <2>1. \A j \in 1..Len(p) : p[j][1] \in 0..MaxConns
        BY <1>1
  <2> QED BY <2>1, Constants
<1>4. /\ w \notin robbed /\ Right(w, buf[w]) /\ LastOf(buf[w]) \notin victims
      BY <1>3, HandedOver
<1>5. LastOf(buf[w]) = p[Len(p)][1]
      BY DEF LastOf
<1>6. /\ conn[f] # 0 /\ conn[f] = p[Len(p)][1]
      /\ \A a \in Workers : td[a].at > 0 /\ td[a].fd = f => td[a].conn # conn[f]
      BY <1>4, <1>5 DEF Right
<1>7. Fresh(f)
  <2>1. \A a \in Closers : td[a].at = 0
        BY DEF Quiet, Idle
  <2>2. ~Torn(f)
        BY <1>6, <2>1 DEF Torn, Actors
  <2>3. \A c \in victims : conn[f] < c
        BY <1>2, <1>6
  <2> QED BY <1>4, <1>5, <1>6, <2>2, <2>3 DEF Fresh, Sound
<1>8. Fits(p, f)
      BY <1>1, <1>4, <1>7 DEF InOrder, Ordered, Filling
<1>9. Len(p) = MsgPieces
      BY <1>2, <1>8, Pieces DEF Fits
<1>10. Aligned(p)
  <2> HIDE DEF p, f
  <2> DEFINE n == taken[f] - Len(p)
  <2>1. n \in Nat /\ n % MsgPieces = 0 /\ \A i \in 1..Len(p) : p[i] = <<conn[f], n + i>>
        BY <1>1, <1>2, <1>8 DEF Fits
  <2> HIDE DEF n
  <2>2. p[1] = <<conn[f], n + 1>>
        BY <1>2, <2>1
  <2>3. (p[1][2] - 1) % MsgPieces = 0
    <3>1. (n + 1) - 1 = n
          BY <2>1
    <3> QED BY <2>1, <2>2, <3>1
  <2>4. ASSUME NEW i \in 1..Len(p) PROVE p[i] = <<p[1][1], p[1][2] + i - 1>>
    <3>1. (n + 1) + i - 1 = n + i
          BY <2>1
    <3> QED BY <2>1, <2>2, <3>1
  <2> QED BY <2>3, <2>4 DEF Aligned
<1> QED BY <1>9, <1>10

LEMMA MessagesWholeNext ==
    ASSUME TypeOK, Buffers, Exclusive, MsgsApart, Measured, Rights, InOrder, MessagesWhole,
           Quiet, Quiet', [Next]_vars
    PROVE  MessagesWhole'
<1> SUFFICES ASSUME NEW i \in 1..Len(msgs'),
                    \A j \in 1..Len(bytes'[msgs'[i]]) : \A c \in victims' : bytes'[msgs'[i]][j][1] < c
             PROVE  Len(bytes'[msgs'[i]]) = MsgPieces /\ Aligned(bytes'[msgs'[i]])
    BY DEF MessagesWhole, Aligned
<1> DEFINE b == msgs'[i]
<1>1. /\ bytes'[b] = bytes[b]
      /\ \A j \in 1..Len(bytes[b]) : \A c \in victims : bytes[b][j][1] < c
      BY MessageKept, VictimsGrow
<1>2. ASSUME NEW k \in 1..Len(msgs), b = msgs[k] PROVE Len(bytes[b]) = MsgPieces /\ Aligned(bytes[b])
      BY <1>1, <1>2 DEF MessagesWhole
<1>3. ASSUME NEW w \in Workers, PutMessageToQueue(w), b = buf[w]
      PROVE  Len(bytes[b]) = MsgPieces /\ Aligned(bytes[b])
      BY <1>1, <1>3, WholeHandedOver
<1>4. msgs \in Seq(Bufs)
      BY DEF TypeOK, BufType
<1>5. \/ \E k \in 1..Len(msgs) : b = msgs[k]
      \/ \E w \in Workers : PutMessageToQueue(w) /\ b = buf[w]
  <2>1. CASE msgs' = msgs
        BY <2>1
  <2>2. CASE msgs # <<>> /\ msgs' = Tail(msgs)
    <3>1. i + 1 \in 1..Len(msgs) /\ msgs'[i] = msgs[i + 1]
          BY <1>4, <2>2
    <3> QED BY <3>1
  <2>3. ASSUME NEW w \in Workers, PutMessageToQueue(w), msgs' = Append(msgs, buf[w])
        PROVE  (\E k \in 1..Len(msgs) : b = msgs[k]) \/ b = buf[w]
    <3>1. buf[w] \in Bufs
          BY <2>3 DEF PutMessageToQueue, TypeOK, BufType
    <3>2. /\ Len(msgs') = Len(msgs) + 1 /\ msgs'[Len(msgs) + 1] = buf[w]
          /\ \A k \in 1..Len(msgs) : msgs'[k] = msgs[k]
          BY <1>4, <2>3, <3>1
    <3> QED BY <1>4, <3>2
  <2> QED BY <2>1, <2>2, <2>3, MsgsStep
<1>6. Len(bytes[b]) = MsgPieces /\ Aligned(bytes[b])
      BY <1>2, <1>3, <1>5
<1> QED BY <1>1, <1>6

\* The invariant of the messages, as long as only workers tear connections down.
MsgInv ==
    /\ Exclusive /\ DeadConns /\ MsgsApart /\ Measured /\ Rights /\ Started /\ Unused /\ InOrder
    /\ MessagesLive /\ MessagesWhole

LEMMA MsgInit == Init => MsgInv
<1> SUFFICES ASSUME Init PROVE MsgInv
    OBVIOUS
<1>1. /\ claims = {} /\ msgs = <<>> /\ victims = {} /\ robbed = {}
      /\ \A f \in Fds : conn[f] = 0 /\ taken[f] = 0 /\ store[f] = None
      /\ \A w \in Workers : pc[w] = "start" /\ buf[w] = None /\ td[w].at = 0
      /\ Len(msgs) = 0 /\ 1..0 = {}
      BY DEF Init, Idle, Actors
<1>2. Exclusive /\ DeadConns /\ MsgsApart /\ Measured /\ Rights
      BY <1>1 DEF Exclusive, HoldsClaim, Holding, Receiving, DeadConns, Owns, MsgsApart, Measured,
                  Rights, Finished
<1>3. Started /\ Unused /\ InOrder
      BY <1>1 DEF Started, Unused, Unspoilt, InHand, Holding, Receiving, InOrder, Fresh, Sound
<1>4. MessagesLive /\ MessagesWhole
      BY <1>1 DEF MessagesLive, MessagesWhole
<1> QED BY <1>2, <1>3, <1>4 DEF MsgInv

LEMMA MsgNext ==
    TypeOK /\ Watch /\ Buffers /\ MsgInv /\ Quiet /\ Quiet' /\ [Next]_vars => MsgInv'
BY ExclusiveNext, DeadNext, MsgsApartNext, MeasuredNext, RightsNext, StartedNext, UnusedNext,
   InOrderNext, MessagesLiveNext, MessagesWholeNext DEF MsgInv

LEMMA MsgAlways == Spec /\ []Quiet => []MsgInv
BY MsgInit, MsgNext, TypeCorrect, WatchAlways, BuffersAlways, PTL DEF Spec

\* A message in g_msg_queue is in allocated memory, whatever the number of workers and
\* however they interleave, as long as no detector, sender or checker tears a connection
\* down: its connection is one that no stray call hit.
THEOREM MessagesStayLive == Spec /\ []Quiet => []MessagesLive
<1>1. MsgInv => MessagesLive
      BY DEF MsgInv
<1> QED BY <1>1, MsgAlways, PTL

\* Under the same condition PutMessageToQueue hands exactly one message of one client to the
\* service side, with its pieces in the order they were sent.
THEOREM MessagesAreWhole == Spec /\ []Quiet => []MessagesWhole
<1>1. MsgInv => MessagesWhole
      BY DEF MsgInv
<1> QED BY <1>1, MsgAlways, PTL

=============================================================================
